----------------------------- MODULE ServersProofs ------------------------------
(***************************************************************************)
(* Proofs about the gRPC server, the HTTP server and the health checks, for *)
(* any calls of Start and Stop, RPCs, requests and checks: what each has    *)
(* released when it returns, and what its result says.                      *)
(***************************************************************************)
EXTENDS Servers, Naturals, Sequences, FiniteSets, TLAPS

-----------------------------------------------------------------------------
\* GrpcServer.

GrpcTypes ==
  /\ started \in BOOLEAN /\ stopRequested \in BOOLEAN /\ listening \in BOOLEAN
  /\ serveErr \in BOOLEAN /\ quit \in BOOLEAN
  /\ serve \in {"none", "launched", "serving", "exited", "done"}
  /\ once \in {"fresh", "graceful", "forced", "drained", "over"}
  /\ stopErr \in {"none", "forced", "serve"}
  /\ rpcs \in [Rpc -> {"idle", "active", "done", "aborted"}]
  /\ starts \in [StartCall -> {"idle", "ok", "error"}]
  /\ stops \in [StopCall -> {"idle", "once", "none", "forced", "serve"}]

\* The Serve goroutine: without Start nothing has happened, and a server that was told
\* to stop accepts nothing once Serve is entered.
GrpcServeInv ==
  /\ serve = "none" <=> ~started
  /\ ~started => /\ once = "fresh" /\ ~quit /\ ~serveErr
                 /\ \A r \in Rpc : rpcs[r] = "idle"
  /\ quit <=> once # "fresh"
  /\ quit /\ serve # "launched" => ~listening
  /\ serve \in {"exited", "done"} => ~listening

\* The stop: the RPCs are over when it has drained, an aborted one is reported, and so
\* is an error of Serve.
GrpcOnceInv ==
  /\ once \in {"drained", "over"} => G!Active = {}
  /\ once = "over" => serve = "done" /\ (stopErr = "none" => ~serveErr)
  /\ once \in {"fresh", "graceful", "forced"} => stopErr = "none"
  /\ once \in {"fresh", "graceful"} => \A r \in Rpc : rpcs[r] # "aborted"
  /\ once \in {"drained", "over"} /\ stopErr # "forced" => \A r \in Rpc : rpcs[r] # "aborted"

\* A Stop call returned because the server was not started, and never will be, or
\* with the result of the one stop.
GrpcStopInv ==
  \A c \in StopCall :
    /\ stops[c] = "once" => started
    /\ G!Returned(c) => \/ ~started /\ stopRequested /\ ~listening /\ stops[c] = "none"
                        \/ started /\ once = "over" /\ stops[c] = stopErr

\* One call of Start succeeds, and until a stop the server has its listener.
GrpcStartInv ==
  /\ ~started /\ ~stopRequested => listening
  /\ serve \in {"launched", "serving"} /\ ~quit => listening
  /\ \A c \in StartCall : starts[c] = "ok" => started
  /\ \A c, d \in StartCall : starts[c] = "ok" /\ starts[d] = "ok" => c = d

GrpcInv == GrpcTypes /\ GrpcServeInv /\ GrpcOnceInv /\ GrpcStopInv /\ GrpcStartInv

-----------------------------------------------------------------------------
\* A server that New made satisfies the invariant.
LEMMA GrpcInit == G!Init => GrpcInv
<1> SUFFICES ASSUME G!Init PROVE GrpcInv
  BY Zenon
<1>1. GrpcTypes
  BY Zenon DEF G!Init, GrpcTypes
<1>2. GrpcServeInv
  BY Zenon DEF G!Init, GrpcServeInv
<1>3. GrpcOnceInv
  BY Zenon DEF G!Init, GrpcOnceInv
<1>4. GrpcStopInv
  BY Zenon DEF G!Init, GrpcStopInv, G!Returned
<1>5. GrpcStartInv
  BY Zenon DEF G!Init, GrpcStartInv
<1> QED
  BY <1>1, <1>2, <1>3, <1>4, <1>5, Zenon DEF GrpcInv

\* Every step keeps the types.
LEMMA GrpcTypesNext == GrpcInv /\ [G!Next]_G!grpcVars => GrpcTypes'
<1> SUFFICES ASSUME GrpcInv, [G!Next]_G!grpcVars PROVE GrpcTypes'
  BY Zenon
<1> USE DEF GrpcInv, GrpcTypes
<1>1. CASE G!ServeBegins \/ G!ServeReturns \/ G!ServeDone
  BY <1>1, ZenonT(60) DEF G!ServeBegins, G!ServeReturns, G!ServeDone
<1>2. CASE G!ServeFails
  BY <1>2, Zenon DEF G!ServeFails
<1>3. CASE G!GracefulStop
  BY <1>3, Zenon DEF G!GracefulStop
<1>4. CASE G!GracefulDone
  BY <1>4, Zenon DEF G!GracefulDone
<1>5. CASE G!Forced
  BY <1>5, Zenon DEF G!Forced
<1>6. CASE G!StopOver
  BY <1>6, Zenon DEF G!StopOver
<1>7. ASSUME NEW c \in StopCall, G!StopReturns(c) PROVE GrpcTypes'
  BY <1>7, Zenon DEF G!StopReturns
<1>8. ASSUME NEW c \in StartCall, G!Start(c) PROVE GrpcTypes'
  BY <1>8, ZenonT(60) DEF G!Start
<1>9. ASSUME NEW c \in StopCall, G!Stop(c) PROVE GrpcTypes'
  BY <1>9, Zenon DEF G!Stop
<1>10. ASSUME NEW r \in Rpc, G!Call(r) PROVE GrpcTypes'
  BY <1>10, Zenon DEF G!Call
<1>11. ASSUME NEW r \in Rpc, G!RpcEnds(r) PROVE GrpcTypes'
  BY <1>11 DEF G!RpcEnds
<1>12. ASSUME NEW r \in Rpc, G!RpcAborts(r) PROVE GrpcTypes'
  BY <1>12, Zenon DEF G!RpcAborts
<1>13. CASE UNCHANGED G!grpcVars
  BY <1>13 DEF G!grpcVars
<1> QED
  BY <1>1, <1>2, <1>3, <1>4, <1>5, <1>6, <1>7, <1>8, <1>9, <1>10, <1>11, <1>12, <1>13, Zenon
  DEF G!Next, G!Serving, G!Shutdown

\* Every step keeps what is known of the Serve goroutine and the listener.
LEMMA GrpcServeNext == GrpcInv /\ [G!Next]_G!grpcVars => GrpcServeInv'
<1> SUFFICES ASSUME GrpcInv, [G!Next]_G!grpcVars PROVE GrpcServeInv'
  BY Zenon
<1> USE DEF GrpcInv, GrpcTypes, GrpcServeInv, G!Active
<1>1. CASE G!ServeBegins \/ G!ServeReturns \/ G!ServeDone
  BY <1>1 DEF G!ServeBegins, G!ServeReturns, G!ServeDone
<1>2. CASE G!ServeFails
  BY <1>2, Zenon DEF G!ServeFails
<1>3. CASE G!GracefulStop
  <2>1. started
    BY <1>3, Zenon DEF G!GracefulStop, GrpcStopInv
  <2>2. serve # "launched" => ~listening'
    BY <1>3, Zenon DEF G!GracefulStop
  <2> QED
    BY <1>3, <2>1, <2>2, Zenon DEF G!GracefulStop
<1>4. CASE G!GracefulDone
  BY <1>4, Zenon DEF G!GracefulDone
<1>5. CASE G!Forced
  BY <1>5, Zenon DEF G!Forced
<1>6. CASE G!StopOver
  BY <1>6, Zenon DEF G!StopOver
<1>7. ASSUME NEW c \in StopCall, G!StopReturns(c) PROVE GrpcServeInv'
  BY <1>7, Zenon DEF G!StopReturns
<1>8. ASSUME NEW c \in StartCall, G!Start(c) PROVE GrpcServeInv'
  BY <1>8 DEF G!Start
<1>9. ASSUME NEW c \in StopCall, G!Stop(c) PROVE GrpcServeInv'
  BY <1>9 DEF G!Stop
<1>10. ASSUME NEW r \in Rpc, G!Call(r) PROVE GrpcServeInv'
  BY <1>10, Zenon DEF G!Call
<1>11. ASSUME NEW r \in Rpc, G!RpcEnds(r) PROVE GrpcServeInv'
  BY <1>11, Zenon DEF G!RpcEnds
<1>12. ASSUME NEW r \in Rpc, G!RpcAborts(r) PROVE GrpcServeInv'
  BY <1>12, Zenon DEF G!RpcAborts
<1>13. CASE UNCHANGED G!grpcVars
  BY <1>13, Zenon DEF G!grpcVars
<1> QED
  BY <1>1, <1>2, <1>3, <1>4, <1>5, <1>6, <1>7, <1>8, <1>9, <1>10, <1>11, <1>12, <1>13, Zenon
  DEF G!Next, G!Serving, G!Shutdown

\* Every step keeps what the stop has waited for and reports.
LEMMA GrpcOnceNext == GrpcInv /\ [G!Next]_G!grpcVars => GrpcOnceInv'
<1> SUFFICES ASSUME GrpcInv, [G!Next]_G!grpcVars PROVE GrpcOnceInv'
  BY Zenon
<1> USE DEF GrpcInv, GrpcTypes, GrpcServeInv, GrpcOnceInv, G!Active
<1>1. CASE G!ServeBegins \/ G!ServeReturns \/ G!ServeDone
  BY <1>1, Zenon DEF G!ServeBegins, G!ServeReturns, G!ServeDone
<1>2. CASE G!ServeFails
  BY <1>2, Zenon DEF G!ServeFails
<1>3. CASE G!GracefulStop
  BY <1>3, Zenon DEF G!GracefulStop
<1>4. CASE G!GracefulDone
  BY <1>4, Zenon DEF G!GracefulDone
<1>5. CASE G!Forced
  BY <1>5, Zenon DEF G!Forced
<1>6. CASE G!StopOver
  BY <1>6, Zenon DEF G!StopOver
<1>7. ASSUME NEW c \in StopCall, G!StopReturns(c) PROVE GrpcOnceInv'
  BY <1>7, Zenon DEF G!StopReturns
<1>8. ASSUME NEW c \in StartCall, G!Start(c) PROVE GrpcOnceInv'
  BY <1>8, Zenon DEF G!Start
<1>9. ASSUME NEW c \in StopCall, G!Stop(c) PROVE GrpcOnceInv'
  BY <1>9, Zenon DEF G!Stop
<1>10. ASSUME NEW r \in Rpc, G!Call(r) PROVE GrpcOnceInv'
  BY <1>10, Zenon DEF G!Call
<1>11. ASSUME NEW r \in Rpc, G!RpcEnds(r) PROVE GrpcOnceInv'
  BY <1>11, Zenon DEF G!RpcEnds
<1>12. ASSUME NEW r \in Rpc, G!RpcAborts(r) PROVE GrpcOnceInv'
  BY <1>12, Zenon DEF G!RpcAborts
<1>13. CASE UNCHANGED G!grpcVars
  BY <1>13, Zenon DEF G!grpcVars
<1> QED
  BY <1>1, <1>2, <1>3, <1>4, <1>5, <1>6, <1>7, <1>8, <1>9, <1>10, <1>11, <1>12, <1>13, Zenon
  DEF G!Next, G!Serving, G!Shutdown

\* Every step keeps the results of the Stop calls.
LEMMA GrpcStopNext == GrpcInv /\ [G!Next]_G!grpcVars => GrpcStopInv'
<1> SUFFICES ASSUME GrpcInv, [G!Next]_G!grpcVars PROVE GrpcStopInv'
  BY Zenon
<1> USE DEF GrpcInv, GrpcTypes, GrpcServeInv, GrpcOnceInv, GrpcStopInv, G!Active, G!Returned
<1>1. CASE G!ServeBegins \/ G!ServeReturns \/ G!ServeDone
  BY <1>1, Zenon DEF G!ServeBegins, G!ServeReturns, G!ServeDone
<1>2. CASE G!ServeFails
  BY <1>2, Zenon DEF G!ServeFails
<1>3. CASE G!GracefulStop
  BY <1>3, Zenon DEF G!GracefulStop
<1>4. CASE G!GracefulDone
  BY <1>4, Zenon DEF G!GracefulDone
<1>5. CASE G!Forced
  BY <1>5, Zenon DEF G!Forced
<1>6. CASE G!StopOver
  BY <1>6, Zenon DEF G!StopOver
<1>7. ASSUME NEW c \in StopCall, G!StopReturns(c) PROVE GrpcStopInv'
  BY <1>7, Zenon DEF G!StopReturns
<1>8. ASSUME NEW c \in StartCall, G!Start(c) PROVE GrpcStopInv'
  BY <1>8, Zenon DEF G!Start
<1>9. ASSUME NEW c \in StopCall, G!Stop(c) PROVE GrpcStopInv'
  BY <1>9 DEF G!Stop
<1>10. ASSUME NEW r \in Rpc, G!Call(r) PROVE GrpcStopInv'
  BY <1>10, Zenon DEF G!Call
<1>11. ASSUME NEW r \in Rpc, G!RpcEnds(r) PROVE GrpcStopInv'
  BY <1>11, Zenon DEF G!RpcEnds
<1>12. ASSUME NEW r \in Rpc, G!RpcAborts(r) PROVE GrpcStopInv'
  BY <1>12, Zenon DEF G!RpcAborts
<1>13. CASE UNCHANGED G!grpcVars
  BY <1>13, Zenon DEF G!grpcVars
<1> QED
  BY <1>1, <1>2, <1>3, <1>4, <1>5, <1>6, <1>7, <1>8, <1>9, <1>10, <1>11, <1>12, <1>13, Zenon
  DEF G!Next, G!Serving, G!Shutdown

\* Every step keeps the listener of a server that is not stopped, and the successful
\* Start the only one.
LEMMA GrpcStartNext == GrpcInv /\ [G!Next]_G!grpcVars => GrpcStartInv'
<1> SUFFICES ASSUME GrpcInv, [G!Next]_G!grpcVars PROVE GrpcStartInv'
  BY Zenon
<1> USE DEF GrpcInv, GrpcTypes, GrpcServeInv, GrpcStartInv
<1>1. CASE G!ServeBegins
  BY <1>1, Zenon DEF G!ServeBegins
<1>2. CASE G!ServeReturns \/ G!ServeDone \/ G!ServeFails
  <2>1. started /\ started' = started /\ starts' = starts /\ serve' \in {"exited", "done"}
    BY <1>2, Zenon DEF G!ServeReturns, G!ServeDone, G!ServeFails
  <2> QED
    BY <2>1, Zenon
<1>3. CASE G!GracefulStop
  <2>1. started
    BY <1>3, Zenon DEF G!GracefulStop, GrpcStopInv
  <2>2. started' = started /\ starts' = starts /\ quit'
    BY <1>3, Zenon DEF G!GracefulStop
  <2> QED
    BY <2>1, <2>2, Zenon
<1>4. CASE G!GracefulDone \/ G!Forced \/ G!StopOver \/ \E c \in StopCall : G!StopReturns(c)
  BY <1>4, Zenon DEF G!GracefulDone, G!Forced, G!StopOver, G!StopReturns
<1>5. ASSUME NEW c \in StartCall, G!Start(c) PROVE GrpcStartInv'
  <2>1. CASE started \/ stopRequested
    <3>1. /\ UNCHANGED <<started, stopRequested, listening, serve, quit>>
          /\ \A d \in StartCall : starts'[d] = "ok" => starts[d] = "ok"
      BY <1>5, <2>1, Zenon DEF G!Start
    <3> QED
      BY <3>1, Zenon
  <2>2. CASE ~started /\ ~stopRequested
    <3>1. /\ started' = TRUE /\ listening' = listening /\ listening
          /\ starts' = [starts EXCEPT ![c] = "ok"]
      BY <1>5, <2>2, Zenon DEF G!Start
    <3>2. \A d \in StartCall : starts'[d] = "ok" => d = c
      BY <2>2, <3>1, Zenon
    <3> QED
      BY <3>1, <3>2, Zenon
  <2> QED
    BY <2>1, <2>2, Zenon
<1>6. ASSUME NEW c \in StopCall, G!Stop(c) PROVE GrpcStartInv'
  BY <1>6, Zenon DEF G!Stop
<1>7. ASSUME NEW r \in Rpc, G!Call(r) \/ G!RpcEnds(r) \/ G!RpcAborts(r) PROVE GrpcStartInv'
  BY <1>7, Zenon DEF G!Call, G!RpcEnds, G!RpcAborts
<1>8. CASE UNCHANGED G!grpcVars
  BY <1>8, Zenon DEF G!grpcVars
<1> QED
  BY <1>1, <1>2, <1>3, <1>4, <1>5, <1>6, <1>7, <1>8, Zenon DEF G!Next, G!Serving, G!Shutdown

\* The inductive invariant holds at all times.
THEOREM GrpcInvariant == G!Spec => []GrpcInv
<1>1. GrpcInv /\ [G!Next]_G!grpcVars => GrpcInv'
  BY GrpcTypesNext, GrpcServeNext, GrpcOnceNext, GrpcStopNext, GrpcStartNext, Zenon DEF GrpcInv
<1> QED
  BY <1>1, GrpcInit, PTL DEF G!Spec

\* When any call of Stop returns, one that overtook Start or another Stop included, the
\* listener is closed, no RPC runs and the Serve goroutine has ended.
THEOREM GrpcStopSettlesCorrect == G!Spec => []G!GrpcStopSettles
<1>1. GrpcInv => G!GrpcStopSettles
  <2> SUFFICES ASSUME GrpcInv, NEW c \in StopCall, G!Returned(c)
               PROVE  ~listening /\ G!Active = {} /\ serve \in {"none", "done"}
    BY Zenon DEF G!GrpcStopSettles
  <2>1. CASE ~started
    BY <2>1, Zenon DEF GrpcInv, GrpcServeInv, GrpcStopInv, G!Active
  <2>2. CASE started
    BY <2>2, Zenon DEF GrpcInv, GrpcServeInv, GrpcOnceInv, GrpcStopInv
  <2> QED
    BY <2>1, <2>2, Zenon
<1> QED
  BY <1>1, GrpcInvariant, PTL

\* All calls of Stop that return do so with the same result, and nil hides neither an
\* aborted RPC nor an error of Serve.
THEOREM GrpcStopResultCorrect == G!Spec => [](G!GrpcStopAgrees /\ G!GrpcNilIsGraceful)
<1>1. GrpcInv => G!GrpcStopAgrees
  BY Zenon DEF GrpcInv, GrpcStopInv, G!GrpcStopAgrees
<1>2. GrpcInv => G!GrpcNilIsGraceful
  BY Zenon DEF GrpcInv, GrpcTypes, GrpcServeInv, GrpcOnceInv, GrpcStopInv, G!Returned, G!GrpcNilIsGraceful
<1> QED
  BY <1>1, <1>2, GrpcInvariant, PTL

INSTANCE FiniteSetTheorems

\* All of it, with the types: one Start at most succeeds, and a server that serves and
\* was not told to stop has its listener.
THEOREM GrpcSoundCorrect == G!Spec => []GrpcSound
<1>1. GrpcInv => G!GrpcTypeOK
  <2> SUFFICES ASSUME GrpcInv PROVE G!GrpcTypeOK
    BY Zenon
  <2> DEFINE S == {c \in StartCall : starts[c] = "ok"}
  <2>1. Cardinality(S) <= 1
    <3>1. CASE S = {}
      BY <3>1, FS_EmptySet
    <3>2. CASE S # {}
      <4>1. PICK c : S = {c}
        BY <3>2 DEF GrpcInv, GrpcStartInv
      <4> QED
        BY <4>1, FS_Singleton
    <3> QED
      BY <3>1, <3>2, Zenon
  <2>2. {started, stopRequested, listening, serveErr, quit} \subseteq BOOLEAN
    BY Zenon DEF GrpcInv, GrpcTypes
  <2>3. (serve = "none") = ~started
    BY Zenon DEF GrpcInv, GrpcTypes, GrpcServeInv
  <2>4. serve = "serving" /\ ~quit => listening
    BY Zenon DEF GrpcInv, GrpcStartInv
  <2>5. /\ serve \in {"none", "launched", "serving", "exited", "done"}
        /\ once \in {"fresh", "graceful", "forced", "drained", "over"}
        /\ stopErr \in {"none", "forced", "serve"}
        /\ rpcs \in [Rpc -> {"idle", "active", "done", "aborted"}]
        /\ starts \in [StartCall -> {"idle", "ok", "error"}]
        /\ stops \in [StopCall -> {"idle", "once", "none", "forced", "serve"}]
    BY Zenon DEF GrpcInv, GrpcTypes
  <2> QED
    BY <2>1, <2>2, <2>3, <2>4, <2>5, Zenon DEF G!GrpcTypeOK, G!Cardinality, Cardinality
<1>2. G!GrpcTypeOK /\ G!GrpcStopSettles /\ G!GrpcStopAgrees /\ G!GrpcNilIsGraceful => GrpcSound
  BY Zenon DEF GrpcSound, G!GrpcSound
<1> QED
  BY <1>1, <1>2, GrpcInvariant, GrpcStopSettlesCorrect, GrpcStopResultCorrect, PTL

-----------------------------------------------------------------------------
\* HttpServe.

\* How far Serve, its task and the goroutine of server.Serve are from one another.
HttpStagesInv ==
  /\ call # "ok" <=> task = "none"
  /\ task \in {"none", "begin"} <=> serving = "none"
  /\ call \in {"listen", "error"} => ~bound
  /\ call \in {"spawn", "ok"} /\ serving \in {"none", "launched"} => bound
  /\ call # "ok" => httpClosed = "no"
  /\ task \in {"shutdown", "await"} => httpClosed # "no"
  /\ httpClosed = "byTask" => taskCtx /\ task \in {"shutdown", "await", "returned"}

\* The goroutine closes the listener when it ends, and what it returned is in the
\* channel until the task takes it.
HttpServeInv ==
  /\ serving = "returned" => ~bound
  /\ serving = "serving" /\ httpClosed # "no" => ~bound
  /\ task = "returned" => serving = "returned"
  /\ errCh # <<>> <=> serving = "returned" /\ task # "returned"
  /\ errCh = <<"closed">> => httpClosed # "no"
  /\ errCh = <<"error">> <=> acceptFailed /\ task # "returned"
  /\ acceptFailed /\ task = "returned" => httpResult = "exited"

\* Nothing is accepted by a server that was closed, so requests that Close dropped or
\* Shutdown waited for do not come back.
HttpRequestInv ==
  /\ httpClosed = "byOther" => H!Active = {}
  /\ task = "await" /\ ~shutErr => H!Active = {}
  /\ httpResult = "nil" => httpClosed # "no" /\ H!Active = {}

HttpInv == H!HttpTypeOK /\ HttpStagesInv /\ HttpServeInv /\ HttpRequestInv

-----------------------------------------------------------------------------
\* Before the call everything is closed and idle.
LEMMA HttpInit == H!Init => HttpInv
<1> SUFFICES ASSUME H!Init PROVE HttpInv
  BY Zenon
<1>1. H!HttpTypeOK
  BY Zenon DEF H!Init, H!HttpTypeOK
<1>2. HttpStagesInv
  BY Zenon DEF H!Init, HttpStagesInv
<1>3. HttpServeInv
  BY Zenon DEF H!Init, HttpServeInv
<1>4. HttpRequestInv
  BY Zenon DEF H!Init, HttpRequestInv
<1> QED
  BY <1>1, <1>2, <1>3, <1>4, Zenon DEF HttpInv

\* Every step keeps the types.
LEMMA HttpTypeNext == HttpInv /\ [H!Next]_H!httpVars => H!HttpTypeOK'
<1> SUFFICES ASSUME HttpInv, [H!Next]_H!httpVars PROVE H!HttpTypeOK'
  BY Zenon
<1> USE DEF HttpInv, H!HttpTypeOK
<1>1. CASE H!Listen \/ H!Spawn
  BY <1>1, Zenon DEF H!Listen, H!Spawn, HttpStagesInv
<1>2. CASE H!CallerDone \/ H!Cancel
  BY <1>2, ZenonT(60) DEF H!CallerDone, H!Cancel
<1>3. CASE H!TaskBegins
  BY <1>3, Zenon DEF H!TaskBegins, HttpStagesInv, HttpServeInv
<1>4. CASE H!SelectServeErr \/ H!AwaitServe
  BY <1>4, Zenon DEF H!SelectServeErr, H!AwaitServe, H!ServeResult
<1>5. CASE H!SelectDone \/ H!ShutdownReturns
  BY <1>5, Zenon DEF H!SelectDone, H!ShutdownReturns
<1>6. CASE H!Server
  BY <1>6, Zenon DEF H!Server, H!ServeBegins, H!ServeReturns, HttpStagesInv, HttpServeInv
<1>7. CASE H!AcceptFails
  BY <1>7, Zenon DEF H!AcceptFails
<1>8. CASE H!OtherCloses
  BY <1>8, Zenon DEF H!OtherCloses
<1>9. ASSUME NEW r \in Request, H!Accept(r) \/ H!RequestEnds(r) PROVE H!HttpTypeOK'
  BY <1>9 DEF H!Accept, H!RequestEnds
<1>10. CASE UNCHANGED H!httpVars
  BY <1>10 DEF H!httpVars
<1> QED
  BY <1>1, <1>2, <1>3, <1>4, <1>5, <1>6, <1>7, <1>8, <1>9, <1>10 DEF H!Next, H!Task
\* Every step keeps the stages together.
LEMMA HttpStagesNext == HttpInv /\ [H!Next]_H!httpVars => HttpStagesInv'
<1> SUFFICES ASSUME HttpInv, [H!Next]_H!httpVars PROVE HttpStagesInv'
  BY Zenon
<1> USE DEF HttpInv, H!HttpTypeOK, HttpStagesInv
<1>1. CASE H!Listen \/ H!Spawn
  BY <1>1, Zenon DEF H!Listen, H!Spawn
<1>2. CASE H!CallerDone \/ H!Cancel
  BY <1>2, Zenon DEF H!CallerDone, H!Cancel
<1>3. CASE H!TaskBegins
  BY <1>3, Zenon DEF H!TaskBegins
<1>4. CASE H!SelectServeErr \/ H!AwaitServe
  BY <1>4, Zenon DEF H!SelectServeErr, H!AwaitServe
<1>5. CASE H!SelectDone \/ H!ShutdownReturns
  BY <1>5, Zenon DEF H!SelectDone, H!ShutsDown, H!ShutdownReturns
<1>6. CASE H!Server \/ H!AcceptFails
  BY <1>6, Zenon DEF H!Server, H!ServeBegins, H!ServeReturns, H!AcceptFails
<1>7. CASE H!OtherCloses
  BY <1>7, Zenon DEF H!OtherCloses
<1>8. ASSUME NEW r \in Request, H!Accept(r) \/ H!RequestEnds(r) PROVE HttpStagesInv'
  BY <1>8, Zenon DEF H!Accept, H!RequestEnds
<1>9. CASE UNCHANGED H!httpVars
  BY <1>9, Zenon DEF H!httpVars
<1> QED
  BY <1>1, <1>2, <1>3, <1>4, <1>5, <1>6, <1>7, <1>8, <1>9, Zenon DEF H!Next, H!Task

\* Every step keeps what the goroutine of server.Serve closed and reported.
LEMMA HttpServeNext == HttpInv /\ [H!Next]_H!httpVars => HttpServeInv'
<1> SUFFICES ASSUME HttpInv, [H!Next]_H!httpVars PROVE HttpServeInv'
  BY Zenon
<1> USE DEF HttpInv, H!HttpTypeOK, HttpStagesInv, HttpServeInv
<1>1. CASE H!Listen \/ H!Spawn
  BY <1>1, Zenon DEF H!Listen, H!Spawn
<1>2. CASE H!CallerDone \/ H!Cancel
  BY <1>2, Zenon DEF H!CallerDone, H!Cancel
<1>3. CASE H!TaskBegins
  BY <1>3, Zenon DEF H!TaskBegins
<1>4. CASE H!SelectServeErr \/ H!AwaitServe
  BY <1>4 DEF H!SelectServeErr, H!AwaitServe, H!ServeResult
<1>5. CASE H!SelectDone \/ H!ShutdownReturns
  BY <1>5, Zenon DEF H!SelectDone, H!ShutsDown, H!ShutdownReturns
<1>6. CASE H!Server \/ H!AcceptFails
  BY <1>6 DEF H!Server, H!ServeBegins, H!ServeReturns, H!AcceptFails
<1>7. CASE H!OtherCloses
  BY <1>7, Zenon DEF H!OtherCloses
<1>8. ASSUME NEW r \in Request, H!Accept(r) \/ H!RequestEnds(r) PROVE HttpServeInv'
  BY <1>8 DEF H!Accept, H!RequestEnds
<1>9. CASE UNCHANGED H!httpVars
  BY <1>9, Zenon DEF H!httpVars
<1> QED
  BY <1>1, <1>2, <1>3, <1>4, <1>5, <1>6, <1>7, <1>8, <1>9, Zenon DEF H!Next, H!Task

\* Every step keeps the requests of a closed server settled.
LEMMA HttpRequestNext == HttpInv /\ [H!Next]_H!httpVars => HttpRequestInv'
<1> SUFFICES ASSUME HttpInv, [H!Next]_H!httpVars PROVE HttpRequestInv'
  BY Zenon
<1> USE DEF HttpInv, H!HttpTypeOK, HttpStagesInv, HttpServeInv, HttpRequestInv, H!Active
<1>1. CASE H!Listen \/ H!Spawn
  BY <1>1, Zenon DEF H!Listen, H!Spawn
<1>2. CASE H!CallerDone \/ H!Cancel
  BY <1>2, Zenon DEF H!CallerDone, H!Cancel
<1>3. CASE H!TaskBegins
  BY <1>3, Zenon DEF H!TaskBegins
<1>4. CASE H!SelectServeErr \/ H!AwaitServe
  BY <1>4, Zenon DEF H!SelectServeErr, H!AwaitServe, H!ServeResult
<1>5. CASE H!SelectDone \/ H!ShutdownReturns
  BY <1>5, Zenon DEF H!SelectDone, H!ShutsDown, H!ShutdownReturns
<1>6. CASE H!Server \/ H!AcceptFails
  BY <1>6, Zenon DEF H!Server, H!ServeBegins, H!ServeReturns, H!AcceptFails
<1>7. CASE H!OtherCloses
  BY <1>7, Zenon DEF H!OtherCloses
<1>8. ASSUME NEW r \in Request, H!Accept(r) \/ H!RequestEnds(r) PROVE HttpRequestInv'
  BY <1>8, Zenon DEF H!Accept, H!RequestEnds
<1>9. CASE UNCHANGED H!httpVars
  BY <1>9, Zenon DEF H!httpVars
<1> QED
  BY <1>1, <1>2, <1>3, <1>4, <1>5, <1>6, <1>7, <1>8, <1>9, Zenon DEF H!Next, H!Task

\* The inductive invariant holds at all times.
THEOREM HttpInvariant == H!Spec => []HttpInv
<1>1. HttpInv /\ [H!Next]_H!httpVars => HttpInv'
  BY HttpTypeNext, HttpStagesNext, HttpServeNext, HttpRequestNext, Zenon DEF HttpInv
<1> QED
  BY <1>1, HttpInit, PTL DEF H!Spec

\* The socket and the goroutine of server.Serve are released on every path on which
\* httpx.Serve fails or its task returns.
THEOREM HttpReleasesCorrect == H!Spec => []H!HttpReleases
<1>1. HttpInv => H!HttpReleases
  BY Zenon DEF HttpInv, H!HttpTypeOK, HttpStagesInv, HttpServeInv, H!HttpReleases
<1> QED
  BY <1>1, HttpInvariant, PTL

\* What the task returns is true: nil only when no request was cut off, and a failure of
\* Accept whenever there was one, also when it is cancelled in the same moment.
THEOREM HttpResultCorrect == H!Spec => [](H!HttpNilIsGraceful /\ H!HttpReportsServe)
<1>1. HttpInv => H!HttpNilIsGraceful /\ H!HttpReportsServe
  BY Zenon DEF HttpInv, HttpServeInv, HttpRequestInv, H!HttpNilIsGraceful, H!HttpReportsServe
<1> QED
  BY <1>1, HttpInvariant, PTL

\* A server is shut down by the cancellation of its task only.
THEOREM HttpOutlivesCallerCorrect == H!Spec => []H!HttpOutlivesCaller
<1>1. HttpInv => H!HttpOutlivesCaller
  BY Zenon DEF HttpInv, HttpStagesInv, H!HttpOutlivesCaller
<1> QED
  BY <1>1, HttpInvariant, PTL

\* All of it, with the types.
THEOREM HttpSoundCorrect == H!Spec => []HttpSound
<1>1. HttpInv /\ H!HttpReleases /\ H!HttpNilIsGraceful /\ H!HttpReportsServe /\ H!HttpOutlivesCaller
        => HttpSound
  BY Zenon DEF HttpInv, HttpSound, H!HttpSound
<1> QED
  BY <1>1, HttpInvariant, HttpReleasesCorrect, HttpResultCorrect, HttpOutlivesCallerCorrect, PTL

-----------------------------------------------------------------------------
\* HealthChecks.

\* An evaluation in progress: what is in the results is what the goroutines that ended
\* saw, and the verdict so far is that of those.
EvaluationInv ==
  healthPc \in {"run", "respond"} =>
    /\ results \in [failed : SUBSET Check, passed : SUBSET Check]
    /\ \A c \in Check : c \in results.failed <=> c \notin pend /\ seen[c] # "ok"
    /\ \A c \in Check : c \in results.passed <=> c \notin pend /\ seen[c] = "ok"
    /\ healthy <=> \A c \in Check \ pend : seen[c] = "ok"

\* Only Watch comes to its ticker, with the verdict of a whole evaluation sent.
StreamInv ==
  /\ healthPc = "respond" => pend = {}
  /\ healthPc = "tick" => api = "watch" /\ sent # <<>> /\ C!LastSent = healthy
  /\ healthPc = "tick" => (healthy <=> \A c \in Check : seen[c] = "ok")
  /\ api # "watch" /\ healthPc # "over" => sent = <<>>

HealthInv == C!HealthTypeOK /\ EvaluationInv /\ StreamInv /\ C!WatchAlternates

\* A step that leaves the stream and the service asked for alone keeps what is known of
\* them.
LEMMA SentKept ==
  ASSUME HealthInv, UNCHANGED <<api, known, sent>>
  PROVE  /\ C!WatchAlternates' /\ (C!LastSent)' = C!LastSent
         /\ api' \in {"http", "check", "watch"} /\ known' \in BOOLEAN
         /\ sent' \in Seq(BOOLEAN) /\ (api' # "watch" => Len(sent') <= 1)
<1>1. C!WatchAlternates' /\ (C!LastSent)' = C!LastSent
  BY Zenon DEF HealthInv, C!WatchAlternates, C!LastSent
<1> QED
  BY <1>1, Zenon DEF HealthInv, C!HealthTypeOK

\* What a goroutine enters is what its check answered.
LEMMA RunCheckKeeps ==
  ASSUME HealthInv, NEW c \in Check, C!RunCheck(c)
  PROVE  HealthInv'
<1>1. /\ healthPc = "run" /\ healthPc' = "run" /\ c \in pend /\ pend' = pend \ {c}
      /\ truth' = truth /\ flips' = flips /\ seen' = [seen EXCEPT ![c] = truth[c]]
      /\ healthy' = (healthy /\ truth[c] = "ok")
      /\ UNCHANGED <<api, known, sent>>
  BY Zenon DEF C!RunCheck, C!Combine
<1>2. results' = IF truth[c] = "ok" THEN [results EXCEPT !.passed = @ \cup {c}]
                 ELSE [results EXCEPT !.failed = @ \cup {c}]
  BY Zenon DEF C!RunCheck, C!Entered
<1>3. /\ truth \in [Check -> C!Answer] /\ seen \in [Check -> C!Answer \cup {"none"}]
      /\ pend \subseteq Check /\ flips \in 0..MaxFlips
  BY Zenon DEF HealthInv, C!HealthTypeOK
<1>4. /\ seen' \in [Check -> C!Answer \cup {"none"}] /\ seen'[c] = truth[c]
      /\ \A d \in Check \ {c} : seen'[d] = seen[d]
  BY <1>1, <1>3, Zenon
<1>5. EvaluationInv'
  <2>1. /\ results \in [failed : SUBSET Check, passed : SUBSET Check]
        /\ \A d \in Check : d \in results.failed <=> d \notin pend /\ seen[d] # "ok"
        /\ \A d \in Check : d \in results.passed <=> d \notin pend /\ seen[d] = "ok"
        /\ healthy <=> \A d \in Check \ pend : seen[d] = "ok"
    BY <1>1, Zenon DEF HealthInv, EvaluationInv
  <2>2. results' \in [failed : SUBSET Check, passed : SUBSET Check]
        /\ results'.failed = (IF truth[c] = "ok" THEN results.failed ELSE results.failed \cup {c})
        /\ results'.passed = (IF truth[c] = "ok" THEN results.passed \cup {c} ELSE results.passed)
    BY <1>2, <2>1, Zenon
  <2>3. ASSUME NEW d \in Check
        PROVE  /\ d \in results'.failed <=> d \notin pend' /\ seen'[d] # "ok"
               /\ d \in results'.passed <=> d \notin pend' /\ seen'[d] = "ok"
    <3>1. CASE d = c
      BY <1>1, <1>4, <2>1, <2>2, <3>1
    <3>2. CASE d # c
      BY <1>1, <1>4, <2>1, <2>2, <3>2
    <3> QED
      BY <3>1, <3>2, Zenon
  <2>4. healthy' <=> \A d \in Check \ pend' : seen'[d] = "ok"
    <3>1. Check \ pend' = (Check \ pend) \cup {c} /\ \A d \in Check \ pend : d # c
      BY <1>1, Zenon
    <3>2. healthy' <=> truth[c] = "ok" /\ \A d \in Check \ pend : seen[d] = "ok"
      BY <1>1, <2>1, Zenon
    <3> QED
      BY <1>4, <3>1, <3>2, Zenon
  <2> QED
    BY <2>2, <2>3, <2>4, Zenon DEF EvaluationInv
<1>6. results'.failed \cup results'.passed = Check \ pend'
  BY <1>1, <1>3, <1>5, Zenon DEF EvaluationInv
<1>7. healthy' \in BOOLEAN
  BY <1>1, Zenon
<1>8. C!HealthTypeOK'
  BY <1>1, <1>3, <1>4, <1>6, <1>7, SentKept, Zenon DEF C!HealthTypeOK
<1>9. StreamInv'
  BY <1>1, Zenon DEF HealthInv, StreamInv
<1> QED
  BY <1>1, <1>5, <1>8, <1>9, SentKept, Zenon DEF HealthInv

\* What Watch sends differs from what it sent before.
LEMMA RespondKeeps ==
  ASSUME HealthInv, C!Respond
  PROVE  HealthInv'
<1>1. healthPc = "respond" /\ UNCHANGED <<api, known, truth, pend, results, healthy, seen, flips>>
  BY Zenon DEF C!Respond
<1>2. /\ api \in {"http", "check", "watch"} /\ known \in BOOLEAN /\ truth \in [Check -> C!Answer]
      /\ pend \subseteq Check /\ healthy \in BOOLEAN
      /\ seen \in [Check -> C!Answer \cup {"none"}] /\ sent \in Seq(BOOLEAN)
      /\ flips \in 0..MaxFlips
  BY Zenon DEF HealthInv, C!HealthTypeOK
<1>3. pend = {} /\ (api # "watch" => sent = <<>>)
      /\ (healthy <=> \A c \in Check : seen[c] = "ok")
  BY <1>1, Zenon DEF HealthInv, StreamInv, EvaluationInv
<1>4. CASE C!Changed /\ sent' = Append(sent, healthy) /\ healthPc' = IF api = "watch" THEN "tick" ELSE "over"
  <2>1. /\ sent' \in Seq(BOOLEAN) /\ Len(sent') = Len(sent) + 1 /\ sent' # <<>>
        /\ sent'[Len(sent')] = healthy
        /\ \A i \in 1..Len(sent) : sent'[i] = sent[i]
    BY <1>2, <1>4
  <2>2. C!WatchAlternates'
    <3>1. SUFFICES ASSUME NEW i \in 1..(Len(sent') - 1)
                   PROVE  sent'[i] # sent'[i + 1]
      BY Zenon DEF C!WatchAlternates
    <3>2. CASE i = Len(sent)
      <4>1. sent # <<>> /\ Len(sent) \in Nat /\ sent[Len(sent)] # healthy
        BY <1>2, <1>4, <2>1, <3>1, <3>2 DEF C!Changed, C!LastSent
      <4> QED
        BY <2>1, <3>2, <4>1, <1>2
    <3>3. CASE i # Len(sent)
      <4>1. i \in 1..(Len(sent) - 1) /\ i \in 1..Len(sent) /\ i + 1 \in 1..Len(sent)
        BY <1>2, <2>1, <3>1, <3>3
      <4>2. sent[i] # sent[i + 1]
        BY <4>1, Zenon DEF HealthInv, C!WatchAlternates
      <4> QED
        BY <2>1, <4>1, <4>2, Zenon
    <3> QED
      BY <3>2, <3>3, Zenon
  <2>3. api # "watch" => Len(sent') <= 1
    BY <1>2, <1>3, <2>1
  <2>4. C!HealthTypeOK'
    BY <1>1, <1>2, <1>4, <2>1, <2>3, Zenon DEF C!HealthTypeOK
  <2>5. StreamInv'
    BY <1>1, <1>3, <1>4, <2>1, Zenon DEF StreamInv, C!LastSent
  <2>6. EvaluationInv'
    BY <1>4, Zenon DEF EvaluationInv
  <2> QED
    BY <2>2, <2>4, <2>5, <2>6, Zenon DEF HealthInv
<1>5. CASE api = "watch" /\ healthPc' = "over" /\ UNCHANGED sent
  <2>1. C!HealthTypeOK'
    BY <1>1, <1>2, <1>5, Zenon DEF C!HealthTypeOK
  <2> QED
    BY <1>1, <1>5, <2>1, SentKept, Zenon DEF HealthInv, StreamInv, EvaluationInv
<1>6. CASE ~C!Changed /\ healthPc' = "tick" /\ UNCHANGED sent
  <2>1. sent # <<>> /\ C!LastSent = healthy
    BY <1>6, Zenon DEF C!Changed
  <2>2. C!HealthTypeOK'
    BY <1>1, <1>2, <1>3, <1>6, <2>1, Zenon DEF C!HealthTypeOK
  <2>3. StreamInv'
    BY <1>1, <1>3, <1>6, <2>1, SentKept, Zenon DEF StreamInv
  <2> QED
    BY <1>1, <1>6, <2>2, <2>3, SentKept, Zenon DEF HealthInv, EvaluationInv
<1> QED
  BY <1>4, <1>5, <1>6, Zenon DEF C!Respond

\* Every other step begins or ends an evaluation, or changes what a check answers.
LEMMA HealthNext == ASSUME MaxFlips \in Nat, HealthInv, C!Next PROVE HealthInv'
<1>1. /\ truth \in [Check -> C!Answer] /\ pend \subseteq Check /\ healthy \in BOOLEAN
      /\ seen \in [Check -> C!Answer \cup {"none"}] /\ flips \in 0..MaxFlips
  BY Zenon DEF HealthInv, C!HealthTypeOK
<1>2. CASE C!ChecksFor
  <2>1. healthPc = "ask" /\ healthPc' \in {"start", "over"}
        /\ UNCHANGED <<api, known, truth, pend, results, healthy, seen, sent, flips>>
    BY <1>2, Zenon DEF C!ChecksFor
  <2>2. C!HealthTypeOK'
    BY <1>1, <2>1, SentKept, Zenon DEF C!HealthTypeOK
  <2> QED
    BY <2>1, <2>2, SentKept, Zenon DEF HealthInv, StreamInv, EvaluationInv
<1>3. CASE C!Begin
  <2>1. /\ healthPc = "start" /\ healthPc' = "run" /\ pend' = Check /\ healthy' = TRUE
        /\ results'.failed = {} /\ results'.passed = {}
        /\ results' \in [failed : SUBSET Check, passed : SUBSET Check]
        /\ seen' \in [Check -> C!Answer \cup {"none"}]
        /\ UNCHANGED <<api, known, truth, sent, flips>>
    BY <1>3, Zenon DEF C!Begin, C!NoResults
  <2>2. C!HealthTypeOK'
    BY <1>1, <2>1, SentKept, Zenon DEF C!HealthTypeOK
  <2>3. EvaluationInv'
    BY <2>1, Zenon DEF EvaluationInv
  <2>4. StreamInv'
    BY <2>1, Zenon DEF HealthInv, StreamInv
  <2> QED
    BY <2>1, <2>2, <2>3, <2>4, SentKept, Zenon DEF HealthInv
<1>4. CASE C!WaitAll
  <2>1. healthPc = "run" /\ pend = {} /\ healthPc' = "respond"
        /\ UNCHANGED <<api, known, truth, pend, results, healthy, seen, sent, flips>>
    BY <1>4, Zenon DEF C!WaitAll
  <2>2. C!HealthTypeOK'
    BY <1>1, <2>1, SentKept, Zenon DEF C!HealthTypeOK
  <2> QED
    BY <2>1, <2>2, SentKept, Zenon DEF HealthInv, StreamInv, EvaluationInv
<1>5. CASE C!Tick \/ C!StreamDone
  <2>1. healthPc = "tick" /\ healthPc' \in {"start", "over"}
        /\ UNCHANGED <<api, known, truth, pend, results, healthy, seen, sent, flips>>
    BY <1>5, Zenon DEF C!Tick, C!StreamDone
  <2>2. C!HealthTypeOK'
    BY <1>1, <2>1, SentKept, Zenon DEF C!HealthTypeOK
  <2> QED
    BY <2>1, <2>2, SentKept, Zenon DEF HealthInv, StreamInv, EvaluationInv
<1>6. ASSUME NEW c \in Check, NEW a \in C!Answer, C!Flip(c, a)
      PROVE  HealthInv'
  <2>1. /\ flips < MaxFlips /\ flips' = flips + 1 /\ truth' = [truth EXCEPT ![c] = a]
        /\ UNCHANGED <<api, known, healthPc, pend, results, healthy, seen, sent>>
    BY <1>6, Zenon DEF C!Flip
  <2>2. flips' \in 0..MaxFlips /\ truth' \in [Check -> C!Answer]
    BY <1>1, <2>1
  <2>3. healthPc \in {"ask", "start", "run", "respond", "tick", "over"}
        /\ (healthPc = "run" => results.failed \cup results.passed = Check \ pend)
    BY Zenon DEF HealthInv, C!HealthTypeOK
  <2>4. C!HealthTypeOK'
    BY <1>1, <2>1, <2>2, <2>3, SentKept, Zenon DEF C!HealthTypeOK
  <2> QED
    BY <2>1, <2>4, SentKept, Zenon DEF HealthInv, StreamInv, EvaluationInv
<1> QED
  BY <1>2, <1>3, <1>4, <1>5, <1>6, RunCheckKeeps, RespondKeeps, Zenon DEF C!Next, C!Step

\* Every verdict on health is that of all the checks, in whatever order their goroutines
\* end and however they fail, and Watch sends its client each change of it once.
THEOREM HealthSoundCorrect ==
  ASSUME MaxFlips \in Nat
  PROVE  C!Spec => []HealthSound
<1>1. C!Init => HealthInv
  <2>1. SUFFICES ASSUME C!Init PROVE HealthInv
    BY Zenon
  <2>2. /\ healthPc = "ask" /\ sent = <<>> /\ flips = 0 /\ pend = {} /\ healthy = TRUE
        /\ seen \in [Check -> C!Answer \cup {"none"}] /\ truth \in [Check -> C!Answer]
        /\ api \in {"http", "check", "watch"} /\ known \in BOOLEAN
    BY <2>1, Zenon DEF C!Init
  <2>3. C!HealthTypeOK
    BY <2>2 DEF C!HealthTypeOK
  <2> QED
    BY <2>2, <2>3 DEF HealthInv, EvaluationInv, StreamInv, C!WatchAlternates
<1>2. HealthInv /\ [C!Next]_C!healthVars => HealthInv'
  <2>1. HealthInv /\ UNCHANGED C!healthVars => HealthInv'
    <3>1. SUFFICES ASSUME HealthInv, UNCHANGED C!healthVars PROVE HealthInv'
      BY Zenon
    <3>2. UNCHANGED <<api, known, truth, healthPc, pend, results, healthy, seen, sent, flips>>
      BY <3>1, Zenon DEF C!healthVars
    <3>3. C!HealthTypeOK'
      BY <3>1, <3>2, Zenon DEF HealthInv, C!HealthTypeOK
    <3> QED
      BY <3>1, <3>2, <3>3, SentKept, Zenon DEF HealthInv, EvaluationInv, StreamInv
  <2> QED
    BY <2>1, HealthNext, Zenon
<1>3. HealthInv => HealthSound
  <2>1. SUFFICES ASSUME HealthInv PROVE HealthSound
    BY Zenon
  <2>2. ASSUME healthPc = "respond"
        PROVE  /\ healthy = \A c \in Check : seen[c] = "ok"
               /\ results = [failed |-> {c \in Check : seen[c] # "ok"},
                             passed |-> {c \in Check : seen[c] = "ok"}]
    <3>1. /\ pend = {} /\ results \in [failed : SUBSET Check, passed : SUBSET Check]
          /\ \A c \in Check : c \in results.failed <=> c \notin pend /\ seen[c] # "ok"
          /\ \A c \in Check : c \in results.passed <=> c \notin pend /\ seen[c] = "ok"
          /\ healthy <=> \A c \in Check \ pend : seen[c] = "ok"
      BY <2>1, <2>2, Zenon DEF HealthInv, EvaluationInv, StreamInv
    <3>2. results.failed = {c \in Check : seen[c] # "ok"} /\ results.passed = {c \in Check : seen[c] = "ok"}
      BY <3>1, Zenon
    <3>3. healthy \in BOOLEAN
      BY <2>1, Zenon DEF HealthInv, C!HealthTypeOK
    <3> QED
      BY <3>1, <3>2, <3>3, Zenon
  <2>3. C!HealthTruthful
    BY <2>2, Zenon DEF C!HealthTruthful
  <2>4. C!WatchCurrent
    <3>1. healthy \in BOOLEAN
      BY <2>1, Zenon DEF HealthInv, C!HealthTypeOK
    <3> QED
      BY <2>1, <3>1, Zenon DEF HealthInv, StreamInv, C!WatchCurrent
  <2> QED
    BY <2>1, <2>3, <2>4, Zenon DEF HealthInv, HealthSound, C!HealthSound
<1> QED
  BY <1>1, <1>2, <1>3, PTL DEF C!Spec
===============================================================================
