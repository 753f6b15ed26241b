---------------------------- MODULE WorkerPoolProofs ----------------------------
(***************************************************************************)
(* Proofs about WorkerPool, for any finite set of Submit calls, any workers *)
(* and callers of Close, and any capacity of the channel.                  *)
(***************************************************************************)
EXTENDS WorkerPool, TLAPS

\* A task is taken once its Submit call has sent it, and pending until
\* setResult recorded its outcome.
Taken(s) == pc[s] \in {"sent", "accepted"}
Pending(s) == Taken(s) /\ result[s] = None

\* The shutdown goroutine moves in one direction and each stage keeps what the
\* one before it waited for.
DrainInv ==
  /\ closed <=> drain # "none"
  /\ tasksClosed <=> drain \in {"workers", "done"}
  /\ drain \in {"tasks", "workers", "done"} =>
       \A s \in Submission : pc[s] \notin {"trying", "sent"}
  /\ \A w \in Worker : wpc[w] = "exited" => tasksClosed /\ queue = <<>>
  /\ drain = "done" => \A w \in Worker : wpc[w] = "exited"
  /\ \A c \in Closer : cpc[c] = "ok" => drain = "done"

\* A worker holds a task from its receive to its report; no task is in two
\* places, and what is in a place is pending.
PlaceInv ==
  /\ \A w \in Worker : wtask[w] = None <=> wpc[w] \in {"receive", "exited"}
  /\ \A w, v \in Worker : wtask[w] = wtask[v] /\ wtask[w] # None => w = v
  /\ \A i, j \in 1..Len(queue) : queue[i] = queue[j] => i = j
  /\ \A w \in Worker, i \in 1..Len(queue) : wtask[w] # queue[i]
  /\ \A w \in Worker : wtask[w] # None => Pending(wtask[w])
  /\ \A i \in 1..Len(queue) : Pending(queue[i])

\* A pending task is in a place, and only a taken one has an outcome.
PendingInv ==
  /\ \A s \in Submission : Pending(s) => 
       Held(s) \/ \E i \in 1..Len(queue) : queue[i] = s
  /\ \A s \in Submission : result[s] # None => Taken(s)

\* What the counters of Stats count.
Accepted  == {s \in Submission : pc[s] = "accepted"}
Reported  == {s \in Submission : result[s] # None}
Running   == {w \in Worker : wpc[w] = "run"}
Reporting == {w \in Worker : wpc[w] \in {"ok", "failed"}}

CountInv ==
  /\ accepted = Cardinality(Accepted)
  /\ running = Cardinality(Running)
  /\ completed = Cardinality(Reported) + Cardinality(Reporting)

PoolInv == TypeOK /\ DrainInv /\ PlaceInv /\ PendingInv /\ CountInv

-----------------------------------------------------------------------------
(***************************************************************************)
(* Types.                                                                  *)
(***************************************************************************)
\* Every step keeps the types and the bound of the channel.
LEMMA TypeNext == TypeOK /\ [Next]_vars => TypeOK'
<1> SUFFICES ASSUME TypeOK, [Next]_vars PROVE TypeOK'
  BY Zenon
<1> USE PoolAssumption
<1> USE DEF SubmitLabel, WorkerLabel, DrainLabel
<1>1. ASSUME NEW s \in Submission, Submit(s) PROVE TypeOK'
  BY <1>1 DEF Submit, TypeOK, submitVars, workerVars, closeVars, stats
<1>2. ASSUME NEW s \in Submission, CtxDone(s) PROVE TypeOK'
  BY <1>2, Zenon DEF CtxDone, TypeOK, submitVars, workerVars, closeVars, stats
<1>3. ASSUME NEW s \in Submission, Refused(s) PROVE TypeOK'
  BY <1>3, Zenon DEF Refused, TypeOK, submitVars, workerVars, closeVars, stats
<1>4. ASSUME NEW s \in Submission, SendBuffered(s) PROVE TypeOK'
  BY <1>4 DEF SendBuffered, TypeOK, submitVars, workerVars, closeVars, stats
<1>5. ASSUME NEW s \in Submission, SubmitReturns(s) PROVE TypeOK'
  BY <1>5 DEF SubmitReturns, TypeOK, submitVars, workerVars, closeVars, stats
<1>6. ASSUME NEW s \in Submission, SubmitReleased(s) PROVE TypeOK'
  BY <1>6 DEF SubmitReleased, TypeOK, submitVars, workerVars, closeVars, stats
<1>7. ASSUME NEW s \in Submission, NEW w \in Worker, SendDirect(s, w) PROVE TypeOK'
  BY <1>7, Zenon DEF SendDirect, TypeOK, submitVars, workerVars, closeVars, stats
<1>8. ASSUME NEW w \in Worker, Receive(w) PROVE TypeOK'
  BY <1>8 DEF Receive, TypeOK, submitVars, workerVars, closeVars, stats
<1>9. ASSUME NEW w \in Worker, BeginTask(w) PROVE TypeOK'
  BY <1>9 DEF BeginTask, TypeOK, submitVars, workerVars, closeVars, stats
<1>10. ASSUME NEW w \in Worker, TaskEnds(w) PROVE TypeOK'
  BY <1>10 DEF TaskEnds, TypeOK, submitVars, workerVars, closeVars, stats
<1>11. ASSUME NEW w \in Worker, SetResult(w) PROVE TypeOK'
  BY <1>11, Zenon DEF SetResult, TypeOK, submitVars, workerVars, closeVars, stats
<1>12. ASSUME NEW w \in Worker, WorkerExits(w) PROVE TypeOK'
  BY <1>12, Zenon DEF WorkerExits, TypeOK, submitVars, workerVars, closeVars, stats
<1>13. ASSUME NEW c \in Closer, Close(c) PROVE TypeOK'
  BY <1>13, Zenon DEF Close, TypeOK, submitVars, workerVars, closeVars, stats
<1>14. ASSUME NEW c \in Closer, CloseReturns(c) PROVE TypeOK'
  BY <1>14, Zenon DEF CloseReturns, TypeOK, submitVars, workerVars, closeVars, stats
<1>15. ASSUME NEW c \in Closer, CloseTimesOut(c) PROVE TypeOK'
  BY <1>15, Zenon DEF CloseTimesOut, TypeOK, submitVars, workerVars, closeVars, stats
<1>16. CASE AwaitInFlight
  BY <1>16, Zenon DEF AwaitInFlight, TypeOK, submitVars, workerVars, closeVars, stats
<1>17. CASE CloseTasks
  BY <1>17, Zenon DEF CloseTasks, TypeOK, submitVars, workerVars, closeVars, stats
<1>18. CASE AwaitWorkers
  BY <1>18, Zenon DEF AwaitWorkers, TypeOK, submitVars, workerVars, closeVars, stats
<1>19. CASE UNCHANGED vars
  BY <1>19, Zenon DEF vars, TypeOK, submitVars, workerVars, closeVars, stats
<1> QED
  BY <1>1, <1>2, <1>3, <1>4, <1>5, <1>6, <1>7, <1>8, <1>9, <1>10, <1>11,
     <1>12, <1>13, <1>14, <1>15, <1>16, <1>17, <1>18, <1>19, Zenon
  DEF Next, SubmitStep, WorkerStep, DrainStep

\* New establishes the types.
LEMMA TypeInit == Init => TypeOK
<1> SUFFICES ASSUME Init PROVE TypeOK
  BY Zenon
<1>1. queue \in Seq(Submission) /\ Len(queue) <= QueueCapacity
  BY PoolAssumption DEF Init
<1>2. /\ pc \in [Submission -> SubmitLabel]
      /\ ctxDone \in [Submission -> BOOLEAN]
      /\ result \in [Submission -> {None, "ok", "failed"}]
  BY Zenon DEF Init, SubmitLabel
<1>3. /\ wpc \in [Worker -> WorkerLabel]
      /\ wtask \in [Worker -> Submission \cup {None}]
      /\ cpc \in [Closer -> {"out", "waiting", "ok", "timeout"}]
  BY Zenon DEF Init, WorkerLabel
<1>4. /\ closed \in BOOLEAN /\ tasksClosed \in BOOLEAN /\ drain \in DrainLabel
  BY Zenon DEF Init, DrainLabel
<1>5. /\ running \in Int /\ accepted \in Nat /\ completed \in Nat
      /\ failed \in Nat /\ rejected \in Nat
  BY DEF Init
<1> QED
  BY <1>1, <1>2, <1>3, <1>4, <1>5, Zenon DEF TypeOK

\* Every variable keeps its type, and the buffer of the channel never holds
\* more than QueueCapacity tasks.
THEOREM PoolTypeCorrect == Spec => []TypeOK
<1> QED
  BY TypeInit, TypeNext, PTL DEF Spec

-----------------------------------------------------------------------------
(***************************************************************************)
(* The shutdown sequence.                                                  *)
(***************************************************************************)
\* Every step keeps the order of the shutdown.
LEMMA DrainNext == TypeOK /\ DrainInv /\ [Next]_vars => DrainInv'
<1> SUFFICES ASSUME TypeOK, DrainInv, [Next]_vars PROVE DrainInv'
  BY Zenon
<1> USE DEF SubmitLabel, WorkerLabel, DrainLabel
<1>1. ASSUME NEW s \in Submission, Submit(s) PROVE DrainInv'
  BY <1>1, Zenon DEF Submit, TypeOK, DrainInv, InFlight, submitVars, workerVars, closeVars, stats
<1>2. ASSUME NEW s \in Submission, CtxDone(s) PROVE DrainInv'
  BY <1>2, Zenon DEF CtxDone, TypeOK, DrainInv, InFlight, submitVars, workerVars, closeVars, stats
<1>3. ASSUME NEW s \in Submission, Refused(s) PROVE DrainInv'
  BY <1>3, Zenon DEF Refused, TypeOK, DrainInv, InFlight, submitVars, workerVars, closeVars, stats
<1>4. ASSUME NEW s \in Submission, SendBuffered(s) PROVE DrainInv'
  BY <1>4, Zenon DEF SendBuffered, TypeOK, DrainInv, InFlight, submitVars, workerVars, closeVars, stats
<1>5. ASSUME NEW s \in Submission, SubmitReturns(s) PROVE DrainInv'
  BY <1>5, Zenon DEF SubmitReturns, TypeOK, DrainInv, InFlight, submitVars, workerVars, closeVars, stats
<1>6. ASSUME NEW s \in Submission, SubmitReleased(s) PROVE DrainInv'
  BY <1>6, Zenon DEF SubmitReleased, TypeOK, DrainInv, InFlight, submitVars, workerVars, closeVars, stats
<1>7. ASSUME NEW s \in Submission, NEW w \in Worker, SendDirect(s, w) PROVE DrainInv'
  BY <1>7, Zenon DEF SendDirect, TypeOK, DrainInv, InFlight, submitVars, workerVars, closeVars, stats
<1>8. ASSUME NEW w \in Worker, Receive(w) PROVE DrainInv'
  BY <1>8, Zenon DEF Receive, TypeOK, DrainInv, InFlight, submitVars, workerVars, closeVars, stats
<1>9. ASSUME NEW w \in Worker, BeginTask(w) PROVE DrainInv'
  BY <1>9, Zenon DEF BeginTask, TypeOK, DrainInv, InFlight, submitVars, workerVars, closeVars, stats
<1>10. ASSUME NEW w \in Worker, TaskEnds(w) PROVE DrainInv'
  BY <1>10 DEF TaskEnds, TypeOK, DrainInv, InFlight, submitVars, workerVars, closeVars, stats
<1>11. ASSUME NEW w \in Worker, SetResult(w) PROVE DrainInv'
  BY <1>11, Zenon DEF SetResult, TypeOK, DrainInv, InFlight, submitVars, workerVars, closeVars, stats
<1>12. ASSUME NEW w \in Worker, WorkerExits(w) PROVE DrainInv'
  BY <1>12, Zenon DEF WorkerExits, TypeOK, DrainInv, InFlight, submitVars, workerVars, closeVars, stats
<1>13. ASSUME NEW c \in Closer, Close(c) PROVE DrainInv'
  BY <1>13, Zenon DEF Close, TypeOK, DrainInv, InFlight, submitVars, workerVars, closeVars, stats
<1>14. ASSUME NEW c \in Closer, CloseReturns(c) PROVE DrainInv'
  BY <1>14, Zenon DEF CloseReturns, TypeOK, DrainInv, InFlight, submitVars, workerVars, closeVars, stats
<1>15. ASSUME NEW c \in Closer, CloseTimesOut(c) PROVE DrainInv'
  BY <1>15, Zenon DEF CloseTimesOut, TypeOK, DrainInv, InFlight, submitVars, workerVars, closeVars, stats
<1>16. CASE AwaitInFlight
  BY <1>16, Zenon DEF AwaitInFlight, TypeOK, DrainInv, InFlight, submitVars, workerVars, closeVars, stats
<1>17. CASE CloseTasks
  BY <1>17, Zenon DEF CloseTasks, TypeOK, DrainInv, InFlight, submitVars, workerVars, closeVars, stats
<1>18. CASE AwaitWorkers
  BY <1>18, Zenon DEF AwaitWorkers, TypeOK, DrainInv, InFlight, submitVars, workerVars, closeVars, stats
<1>19. CASE UNCHANGED vars
  BY <1>19, Zenon DEF vars, TypeOK, DrainInv, InFlight, submitVars, workerVars, closeVars, stats
<1> QED
  BY <1>1, <1>2, <1>3, <1>4, <1>5, <1>6, <1>7, <1>8, <1>9, <1>10, <1>11,
     <1>12, <1>13, <1>14, <1>15, <1>16, <1>17, <1>18, <1>19, Zenon
  DEF Next, SubmitStep, WorkerStep, DrainStep

-----------------------------------------------------------------------------
(***************************************************************************)
(* Where a task is.                                                        *)
(***************************************************************************)
\* Every step keeps a task in at most one place.
LEMMA PlaceNext == TypeOK /\ PlaceInv /\ PendingInv /\ [Next]_vars => PlaceInv'
<1> SUFFICES ASSUME TypeOK, PlaceInv, PendingInv, [Next]_vars PROVE PlaceInv'
  BY Zenon
<1> USE NoneAssumption DEF SubmitLabel, WorkerLabel, DrainLabel
<1>1. ASSUME NEW s \in Submission, Submit(s) PROVE PlaceInv'
  BY <1>1
  DEF Submit, TypeOK, PlaceInv, PendingInv, Pending, Taken, Held, submitVars, workerVars, closeVars, stats
<1>2. ASSUME NEW s \in Submission, CtxDone(s) PROVE PlaceInv'
  BY <1>2
  DEF CtxDone, TypeOK, PlaceInv, PendingInv, Pending, Taken, Held, submitVars, workerVars, closeVars, stats
<1>3. ASSUME NEW s \in Submission, Refused(s) PROVE PlaceInv'
  BY <1>3
  DEF Refused, TypeOK, PlaceInv, PendingInv, Pending, Taken, Held, submitVars, workerVars, closeVars, stats
<1>4. ASSUME NEW s \in Submission, SendBuffered(s) PROVE PlaceInv'
  BY <1>4
  DEF SendBuffered, TypeOK, PlaceInv, PendingInv, Pending, Taken, Held, submitVars, workerVars, closeVars, stats
<1>5. ASSUME NEW s \in Submission, SubmitReturns(s) PROVE PlaceInv'
  BY <1>5
  DEF SubmitReturns, TypeOK, PlaceInv, PendingInv, Pending, Taken, Held, submitVars, workerVars, closeVars, stats
<1>6. ASSUME NEW s \in Submission, SubmitReleased(s) PROVE PlaceInv'
  BY <1>6
  DEF SubmitReleased, TypeOK, PlaceInv, PendingInv, Pending, Taken, Held, submitVars, workerVars, closeVars, stats
<1>7. ASSUME NEW s \in Submission, NEW w \in Worker, SendDirect(s, w) PROVE PlaceInv'
  BY <1>7
  DEF SendDirect, TypeOK, PlaceInv, PendingInv, Pending, Taken, Held, submitVars, workerVars, closeVars, stats
<1>8. ASSUME NEW w \in Worker, Receive(w) PROVE PlaceInv'
  BY <1>8
  DEF Receive, TypeOK, PlaceInv, PendingInv, Pending, Taken, Held, submitVars, workerVars, closeVars, stats
<1>9. ASSUME NEW w \in Worker, BeginTask(w) PROVE PlaceInv'
  BY <1>9
  DEF BeginTask, TypeOK, PlaceInv, PendingInv, Pending, Taken, Held, submitVars, workerVars, closeVars, stats
<1>10. ASSUME NEW w \in Worker, TaskEnds(w) PROVE PlaceInv'
  BY <1>10
  DEF TaskEnds, TypeOK, PlaceInv, PendingInv, Pending, Taken, Held, submitVars, workerVars, closeVars, stats
<1>11. ASSUME NEW w \in Worker, SetResult(w) PROVE PlaceInv'
  BY <1>11
  DEF SetResult, TypeOK, PlaceInv, PendingInv, Pending, Taken, Held, submitVars, workerVars, closeVars, stats
<1>12. ASSUME NEW w \in Worker, WorkerExits(w) PROVE PlaceInv'
  BY <1>12
  DEF WorkerExits, TypeOK, PlaceInv, PendingInv, Pending, Taken, Held, submitVars, workerVars, closeVars, stats
<1>13. ASSUME NEW c \in Closer, Close(c) PROVE PlaceInv'
  BY <1>13
  DEF Close, TypeOK, PlaceInv, PendingInv, Pending, Taken, Held, submitVars, workerVars, closeVars, stats
<1>14. ASSUME NEW c \in Closer, CloseReturns(c) PROVE PlaceInv'
  BY <1>14
  DEF CloseReturns, TypeOK, PlaceInv, PendingInv, Pending, Taken, Held, submitVars, workerVars, closeVars, stats
<1>15. ASSUME NEW c \in Closer, CloseTimesOut(c) PROVE PlaceInv'
  BY <1>15
  DEF CloseTimesOut, TypeOK, PlaceInv, PendingInv, Pending, Taken, Held, submitVars, workerVars, closeVars, stats
<1>16. CASE AwaitInFlight
  BY <1>16
  DEF AwaitInFlight, TypeOK, PlaceInv, PendingInv, Pending, Taken, Held, submitVars, workerVars, closeVars, stats
<1>17. CASE CloseTasks
  BY <1>17
  DEF CloseTasks, TypeOK, PlaceInv, PendingInv, Pending, Taken, Held, submitVars, workerVars, closeVars, stats
<1>18. CASE AwaitWorkers
  BY <1>18
  DEF AwaitWorkers, TypeOK, PlaceInv, PendingInv, Pending, Taken, Held, submitVars, workerVars, closeVars, stats
<1>19. CASE UNCHANGED vars
  BY <1>19
  DEF vars, TypeOK, PlaceInv, PendingInv, Pending, Taken, Held, submitVars, workerVars, closeVars, stats
<1> QED
  BY <1>1, <1>2, <1>3, <1>4, <1>5, <1>6, <1>7, <1>8, <1>9, <1>10, <1>11,
     <1>12, <1>13, <1>14, <1>15, <1>16, <1>17, <1>18, <1>19, Zenon
  DEF Next, SubmitStep, WorkerStep, DrainStep

\* Every step keeps a pending task in some place.
LEMMA PendingNext == TypeOK /\ PlaceInv /\ PendingInv /\ [Next]_vars => PendingInv'
<1> SUFFICES ASSUME TypeOK, PlaceInv, PendingInv, [Next]_vars PROVE PendingInv'
  BY Zenon
<1> USE NoneAssumption DEF SubmitLabel, WorkerLabel, DrainLabel
<1>1. ASSUME NEW s \in Submission, Submit(s) PROVE PendingInv'
  BY <1>1
  DEF Submit, TypeOK, PlaceInv, PendingInv, Pending, Taken, Held, submitVars, workerVars, closeVars, stats
<1>2. ASSUME NEW s \in Submission, CtxDone(s) PROVE PendingInv'
  BY <1>2
  DEF CtxDone, TypeOK, PlaceInv, PendingInv, Pending, Taken, Held, submitVars, workerVars, closeVars, stats
<1>3. ASSUME NEW s \in Submission, Refused(s) PROVE PendingInv'
  BY <1>3
  DEF Refused, TypeOK, PlaceInv, PendingInv, Pending, Taken, Held, submitVars, workerVars, closeVars, stats
<1>4. ASSUME NEW s \in Submission, SendBuffered(s) PROVE PendingInv'
  BY <1>4
  DEF SendBuffered, TypeOK, PlaceInv, PendingInv, Pending, Taken, Held, submitVars, workerVars, closeVars, stats
<1>5. ASSUME NEW s \in Submission, SubmitReturns(s) PROVE PendingInv'
  BY <1>5
  DEF SubmitReturns, TypeOK, PlaceInv, PendingInv, Pending, Taken, Held, submitVars, workerVars, closeVars, stats
<1>6. ASSUME NEW s \in Submission, SubmitReleased(s) PROVE PendingInv'
  BY <1>6
  DEF SubmitReleased, TypeOK, PlaceInv, PendingInv, Pending, Taken, Held, submitVars, workerVars, closeVars, stats
<1>7. ASSUME NEW s \in Submission, NEW w \in Worker, SendDirect(s, w) PROVE PendingInv'
  BY <1>7
  DEF SendDirect, TypeOK, PlaceInv, PendingInv, Pending, Taken, Held, submitVars, workerVars, closeVars, stats
<1>8. ASSUME NEW w \in Worker, Receive(w) PROVE PendingInv'
  <2>1. /\ queue \in Seq(Submission) /\ queue # <<>>
        /\ wtask' = [wtask EXCEPT ![w] = queue[1]]
        /\ queue' = Tail(queue)
        /\ UNCHANGED <<pc, result>>
        /\ wtask \in [Worker -> Submission \cup {None}]
        /\ wtask[w] = None
    BY <1>8 DEF Receive, TypeOK, PlaceInv, submitVars
  <2>2. ASSUME NEW s \in Submission, Pending(s)'
        PROVE  Held(s)' \/ \E i \in 1..Len(queue') : queue'[i] = s
    <3>1. Held(s) \/ \E i \in 1..Len(queue) : queue[i] = s
      BY <2>1, <2>2, Zenon DEF PendingInv, Pending, Taken
    <3>2. CASE Held(s)
      BY <2>1, <3>2, NoneAssumption, Zenon DEF Held
    <3>3. ASSUME NEW i \in 1..Len(queue), queue[i] = s, i # 1
          PROVE  \E j \in 1..Len(queue') : queue'[j] = s
      <4>1. i - 1 \in 1..Len(queue') /\ queue'[i - 1] = s
        BY <2>1, <3>3
      <4> QED
        BY <4>1, Zenon
    <3>4. CASE queue[1] = s
      BY <2>1, <3>4, Zenon DEF Held
    <3> QED
      BY <3>1, <3>2, <3>3, <3>4, Zenon
  <2>3. ASSUME NEW s \in Submission, result'[s] # None
        PROVE  Taken(s)'
    BY <2>1, <2>3, Zenon DEF PendingInv, Taken
  <2> QED
    BY <2>2, <2>3, Zenon DEF PendingInv
<1>9. ASSUME NEW w \in Worker, BeginTask(w) PROVE PendingInv'
  BY <1>9
  DEF BeginTask, TypeOK, PlaceInv, PendingInv, Pending, Taken, Held, submitVars, workerVars, closeVars, stats
<1>10. ASSUME NEW w \in Worker, TaskEnds(w) PROVE PendingInv'
  BY <1>10
  DEF TaskEnds, TypeOK, PlaceInv, PendingInv, Pending, Taken, Held, submitVars, workerVars, closeVars, stats
<1>11. ASSUME NEW w \in Worker, SetResult(w) PROVE PendingInv'
  <2>1. /\ wtask' = [wtask EXCEPT ![w] = None]
        /\ result' = [result EXCEPT ![wtask[w]] = wpc[w]]
        /\ wpc[w] # None
        /\ UNCHANGED <<pc, queue>>
        /\ wtask \in [Worker -> Submission \cup {None}]
        /\ result \in [Submission -> {None, "ok", "failed"}]
        /\ wtask[w] \in Submission /\ Pending(wtask[w])
    BY <1>11, Zenon DEF SetResult, TypeOK, PlaceInv, submitVars, None
  <2>2. ASSUME NEW s \in Submission, Pending(s)'
        PROVE  Held(s)' \/ \E i \in 1..Len(queue') : queue'[i] = s
    <3>1. Pending(s) /\ s # wtask[w]
      BY <2>1, <2>2, Zenon DEF Pending, Taken
    <3>2. CASE Held(s)
      BY <2>1, <3>1, <3>2, Zenon DEF Held
    <3> QED
      BY <2>1, <3>1, <3>2, Zenon DEF PendingInv
  <2>3. ASSUME NEW s \in Submission, result'[s] # None
        PROVE  Taken(s)'
    BY <2>1, <2>3, Zenon DEF PendingInv, Pending, Taken
  <2> QED
    BY <2>2, <2>3, Zenon DEF PendingInv
<1>12. ASSUME NEW w \in Worker, WorkerExits(w) PROVE PendingInv'
  BY <1>12
  DEF WorkerExits, TypeOK, PlaceInv, PendingInv, Pending, Taken, Held, submitVars, workerVars, closeVars, stats
<1>13. ASSUME NEW c \in Closer, Close(c) PROVE PendingInv'
  BY <1>13
  DEF Close, TypeOK, PlaceInv, PendingInv, Pending, Taken, Held, submitVars, workerVars, closeVars, stats
<1>14. ASSUME NEW c \in Closer, CloseReturns(c) PROVE PendingInv'
  BY <1>14
  DEF CloseReturns, TypeOK, PlaceInv, PendingInv, Pending, Taken, Held, submitVars, workerVars, closeVars, stats
<1>15. ASSUME NEW c \in Closer, CloseTimesOut(c) PROVE PendingInv'
  BY <1>15
  DEF CloseTimesOut, TypeOK, PlaceInv, PendingInv, Pending, Taken, Held, submitVars, workerVars, closeVars, stats
<1>16. CASE AwaitInFlight
  BY <1>16, Zenon
  DEF AwaitInFlight, TypeOK, PlaceInv, PendingInv, Pending, Taken, Held, submitVars, workerVars, closeVars, stats
<1>17. CASE CloseTasks
  BY <1>17, Zenon
  DEF CloseTasks, TypeOK, PlaceInv, PendingInv, Pending, Taken, Held, submitVars, workerVars, closeVars, stats
<1>18. CASE AwaitWorkers
  BY <1>18
  DEF AwaitWorkers, TypeOK, PlaceInv, PendingInv, Pending, Taken, Held, submitVars, workerVars, closeVars, stats
<1>19. CASE UNCHANGED vars
  BY <1>19
  DEF vars, TypeOK, PlaceInv, PendingInv, Pending, Taken, Held, submitVars, workerVars, closeVars, stats
<1> QED
  BY <1>1, <1>2, <1>3, <1>4, <1>5, <1>6, <1>7, <1>8, <1>9, <1>10, <1>11,
     <1>12, <1>13, <1>14, <1>15, <1>16, <1>17, <1>18, <1>19, Zenon
  DEF Next, SubmitStep, WorkerStep, DrainStep

-----------------------------------------------------------------------------
(***************************************************************************)
(* The counters.                                                           *)
(***************************************************************************)
INSTANCE FiniteSetTheorems

\* The counted sets are finite.
LEMMA Finite ==
  /\ IsFiniteSet(Accepted) /\ Cardinality(Accepted) \in Nat
  /\ IsFiniteSet(Reported) /\ Cardinality(Reported) \in Nat
  /\ IsFiniteSet(Running) /\ Cardinality(Running) \in Nat
  /\ IsFiniteSet(Reporting) /\ Cardinality(Reporting) \in Nat
<1>1. Accepted \in SUBSET Submission /\ Reported \in SUBSET Submission
  BY Zenon DEF Accepted, Reported
<1>2. Running \in SUBSET Worker /\ Reporting \in SUBSET Worker
  BY Zenon DEF Running, Reporting
<1> QED
  BY <1>1, <1>2, PoolAssumption, FS_Subset, FS_CardinalityType, Zenon

\* Every step moves a counter exactly when it moves what is counted.
LEMMA CountNext == TypeOK /\ PlaceInv /\ CountInv /\ [Next]_vars => CountInv'
<1> SUFFICES ASSUME TypeOK, PlaceInv, CountInv, [Next]_vars PROVE CountInv'
  BY Zenon
<1> USE Finite
<1>1. ASSUME NEW s \in Submission, Submit(s) PROVE CountInv'
  <2> UNCHANGED <<accepted, running, completed, Accepted, Reported, Running, Reporting>>
    BY <1>1, Zenon
    DEF Submit, Accepted, Reported, Running, Reporting, TypeOK, submitVars, workerVars, closeVars, stats
  <2> QED
    BY Zenon DEF CountInv
<1>2. ASSUME NEW s \in Submission, CtxDone(s) PROVE CountInv'
  <2> UNCHANGED <<accepted, running, completed, Accepted, Reported, Running, Reporting>>
    BY <1>2, Zenon
    DEF CtxDone, Accepted, Reported, Running, Reporting, TypeOK, submitVars, workerVars, closeVars, stats
  <2> QED
    BY Zenon DEF CountInv
<1>3. ASSUME NEW s \in Submission, Refused(s) PROVE CountInv'
  <2> UNCHANGED <<accepted, running, completed, Accepted, Reported, Running, Reporting>>
    BY <1>3, Zenon
    DEF Refused, Accepted, Reported, Running, Reporting, TypeOK, submitVars, workerVars, closeVars, stats
  <2> QED
    BY Zenon DEF CountInv
<1>4. ASSUME NEW s \in Submission, SendBuffered(s) PROVE CountInv'
  <2> UNCHANGED <<accepted, running, completed, Accepted, Reported, Running, Reporting>>
    BY <1>4, Zenon
    DEF SendBuffered, Accepted, Reported, Running, Reporting, TypeOK, submitVars, workerVars, closeVars, stats
  <2> QED
    BY Zenon DEF CountInv
<1>5. ASSUME NEW s \in Submission, SubmitReleased(s) PROVE CountInv'
  <2> UNCHANGED <<accepted, running, completed, Accepted, Reported, Running, Reporting>>
    BY <1>5, Zenon
    DEF SubmitReleased, Accepted, Reported, Running, Reporting, TypeOK, submitVars, workerVars, closeVars, stats
  <2> QED
    BY Zenon DEF CountInv
<1>6. ASSUME NEW s \in Submission, NEW w \in Worker, SendDirect(s, w) PROVE CountInv'
  <2> UNCHANGED <<accepted, running, completed, Accepted, Reported, Running, Reporting>>
    BY <1>6, Zenon
    DEF SendDirect, Accepted, Reported, Running, Reporting, TypeOK, submitVars, workerVars, closeVars, stats
  <2> QED
    BY Zenon DEF CountInv
<1>7. ASSUME NEW w \in Worker, Receive(w) PROVE CountInv'
  <2> UNCHANGED <<accepted, running, completed, Accepted, Reported, Running, Reporting>>
    BY <1>7, Zenon
    DEF Receive, Accepted, Reported, Running, Reporting, TypeOK, submitVars, workerVars, closeVars, stats
  <2> QED
    BY Zenon DEF CountInv
<1>8. ASSUME NEW w \in Worker, WorkerExits(w) PROVE CountInv'
  <2> UNCHANGED <<accepted, running, completed, Accepted, Reported, Running, Reporting>>
    BY <1>8, Zenon
    DEF WorkerExits, Accepted, Reported, Running, Reporting, TypeOK, submitVars, workerVars, closeVars, stats
  <2> QED
    BY Zenon DEF CountInv
<1>9. ASSUME NEW c \in Closer, Close(c) PROVE CountInv'
  <2> UNCHANGED <<accepted, running, completed, Accepted, Reported, Running, Reporting>>
    BY <1>9, Zenon
    DEF Close, Accepted, Reported, Running, Reporting, TypeOK, submitVars, workerVars, closeVars, stats
  <2> QED
    BY Zenon DEF CountInv
<1>10. ASSUME NEW c \in Closer, CloseReturns(c) PROVE CountInv'
  <2> UNCHANGED <<accepted, running, completed, Accepted, Reported, Running, Reporting>>
    BY <1>10, Zenon
    DEF CloseReturns, Accepted, Reported, Running, Reporting, TypeOK, submitVars, workerVars, closeVars, stats
  <2> QED
    BY Zenon DEF CountInv
<1>11. ASSUME NEW c \in Closer, CloseTimesOut(c) PROVE CountInv'
  <2> UNCHANGED <<accepted, running, completed, Accepted, Reported, Running, Reporting>>
    BY <1>11, Zenon
    DEF CloseTimesOut, Accepted, Reported, Running, Reporting, TypeOK, submitVars, workerVars, closeVars, stats
  <2> QED
    BY Zenon DEF CountInv
<1>12. ASSUME AwaitInFlight PROVE CountInv'
  <2> UNCHANGED <<accepted, running, completed, Accepted, Reported, Running, Reporting>>
    BY <1>12, Zenon
    DEF AwaitInFlight, Accepted, Reported, Running, Reporting, TypeOK, submitVars, workerVars, closeVars, stats
  <2> QED
    BY Zenon DEF CountInv
<1>13. ASSUME CloseTasks PROVE CountInv'
  <2> UNCHANGED <<accepted, running, completed, Accepted, Reported, Running, Reporting>>
    BY <1>13, Zenon
    DEF CloseTasks, Accepted, Reported, Running, Reporting, TypeOK, submitVars, workerVars, closeVars, stats
  <2> QED
    BY Zenon DEF CountInv
<1>14. ASSUME AwaitWorkers PROVE CountInv'
  <2> UNCHANGED <<accepted, running, completed, Accepted, Reported, Running, Reporting>>
    BY <1>14, Zenon
    DEF AwaitWorkers, Accepted, Reported, Running, Reporting, TypeOK, submitVars, workerVars, closeVars, stats
  <2> QED
    BY Zenon DEF CountInv
<1>15. ASSUME UNCHANGED vars PROVE CountInv'
  <2> UNCHANGED <<accepted, running, completed, Accepted, Reported, Running, Reporting>>
    BY <1>15, Zenon
    DEF vars, Accepted, Reported, Running, Reporting, TypeOK, submitVars, workerVars, closeVars, stats
  <2> QED
    BY Zenon DEF CountInv
<1>16. ASSUME NEW s \in Submission, SubmitReturns(s) PROVE CountInv'
  <2>1. UNCHANGED <<running, completed, Reported, Running, Reporting>>
    BY <1>16, Zenon DEF SubmitReturns, Reported, Running, Reporting, workerVars
  <2>2. Accepted' = Accepted \cup {s} /\ s \notin Accepted /\ accepted' = accepted + 1
    BY <1>16, Zenon DEF SubmitReturns, Accepted, TypeOK
  <2>3. Cardinality(Accepted') = Cardinality(Accepted) + 1
    BY <2>2, FS_AddElement, Zenon
  <2> QED
    BY <2>1, <2>2, <2>3, Zenon DEF CountInv
<1>17. ASSUME NEW w \in Worker, BeginTask(w) PROVE CountInv'
  <2>1. UNCHANGED <<accepted, completed, Accepted, Reported, Reporting>>
    BY <1>17, Zenon DEF BeginTask, Accepted, Reported, Reporting, TypeOK, submitVars
  <2>2. Running' = Running \cup {w} /\ w \notin Running /\ running' = running + 1
    BY <1>17, Zenon DEF BeginTask, Running, TypeOK
  <2>3. Cardinality(Running') = Cardinality(Running) + 1
    BY <2>2, FS_AddElement, Zenon
  <2> QED
    BY <2>1, <2>2, <2>3, Zenon DEF CountInv
<1>18. ASSUME NEW w \in Worker, TaskEnds(w) PROVE CountInv'
  <2>1. UNCHANGED <<accepted, Accepted, Reported>>
    BY <1>18, Zenon DEF TaskEnds, Accepted, Reported, submitVars
  <2>2. Running' = Running \ {w} /\ w \in Running /\ running' = running - 1
    BY <1>18, Zenon DEF TaskEnds, Running, TypeOK
  <2>3. Cardinality(Running') = Cardinality(Running) - 1
    BY <2>2, FS_RemoveElement, Zenon
  <2>4. Reporting' = Reporting \cup {w} /\ w \notin Reporting /\ completed' = completed + 1
    BY <1>18, Zenon DEF TaskEnds, Reporting, TypeOK
  <2>5. Cardinality(Reporting') = Cardinality(Reporting) + 1
    BY <2>4, FS_AddElement, Zenon
  <2> QED
    BY <2>1, <2>2, <2>3, <2>4, <2>5 DEF CountInv
<1>19. ASSUME NEW w \in Worker, SetResult(w) PROVE CountInv'
  <2>1. UNCHANGED <<accepted, running, completed, Accepted, Running>>
    BY <1>19, Zenon DEF SetResult, Accepted, Running, TypeOK, submitVars, stats
  <2>2. Reporting' = Reporting \ {w} /\ w \in Reporting
    BY <1>19, Zenon DEF SetResult, Reporting, TypeOK
  <2>3. Cardinality(Reporting') = Cardinality(Reporting) - 1
    BY <2>2, FS_RemoveElement, Zenon
  <2>4. wtask[w] \in Submission /\ result[wtask[w]] = None /\ wpc[w] # None
    BY <1>19 DEF SetResult, TypeOK, PlaceInv, Pending, None
  <2>5. Reported' = Reported \cup {wtask[w]} /\ wtask[w] \notin Reported
    BY <1>19, <2>4, Zenon DEF SetResult, Reported, TypeOK
  <2>6. Cardinality(Reported') = Cardinality(Reported) + 1
    BY <2>5, FS_AddElement, Zenon
  <2> QED
    BY <2>1, <2>3, <2>6 DEF CountInv
<1> QED
  BY <1>1, <1>2, <1>3, <1>4, <1>5, <1>6, <1>7, <1>8, <1>9, <1>10, <1>11,
     <1>12, <1>13, <1>14, <1>15, <1>16, <1>17, <1>18, <1>19, Zenon
  DEF Next, SubmitStep, WorkerStep, DrainStep

\* PoolInv is inductive.
LEMMA PoolInvariant == Spec => []PoolInv
<1>1. Init => PoolInv
  <2> SUFFICES ASSUME Init PROVE PoolInv
    BY Zenon
  <2>1. TypeOK
    BY TypeInit, Zenon
  <2>2. DrainInv /\ PlaceInv /\ PendingInv
    BY DEF Init, DrainInv, PlaceInv, PendingInv, Pending, Taken, None
  <2>3. Accepted = {} /\ Reported = {} /\ Running = {} /\ Reporting = {}
    BY Zenon DEF Init, Accepted, Reported, Running, Reporting
  <2>4. CountInv
    BY <2>3, FS_EmptySet DEF Init, CountInv
  <2> QED
    BY <2>1, <2>2, <2>4, Zenon DEF PoolInv
<1>2. PoolInv /\ [Next]_vars => PoolInv'
  BY TypeNext, DrainNext, PlaceNext, PendingNext, CountNext, Zenon DEF PoolInv
<1> QED
  BY <1>1, <1>2, PTL DEF Spec

-----------------------------------------------------------------------------
(***************************************************************************)
(* What follows.                                                           *)
(***************************************************************************)
\* Close never closes the channel under a Submit that may still send, and no
\* handle is completed twice: neither channel operation can panic.
THEOREM NoPanicCorrect == Spec => []NoPanic
<1>1. PoolInv => NoPanic
  BY Zenon DEF PoolInv, TypeOK, DrainInv, PlaceInv, Pending, NoPanic, None
<1> QED
  BY <1>1, PoolInvariant, PTL

\* The task of a Submit call that returned an error is never run.
THEOREM RejectedNeverRunsCorrect == Spec => []RejectedNeverRuns
<1>1. PoolInv => RejectedNeverRuns
  <2> SUFFICES ASSUME PoolInv, NEW s \in Submission, pc[s] \in {"rejected", "refused"}
               PROVE  result[s] = None /\ ~Held(s) /\ \A i \in DOMAIN queue : queue[i] # s
    BY Zenon DEF RejectedNeverRuns
  <2>1. ~Taken(s) /\ result[s] = None
    BY Zenon DEF PoolInv, PendingInv, Taken
  <2>2. ~Held(s)
    BY <2>1, NoneAssumption, Zenon DEF PoolInv, PlaceInv, Held, Pending
  <2>3. DOMAIN queue = 1..Len(queue)
    BY DEF PoolInv, TypeOK
  <2> QED
    BY <2>1, <2>2, <2>3, Zenon DEF PoolInv, PlaceInv, Pending
<1> QED
  BY <1>1, PoolInvariant, PTL

\* Once a Close call has returned nil every accepted task has run and has its
\* result, nothing is queued or running, and accepted equals completed.
THEOREM CloseDrainsCorrect == Spec => []CloseDrains
<1>1. PoolInv => CloseDrains
  <2> SUFFICES ASSUME PoolInv, NEW c \in Closer, cpc[c] = "ok"
               PROVE  /\ \A s \in Submission :
                           pc[s] \in {"sent", "accepted"} <=> result[s] # None
                      /\ queue = <<>> /\ running = 0
                      /\ accepted = completed
    BY Zenon DEF CloseDrains
  <2>1. /\ \A w \in Worker : wpc[w] = "exited"
        /\ \A s \in Submission : pc[s] \notin {"trying", "sent"}
    BY Zenon DEF PoolInv, DrainInv
  <2>2. queue = <<>>
    BY <2>1, PoolAssumption, Zenon DEF PoolInv, DrainInv
  <2>3. \A s \in Submission : ~Held(s)
    BY <2>1, NoneAssumption, Zenon DEF PoolInv, PlaceInv, Held
  <2>4. \A s \in Submission : Taken(s) <=> result[s] # None
    BY <2>2, <2>3 DEF PoolInv, PendingInv, Pending
  <2>5. Accepted = Reported
    BY <2>1, <2>4, Zenon DEF Accepted, Reported, Taken
  <2>6. Running = {} /\ Reporting = {}
    BY <2>1, Zenon DEF Running, Reporting
  <2>7. running = 0 /\ accepted = completed
    BY <2>5, <2>6, Finite, FS_EmptySet DEF PoolInv, CountInv
  <2> QED
    BY <2>2, <2>4, <2>7, Zenon DEF Taken
<1> QED
  BY <1>1, PoolInvariant, PTL

\* Every task between its send and its result is in the buffer once or with
\* one worker, and the counters count what they name.
THEOREM AccountedCorrect == Spec => []Accounted
<1>1. PoolInv => Accounted
  <2> SUFFICES ASSUME PoolInv PROVE Accounted
    BY Zenon
  <2>1. Cardinality(Reported) <= completed
    BY Finite DEF PoolInv, CountInv
  <2>2. running = Cardinality(Running)
    BY Zenon DEF PoolInv, CountInv
  <2>3. ASSUME NEW s \in Submission, Pending(s)
        PROVE  Cardinality({i \in DOMAIN queue : queue[i] = s})
                 + Cardinality({w \in Worker : wtask[w] = s}) = 1
    <3> DEFINE Q == {i \in DOMAIN queue : queue[i] = s}
               H == {w \in Worker : wtask[w] = s}
    <3>1. DOMAIN queue = 1..Len(queue)
      BY DEF PoolInv, TypeOK
    <3>2. CASE Held(s)
      <4>1. PICK w \in Worker : wtask[w] = s
        BY <3>2, Zenon DEF Held
      <4>2. H = {w}
        BY <4>1, NoneAssumption, Zenon DEF PoolInv, PlaceInv
      <4>3. Q = {}
        BY <3>1, <4>1, Zenon DEF PoolInv, PlaceInv
      <4> HIDE DEF H, Q
      <4>4. Cardinality(H) = 1 /\ Cardinality(Q) = 0
        BY <4>2, <4>3, FS_Singleton, FS_EmptySet, Zenon
      <4> QED
        BY <4>4 DEF H, Q
    <3>3. CASE ~Held(s)
      <4>1. PICK i \in 1..Len(queue) : queue[i] = s
        BY <2>3, <3>3, Zenon DEF PoolInv, PendingInv
      <4>2. Q = {i}
        BY <3>1, <4>1, Zenon DEF PoolInv, PlaceInv
      <4>3. H = {}
        BY <3>3, Zenon DEF Held
      <4> HIDE DEF H, Q
      <4>4. Cardinality(H) = 0 /\ Cardinality(Q) = 1
        BY <4>2, <4>3, FS_Singleton, FS_EmptySet, Zenon
      <4> QED
        BY <4>4 DEF H, Q
    <3> QED
      BY <3>2, <3>3, Zenon
  <2> QED
    BY <2>1, <2>2, <2>3, Zenon DEF Accounted, Reported, Running, Pending, Taken
<1> QED
  BY <1>1, PoolInvariant, PTL

\* Submit's answers, the handles, Close and the counters tell of every task what
\* became of it.
THEOREM PoolAccountsCorrect == Spec => []PoolAccounts
<1>1. CloseDrains /\ RejectedNeverRuns /\ Accounted => PoolAccounts
  BY Zenon DEF PoolAccounts
<1> QED
  BY <1>1, CloseDrainsCorrect, RejectedNeverRunsCorrect, AccountedCorrect, PTL

-----------------------------------------------------------------------------
(***************************************************************************)
(* The pool implements BoundedPool.                                        *)
(***************************************************************************)
\* What the refinement mapping says of each submission.
IsStatus(s) ==
  /\ pc[s] \in {"out", "trying"} => StatusOf(s) = "new"
  /\ pc[s] \in {"rejected", "refused"} => StatusOf(s) = "refused"
  /\ Taken(s) /\ result[s] # None => StatusOf(s) = result[s]
  /\ Pending(s) /\ Held(s) => StatusOf(s) = "running"
  /\ Pending(s) /\ ~Held(s) => StatusOf(s) = "waiting"

\* The status that a task has in the abstract pool is told by its Submit and its handle.
LEMMA StatusIs == PoolInv => \A s \in Submission : IsStatus(s)
<1> SUFFICES ASSUME PoolInv, NEW s \in Submission PROVE IsStatus(s)
  BY Zenon
<1>0. (result[s] # None => Taken(s)) /\ (Held(s) => Taken(s))
  BY NoneAssumption, Zenon DEF PoolInv, PendingInv, PlaceInv, Held, Pending
<1>1. CASE pc[s] \in {"out", "trying"}
  <2>1. pc[s] \notin {"rejected", "refused"} /\ ~Taken(s) /\ result[s] = None /\ ~Held(s)
    BY <1>0, <1>1, Zenon DEF Taken
  <2>2. StatusOf(s) = "new"
    BY <2>1, <1>1, Zenon DEF StatusOf
  <2> QED
    BY <2>1, <2>2, Zenon DEF IsStatus, Pending
<1>2. CASE pc[s] \in {"rejected", "refused"}
  <2>1. pc[s] \notin {"out", "trying"} /\ ~Taken(s) /\ result[s] = None /\ ~Held(s)
    BY <1>0, <1>2, Zenon DEF Taken
  <2>2. StatusOf(s) = "refused"
    BY <2>1, <1>2, Zenon DEF StatusOf
  <2> QED
    BY <2>1, <2>2, Zenon DEF IsStatus, Pending
<1>3. CASE Taken(s)
  <2>1. pc[s] \notin {"out", "trying"} /\ pc[s] \notin {"rejected", "refused"}
    BY <1>3, Zenon DEF Taken
  <2>2. CASE result[s] # None
    BY <2>1, <2>2, Zenon DEF StatusOf, IsStatus, Pending
  <2>3. CASE result[s] = None /\ Held(s)
    BY <2>1, <2>3, Zenon DEF StatusOf, IsStatus
  <2>4. CASE result[s] = None /\ ~Held(s)
    BY <2>1, <2>4, Zenon DEF StatusOf, IsStatus
  <2> QED
    BY <2>2, <2>3, <2>4, Zenon
<1> QED
  BY <1>1, <1>2, <1>3, Zenon DEF IsStatus, Pending

\* The same of the state after a step.
LEMMA StatusIsNext == (PoolInv => \A s \in Submission : IsStatus(s))'
  BY StatusIs, PTL

SamePlace(p, q) ==
  \/ p = q
  \/ p = "out" /\ q = "trying"
  \/ p = "sent" /\ q = "accepted"

\* A step that leaves a submission where it is leaves its status.
LEMMA StatusKept ==
  ASSUME NEW s \in Submission, TypeOK, IsStatus(s), IsStatus(s)',
         SamePlace(pc[s], pc'[s]),
         result'[s] = result[s], Held(s)' <=> Held(s)
  PROVE  StatusOf(s)' = StatusOf(s)
<1>1. pc[s] \in SubmitLabel
  BY Zenon DEF TypeOK
<1>2. CASE pc[s] \in {"out", "trying"}
  BY <1>2, Zenon DEF IsStatus, SamePlace
<1>3. CASE pc[s] \in {"rejected", "refused"}
  BY <1>3 DEF IsStatus, SamePlace
<1>4. CASE Taken(s)
  <2>1. Taken(s)'
    BY <1>4, Zenon DEF Taken, SamePlace
  <2>2. CASE result[s] # None
    <3>1. StatusOf(s) = result[s]
      BY <1>4, <2>2, Zenon DEF IsStatus
    <3>2. StatusOf(s)' = result'[s]
      BY <2>1, <2>2, Zenon DEF IsStatus
    <3> QED
      BY <3>1, <3>2, Zenon
  <2>3. CASE result[s] = None
    <3>1. Pending(s) /\ Pending(s)'
      BY <1>4, <2>1, <2>3, Zenon DEF Pending
    <3>2. StatusOf(s) = IF Held(s) THEN "running" ELSE "waiting"
      BY <3>1, Zenon DEF IsStatus
    <3>3. StatusOf(s)' = IF Held(s)' THEN "running" ELSE "waiting"
      BY <3>1, Zenon DEF IsStatus
    <3> QED
      BY <3>2, <3>3, Zenon
  <2> QED
    BY <2>2, <2>3, Zenon
<1> QED
  BY <1>1, <1>2, <1>3, <1>4, Zenon DEF SubmitLabel, Taken

\* A step of the mapped pool changes one submission.
LEMMA StatusBecomes ==
  ASSUME NEW x \in Submission, NEW v, StatusOf(x)' = v,
         \A s \in Submission : s # x => StatusOf(s)' = StatusOf(s)
  PROVE  Pool!Become(x, v)
  BY Zenon DEF Pool!Become

\* The tasks that wait are those of the buffer, those that run are held by a
\* worker each.
LEMMA WaitingBound ==
  ASSUME PoolInv
  PROVE  /\ Cardinality(Pool!With("waiting")) <= Len(queue)
         /\ Cardinality(Pool!With("waiting")) \in Nat
<1> DEFINE W == Pool!With("waiting")
<1>1. ASSUME NEW s \in W PROVE \E i \in 1..Len(queue) : queue[i] = s
  <2>1. s \in Submission /\ StatusOf(s) = "waiting" /\ IsStatus(s)
    BY <1>1, StatusIs, Zenon DEF Pool!With, PoolInv
  <2>2. Pending(s) /\ ~Held(s)
    BY <2>1, Zenon DEF IsStatus, PoolInv, TypeOK, SubmitLabel, Pending, Taken
  <2> QED
    BY <2>1, <2>2, Zenon DEF PoolInv, PendingInv
<1> DEFINE D == {i \in 1..Len(queue) : queue[i] \in W}
           f == [i \in D |-> queue[i]]
<1> HIDE DEF W
<1>2. f \in Surjection(D, W)
  BY <1>1, Zenon DEF Surjection
<1>3. Len(queue) \in Nat
  BY DEF PoolInv, TypeOK
<1>4. IsFiniteSet(1..Len(queue)) /\ Cardinality(1..Len(queue)) = Len(queue)
  <2>1. /\ IsFiniteSet(1..Len(queue))
        /\ Cardinality(1..Len(queue)) = IF 1 > Len(queue) THEN 0 ELSE Len(queue) - 1 + 1
    <3>1. 1 \in Int /\ Len(queue) \in Int
      BY <1>3
    <3> QED
      BY <3>1, FS_Interval, Zenon
  <2> QED
    BY <1>3, <2>1
<1>5. IsFiniteSet(D) /\ Cardinality(D) <= Len(queue)
  BY <1>4, FS_Subset, Zenon
<1>6. IsFiniteSet(W) /\ Cardinality(W) <= Cardinality(D)
  BY <1>2, <1>5, FS_Surjection, Zenon
<1>7. Cardinality(W) \in Nat /\ Cardinality(D) \in Nat
  BY <1>5, <1>6, FS_CardinalityType, Zenon
<1> HIDE DEF D
<1> QED
  BY <1>3, <1>5, <1>6, <1>7 DEF W

\* While a worker is free fewer tasks run than there are workers.
LEMMA RunningBound ==
  ASSUME PoolInv, NEW w \in Worker, wtask[w] = None
  PROVE  Cardinality(Pool!With("running")) < Cardinality(Worker)
<1> DEFINE R == Pool!With("running")
<1>1. ASSUME NEW s \in R PROVE s \in Submission /\ Held(s)
  <2>1. s \in Submission /\ StatusOf(s) = "running" /\ IsStatus(s)
    BY <1>1, StatusIs, Zenon DEF Pool!With, PoolInv
  <2> QED
    BY <2>1, Zenon DEF IsStatus, PoolInv, TypeOK, SubmitLabel, Pending, Taken
<1> DEFINE B == {v \in Worker : wtask[v] \in R}
           f == [v \in B |-> wtask[v]]
<1> HIDE DEF R
<1>2. f \in Surjection(B, R)
  BY <1>1, Zenon DEF Surjection, Held
<1>3. B \subseteq Worker \ {w}
  BY <1>1, NoneAssumption, Zenon
<1>4. /\ IsFiniteSet(Worker \ {w}) /\ IsFiniteSet(Worker)
      /\ Cardinality(Worker \ {w}) = Cardinality(Worker) - 1
  BY PoolAssumption, FS_RemoveElement, Zenon
<1> HIDE DEF B
<1>5. IsFiniteSet(B) /\ Cardinality(B) <= Cardinality(Worker \ {w})
  BY <1>3, <1>4, FS_Subset, Zenon
<1>6. IsFiniteSet(R) /\ Cardinality(R) <= Cardinality(B)
  BY <1>2, <1>5, FS_Surjection, Zenon
<1>7. Cardinality(R) \in Nat /\ Cardinality(B) \in Nat /\ Cardinality(Worker) \in Nat
  BY <1>4, <1>5, <1>6, FS_CardinalityType, Zenon
<1> QED
  BY <1>4, <1>5, <1>6, <1>7 DEF R

\* The mapped pool counts as this module does.
LEMMA SameCardinality == \A S : Pool!Cardinality(S) = Cardinality(S)
  BY Zenon DEF Cardinality, Pool!Cardinality

\* Every step of the pool is one of the abstract pool, or is not seen there.
LEMMA RefinesNext ==
  PoolInv /\ PoolInv' /\ [Next]_vars => [Pool!PoolNext]_(Pool!poolVars)
<1> SUFFICES ASSUME PoolInv, PoolInv', [Next]_vars
             PROVE  Pool!PoolNext \/ UNCHANGED Pool!poolVars
  BY Zenon
<1> USE DEF submitVars, workerVars, closeVars
<1>a. /\ TypeOK /\ DrainInv /\ PlaceInv /\ PendingInv
      /\ \A s \in Submission : IsStatus(s) /\ IsStatus(s)'
  BY StatusIs, StatusIsNext, Zenon DEF PoolInv
<1>b. /\ pc \in [Submission -> SubmitLabel] /\ wpc \in [Worker -> WorkerLabel]
      /\ wtask \in [Worker -> Submission \cup {None}] /\ None \notin Submission
      /\ result \in [Submission -> {None, "ok", "failed"}]
  BY <1>a, NoneAssumption, Zenon DEF TypeOK
<1>c. ASSUME \A s \in Submission : StatusOf(s)' = StatusOf(s), drain' = drain
      PROVE  UNCHANGED Pool!poolVars
  BY <1>c, Zenon DEF Pool!poolVars
<1>d. ASSUME NEW s \in Submission, result' = result, wtask' = wtask,
             SamePlace(pc[s], pc'[s])
      PROVE  StatusOf(s)' = StatusOf(s)
  <2>1. Held(s)' <=> Held(s)
    BY <1>d, Zenon DEF Held
  <2> QED
    BY <1>a, <1>d, <2>1, StatusKept, Zenon
<1>e. ASSUME UNCHANGED <<pc, result, wtask, drain>> PROVE UNCHANGED Pool!poolVars
  <2>1. \A s \in Submission : StatusOf(s)' = StatusOf(s)
    BY <1>d, <1>e, Zenon DEF SamePlace
  <2> QED
    BY <1>c, <1>e, <2>1, Zenon
<1>f. ASSUME NEW x \in Submission, pc[x] \in {"out", "trying"},
             pc' = [pc EXCEPT ![x] = "rejected"] \/ pc' = [pc EXCEPT ![x] = "refused"],
             UNCHANGED <<result, wtask, drain>>
      PROVE  Pool!PoolNext
  <2>1. pc'[x] \in {"rejected", "refused"} /\ \A s \in Submission : s # x => pc'[s] = pc[s]
    BY <1>b, <1>f, Zenon
  <2>2. StatusOf(x) = "new" /\ StatusOf(x)' = "refused"
    BY <1>a, <1>f, <2>1, Zenon DEF IsStatus
  <2>3. \A s \in Submission : s # x => StatusOf(s)' = StatusOf(s)
    BY <1>d, <1>f, <2>1, Zenon DEF SamePlace
  <2>4. Pool!Become(x, "refused")
    BY <2>2, <2>3, StatusBecomes, Zenon
  <2>5. Pool!Refuse(x)
    BY <1>f, <2>2, <2>4, Zenon DEF Pool!Refuse
  <2> QED
    BY <2>5, Zenon DEF Pool!PoolNext
\* A task moves to a worker: from the buffer, or from the call that sends it.
<1>g. ASSUME NEW x \in Submission, NEW w \in Worker, wpc[w] = "receive",
             wtask' = [wtask EXCEPT ![w] = x], UNCHANGED <<result, drain>>,
             StatusOf(x) \in {"new", "waiting"}, Pending(x)',
             \A s \in Submission : s # x => pc'[s] = pc[s]
      PROVE  Pool!PoolNext
  <2>1. wtask[w] = None /\ drain # "done"
    BY <1>a, <1>g, Zenon DEF PlaceInv, DrainInv
  <2>2. wtask'[w] = x /\ \A v \in Worker : v # w => wtask'[v] = wtask[v]
    BY <1>b, <1>g, Zenon
  <2>3. StatusOf(x)' = "running"
    <3>1. Held(x)'
      BY <2>2, Zenon DEF Held
    <3> QED
      BY <1>a, <1>g, <3>1, Zenon DEF IsStatus
  <2>4. ASSUME NEW s \in Submission, s # x PROVE StatusOf(s)' = StatusOf(s)
    <3>1. Held(s)' <=> Held(s)
      BY <2>1, <2>2, <2>4, <1>b, Zenon DEF Held
    <3> QED
      BY <1>a, <1>g, <2>4, <3>1, StatusKept, Zenon DEF SamePlace
  <2>5. Pool!Become(x, "running")
    BY <2>3, <2>4, StatusBecomes, Zenon
  <2>6. Cardinality(Pool!With("running")) < Cardinality(Worker)
    BY <2>1, RunningBound, Zenon
  <2>7. Pool!Start(x)
    BY <1>g, <2>1, <2>5, <2>6, SameCardinality, Zenon DEF Pool!Start
  <2> QED
    BY <2>7, Zenon DEF Pool!PoolNext
<1>1. ASSUME NEW x \in Submission, Submit(x)
      PROVE  Pool!PoolNext \/ UNCHANGED Pool!poolVars
  <2>1. CASE closed
    BY <1>1, <1>f, <2>1, Zenon DEF Submit
  <2>2. CASE ~closed
    <3>1. pc' = [pc EXCEPT ![x] = "trying"] /\ pc[x] = "out" /\ UNCHANGED <<result, wtask, drain>>
      BY <1>1, <2>2, Zenon DEF Submit
    <3>2. ASSUME NEW s \in Submission PROVE StatusOf(s)' = StatusOf(s)
      <4>1. SamePlace(pc[s], pc'[s])
        BY <3>1, <1>b, Zenon DEF SamePlace
      <4> QED
        BY <3>1, <4>1, <1>d, Zenon
    <3> QED
      BY <3>1, <3>2, <1>c, Zenon
  <2> QED
    BY <2>1, <2>2, Zenon
<1>2. ASSUME NEW x \in Submission, Refused(x) \/ SubmitReleased(x) PROVE Pool!PoolNext
  BY <1>2, <1>f, Zenon DEF Refused, SubmitReleased
<1>3. ASSUME NEW x \in Submission, SubmitReturns(x) PROVE UNCHANGED Pool!poolVars
  <2>1. pc' = [pc EXCEPT ![x] = "accepted"] /\ pc[x] = "sent" /\ UNCHANGED <<result, wtask, drain>>
    BY <1>3, Zenon DEF SubmitReturns
  <2>2. ASSUME NEW s \in Submission PROVE StatusOf(s)' = StatusOf(s)
    <3>1. SamePlace(pc[s], pc'[s])
      BY <2>1, <1>b, Zenon DEF SamePlace
    <3> QED
      BY <2>1, <3>1, <1>d, Zenon
  <2> QED
    BY <2>1, <2>2, <1>c, Zenon
<1>4. ASSUME NEW x \in Submission, SendBuffered(x) PROVE Pool!PoolNext
  <2>1. /\ pc[x] = "trying" /\ pc' = [pc EXCEPT ![x] = "sent"]
        /\ UNCHANGED <<result, wtask, drain>> /\ Len(queue) < QueueCapacity
    BY <1>4, Zenon DEF SendBuffered
  <2>2. pc'[x] = "sent" /\ \A s \in Submission : s # x => pc'[s] = pc[s]
    BY <1>b, <2>1, Zenon
  <2>3. drain # "done" /\ ~Taken(x) /\ result[x] = None /\ ~Held(x)
    <3>1. drain # "done"
      BY <1>a, <2>1, Zenon DEF DrainInv
    <3>2. ~Taken(x) /\ result[x] = None
      BY <1>a, <2>1, Zenon DEF PendingInv, Taken
    <3>3. ~Held(x)
      BY <1>a, <1>b, <3>2, Zenon DEF PlaceInv, Held, Pending
    <3> QED
      BY <3>1, <3>2, <3>3, Zenon
  <2>4. StatusOf(x) = "new" /\ StatusOf(x)' = "waiting"
    <3>1. ~Held(x)' /\ Pending(x)'
      BY <2>1, <2>2, <2>3, Zenon DEF Held, Pending, Taken
    <3> QED
      BY <1>a, <2>1, <3>1, Zenon DEF IsStatus
  <2>5. \A s \in Submission : s # x => StatusOf(s)' = StatusOf(s)
    BY <1>d, <2>1, <2>2, Zenon DEF SamePlace
  <2>6. Pool!Become(x, "waiting")
    BY <2>4, <2>5, StatusBecomes, Zenon
  <2>7. Cardinality(Pool!With("waiting")) < QueueCapacity
    <3>1. Len(queue) \in Nat /\ QueueCapacity \in Nat
      BY <1>a, PoolAssumption DEF TypeOK
    <3>2. /\ Cardinality(Pool!With("waiting")) <= Len(queue)
          /\ Cardinality(Pool!With("waiting")) \in Nat
      BY WaitingBound, Zenon
    <3> QED
      BY <2>1, <3>1, <3>2
  <2>8. Pool!Enqueue(x)
    BY <2>1, <2>3, <2>4, <2>6, <2>7, SameCardinality, Zenon DEF Pool!Enqueue
  <2> QED
    BY <2>8, Zenon DEF Pool!PoolNext
<1>5. ASSUME NEW x \in Submission, NEW w \in Worker, SendDirect(x, w) PROVE Pool!PoolNext
  <2>1. /\ pc[x] = "trying" /\ pc' = [pc EXCEPT ![x] = "sent"]
        /\ wtask' = [wtask EXCEPT ![w] = x] /\ wpc[w] = "receive"
        /\ UNCHANGED <<result, drain>>
    BY <1>5, Zenon DEF SendDirect
  <2>2. pc'[x] = "sent" /\ \A s \in Submission : s # x => pc'[s] = pc[s]
    BY <1>b, <2>1, Zenon
  <2>3. StatusOf(x) = "new" /\ result[x] = None
    BY <1>a, <2>1, Zenon DEF IsStatus, PendingInv, Taken
  <2> QED
    BY <1>g, <2>1, <2>2, <2>3, Zenon DEF Pending, Taken
<1>6. ASSUME NEW w \in Worker, Receive(w) PROVE Pool!PoolNext
  <2>0. PICK x : x = Head(queue)
    BY Zenon
  <2>1. /\ wpc[w] = "receive" /\ queue # <<>>
        /\ wtask' = [wtask EXCEPT ![w] = x]
        /\ UNCHANGED <<result, drain, pc>>
    BY <1>6, <2>0, Zenon DEF Receive
  <2>2. 1 \in 1..Len(queue) /\ x = queue[1] /\ x \in Submission
    BY <1>a, <2>0, <2>1 DEF TypeOK
  <2>3. Pending(x) /\ ~Held(x)
    BY <1>a, <2>2, Zenon DEF PlaceInv, Held
  <2>4. StatusOf(x) = "waiting" /\ Pending(x)'
    BY <1>a, <2>1, <2>2, <2>3, Zenon DEF IsStatus, Pending, Taken
  <2> QED
    BY <1>g, <2>1, <2>2, <2>4, Zenon
<1>7. ASSUME NEW w \in Worker, SetResult(w) PROVE Pool!PoolNext
  <2>0. PICK x : x = wtask[w]
    BY Zenon
  <2>1. /\ wpc[w] \in {"ok", "failed"}
        /\ result' = [result EXCEPT ![x] = wpc[w]]
        /\ wtask' = [wtask EXCEPT ![w] = None]
        /\ UNCHANGED <<pc, drain>>
    BY <1>7, <2>0, Zenon DEF SetResult
  <2>2. x \in Submission /\ Pending(x) /\ x # None
    BY <1>a, <1>b, <2>0, <2>1, Zenon DEF PlaceInv
  <2>3. /\ result'[x] = wpc[w] /\ \A s \in Submission : s # x => result'[s] = result[s]
        /\ wtask'[w] = None /\ \A v \in Worker : v # w => wtask'[v] = wtask[v]
    BY <1>b, <2>1, <2>2, Zenon
  <2>4. StatusOf(x) = "running" /\ StatusOf(x)' = wpc[w]
    <3>1. Held(x)
      BY <2>0, Zenon DEF Held
    <3>2. Taken(x)' /\ result'[x] # None
      BY <2>1, <2>2, <2>3, Zenon DEF Pending, Taken, None
    <3> QED
      BY <1>a, <2>2, <2>3, <3>1, <3>2, Zenon DEF IsStatus
  <2>5. ASSUME NEW s \in Submission, s # x PROVE StatusOf(s)' = StatusOf(s)
    <3>1. Held(s)' <=> Held(s)
      BY <2>0, <2>3, <2>5, <1>b, Zenon DEF Held
    <3> QED
      BY <1>a, <2>1, <2>3, <2>5, <3>1, StatusKept, Zenon DEF SamePlace
  <2>6. Pool!Become(x, wpc[w])
    BY <2>2, <2>4, <2>5, StatusBecomes, Zenon
  <2>7. Pool!Complete(x)
    BY <2>1, <2>2, <2>4, <2>6, Zenon DEF Pool!Complete
  <2> QED
    BY <2>2, <2>7, Zenon DEF Pool!PoolNext
<1>8. ASSUME AwaitWorkers PROVE Pool!PoolNext
  <2>1. /\ \A w \in Worker : wpc[w] = "exited"
        /\ UNCHANGED <<pc, result, wtask>> /\ drain' = "done"
    BY <1>8, Zenon DEF AwaitWorkers
  <2>2. 1..Len(queue) = {} /\ \A w \in Worker : wtask[w] = None
    <3>1. queue = <<>>
      BY <1>a, <2>1, PoolAssumption, Zenon DEF DrainInv
    <3> QED
      BY <1>a, <2>1, <3>1 DEF PlaceInv
  <2>3. ASSUME NEW s \in Submission PROVE StatusOf(s) \notin {"waiting", "running"}
    <3>1. ~Pending(s)
      BY <1>a, <1>b, <2>2, Zenon DEF PendingInv, Held
    <3> QED
      BY <1>a, <1>b, <3>1, Zenon DEF IsStatus, Pending, Taken, SubmitLabel
  <2>4. Pool!With("waiting") \cup Pool!With("running") = {}
    BY <2>3, Zenon DEF Pool!With
  <2>5. \A s \in Submission : StatusOf(s)' = StatusOf(s)
    BY <1>d, <2>1, Zenon DEF SamePlace
  <2>6. Pool!Drain
    BY <2>1, <2>4, <2>5, Zenon DEF Pool!Drain
  <2> QED
    BY <2>6, Zenon DEF Pool!PoolNext
<1>9. ASSUME NEW c \in Closer, Close(c) PROVE UNCHANGED Pool!poolVars
  <2>1. UNCHANGED <<pc, result, wtask>> /\ (drain = "done") = (drain' = "done")
    BY <1>9, <1>a, Zenon DEF Close, DrainInv
  <2>2. \A s \in Submission : StatusOf(s)' = StatusOf(s)
    BY <1>d, <2>1, Zenon DEF SamePlace
  <2> QED
    BY <2>1, <2>2, Zenon DEF Pool!poolVars
<1>10. ASSUME AwaitInFlight \/ CloseTasks PROVE UNCHANGED Pool!poolVars
  <2>1. UNCHANGED <<pc, result, wtask>> /\ (drain = "done") = (drain' = "done")
    BY <1>10, Zenon DEF AwaitInFlight, CloseTasks
  <2>2. \A s \in Submission : StatusOf(s)' = StatusOf(s)
    BY <1>d, <2>1, Zenon DEF SamePlace
  <2> QED
    BY <2>1, <2>2, Zenon DEF Pool!poolVars
<1>11. ASSUME NEW s \in Submission, CtxDone(s) PROVE UNCHANGED Pool!poolVars
  BY <1>11, <1>e, Zenon DEF CtxDone
<1>12. ASSUME NEW w \in Worker, BeginTask(w) \/ TaskEnds(w) \/ WorkerExits(w)
       PROVE  UNCHANGED Pool!poolVars
  BY <1>12, <1>e, Zenon DEF BeginTask, TaskEnds, WorkerExits
<1>13. ASSUME NEW c \in Closer, CloseReturns(c) \/ CloseTimesOut(c)
       PROVE  UNCHANGED Pool!poolVars
  BY <1>13, <1>e, Zenon DEF CloseReturns, CloseTimesOut
<1>14. CASE UNCHANGED vars
  BY <1>14, <1>e, Zenon DEF vars
<1> QED
  BY <1>1, <1>2, <1>3, <1>4, <1>5, <1>6, <1>7, <1>8, <1>9, <1>10, <1>11,
     <1>12, <1>13, <1>14, Zenon
  DEF Next, SubmitStep, WorkerStep, DrainStep

\* Submit, the workers and Close implement the bounded pool the package documents:
\* never more than the workers run nor more than the capacity wait, a task runs once or
\* was refused, and nothing is left once the pool is drained.
THEOREM BoundedPoolImplemented == Spec => ImplementsBoundedPool
<1>1. Init => Pool!PoolInit
  <2> SUFFICES ASSUME Init PROVE Pool!PoolInit
    BY Zenon
  <2>1. \A s \in Submission : pc[s] = "out" /\ result[s] = None /\ ~Held(s)
    BY NoneAssumption, Zenon DEF Init, Held
  <2>2. \A s \in Submission : StatusOf(s) = "new"
    BY <2>1, Zenon DEF StatusOf
  <2> QED
    BY <2>2, Zenon DEF Pool!PoolInit, Init
<1> QED
  BY <1>1, RefinesNext, PoolInvariant, PTL DEF Spec, ImplementsBoundedPool, Pool!Spec

===============================================================================
