------------------------------- MODULE WorkerPool -------------------------------
(***************************************************************************)
(* workerpool.Processor (workerpool/workerpool.go): Submit calls that      *)
(* block for room in a bounded channel, a fixed set of workers, and Close, *)
(* which must not close the channel while a Submit may still send on it.   *)
(*                                                                         *)
(* A submission is one call of Submit and the task it carries.  inFlight   *)
(* counts the calls between the check of closed and their return: it is    *)
(* the set InFlight.  A send to an idle worker bypasses the buffer, which  *)
(* is the only way to send when QueueCapacity is 0.                        *)
(***************************************************************************)
EXTENDS Integers, Sequences, FiniteSets

CONSTANTS
  Submission,    \* calls of Submit
  Worker,        \* goroutines started by New
  Closer,        \* goroutines that call Close, again after a timeout
  QueueCapacity  \* capacity of the channel of tasks

ASSUME PoolAssumption ==
  /\ IsFiniteSet(Submission)
  /\ IsFiniteSet(Worker) /\ Worker # {}
  /\ QueueCapacity \in Nat

None == "none"
ASSUME NoneAssumption == None \notin Submission

VARIABLES
  pc,          \* where each Submit call is
  ctxDone,     \* the context given to Submit is done
  queue,       \* the buffer of Processor.tasks
  wpc,         \* where each worker is
  wtask,       \* the task each worker has received
  result,      \* what Handle.setResult recorded
  closed,      \* Processor.closed, and the closing channel
  drain,       \* where the goroutine started by Close is
  tasksClosed, \* Processor.tasks is closed
  cpc,         \* where each Close call is
  running, accepted, completed, failed, rejected  \* the counters of Stats

submitVars == <<pc, ctxDone>>
workerVars == <<wpc, wtask, result>>
closeVars  == <<closed, drain, tasksClosed, cpc>>
stats      == <<running, accepted, completed, failed, rejected>>
vars == <<submitVars, queue, workerVars, closeVars, stats>>

SubmitLabel == {"out", "trying", "sent", "accepted", "rejected", "refused"}
WorkerLabel == {"receive", "got", "run", "ok", "failed", "exited"}
DrainLabel  == {"none", "inFlight", "tasks", "workers", "done"}

TypeOK ==
  /\ pc \in [Submission -> SubmitLabel]
  /\ ctxDone \in [Submission -> BOOLEAN]
  /\ queue \in Seq(Submission) /\ Len(queue) <= QueueCapacity
  /\ wpc \in [Worker -> WorkerLabel]
  /\ wtask \in [Worker -> Submission \cup {None}]
  /\ result \in [Submission -> {None, "ok", "failed"}]
  /\ closed \in BOOLEAN
  /\ drain \in DrainLabel
  /\ tasksClosed \in BOOLEAN
  /\ cpc \in [Closer -> {"out", "waiting", "ok", "timeout"}]
  /\ running \in Int /\ accepted \in Nat /\ completed \in Nat
  /\ failed \in Nat /\ rejected \in Nat

\* New, for valid options.
Init ==
  /\ pc = [s \in Submission |-> "out"]
  /\ ctxDone = [s \in Submission |-> FALSE]
  /\ queue = <<>>
  /\ wpc = [w \in Worker |-> "receive"]
  /\ wtask = [w \in Worker |-> None]
  /\ result = [s \in Submission |-> None]
  /\ closed = FALSE
  /\ drain = "none"
  /\ tasksClosed = FALSE
  /\ cpc = [c \in Closer |-> "out"]
  /\ running = 0 /\ accepted = 0 /\ completed = 0 /\ failed = 0 /\ rejected = 0

InFlight == {s \in Submission : pc[s] \in {"trying", "sent"}}

-----------------------------------------------------------------------------
(***************************************************************************)
(* Submit.                                                                 *)
(***************************************************************************)
CtxDone(s) ==
  /\ pc[s] \in {"out", "trying"}
  /\ ~ctxDone[s]
  /\ ctxDone' = [ctxDone EXCEPT ![s] = TRUE]
  /\ UNCHANGED <<pc, queue, workerVars, closeVars, stats>>

\* The context was done before the call: no counter moves.
Refused(s) ==
  /\ pc[s] = "out"
  /\ ctxDone[s]
  /\ pc' = [pc EXCEPT ![s] = "refused"]
  /\ UNCHANGED <<ctxDone, queue, workerVars, closeVars, stats>>

\* Mutant: closed is not looked at when the call registers as in flight.
SubmitUnchecked(s) ==
  /\ pc[s] = "out"
  /\ ~ctxDone[s]
  /\ pc' = [pc EXCEPT ![s] = "trying"]
  /\ UNCHANGED <<ctxDone, queue, workerVars, closeVars, stats>>

\* The critical section of Submit: refused after Close, in flight otherwise.
Submit(s) ==
  /\ pc[s] = "out"
  /\ ~ctxDone[s]
  /\ pc' = [pc EXCEPT ![s] = IF closed THEN "rejected" ELSE "trying"]
  /\ rejected' = IF closed THEN rejected + 1 ELSE rejected
  /\ UNCHANGED <<ctxDone, queue, workerVars, closeVars, running, accepted,
                 completed, failed>>

\* The send is chosen, whatever other branches of the select are ready.
SendBuffered(s) ==
  /\ pc[s] = "trying"
  /\ Len(queue) < QueueCapacity
  /\ queue' = Append(queue, s)
  /\ pc' = [pc EXCEPT ![s] = "sent"]
  /\ UNCHANGED <<ctxDone, workerVars, closeVars, stats>>

\* A worker is waiting on the empty channel.
SendDirect(s, w) ==
  /\ pc[s] = "trying"
  /\ wpc[w] = "receive"
  /\ queue = <<>>
  /\ pc' = [pc EXCEPT ![s] = "sent"]
  /\ wpc' = [wpc EXCEPT ![w] = "got"]
  /\ wtask' = [wtask EXCEPT ![w] = s]
  /\ UNCHANGED <<ctxDone, queue, result, closeVars, stats>>

\* accepted is counted after the send, before inFlight.Done.
SubmitReturns(s) ==
  /\ pc[s] = "sent"
  /\ accepted' = accepted + 1
  /\ pc' = [pc EXCEPT ![s] = "accepted"]
  /\ UNCHANGED <<ctxDone, queue, workerVars, closeVars, running, completed,
                 failed, rejected>>

\* The context or closing is chosen by the select.
SubmitReleased(s) ==
  /\ pc[s] = "trying"
  /\ ctxDone[s] \/ closed
  /\ rejected' = rejected + 1
  /\ pc' = [pc EXCEPT ![s] = "rejected"]
  /\ UNCHANGED <<ctxDone, queue, workerVars, closeVars, running, accepted,
                 completed, failed>>

-----------------------------------------------------------------------------
(***************************************************************************)
(* The workers.                                                            *)
(***************************************************************************)
Receive(w) ==
  /\ wpc[w] = "receive"
  /\ queue # <<>>
  /\ wtask' = [wtask EXCEPT ![w] = Head(queue)]
  /\ queue' = Tail(queue)
  /\ wpc' = [wpc EXCEPT ![w] = "got"]
  /\ UNCHANGED <<submitVars, result, closeVars, stats>>

BeginTask(w) ==
  /\ wpc[w] = "got"
  /\ running' = running + 1
  /\ wpc' = [wpc EXCEPT ![w] = "run"]
  /\ UNCHANGED <<submitVars, queue, wtask, result, closeVars, accepted,
                 completed, failed, rejected>>

\* runTask returned, an error or a recovered panic counting as failed.  The
\* counters are atomics of their own, moved here in one step: only Stats, a
\* snapshot that promises no consistency, could tell.
TaskEnds(w) ==
  /\ wpc[w] = "run"
  /\ running' = running - 1
  /\ completed' = completed + 1
  /\ \/ wpc' = [wpc EXCEPT ![w] = "ok"] /\ failed' = failed
     \/ wpc' = [wpc EXCEPT ![w] = "failed"] /\ failed' = failed + 1
  /\ UNCHANGED <<submitVars, queue, wtask, result, closeVars, accepted, rejected>>

\* Mutant: the worker exits when the pool was closed, its queue not empty.
SetResultAndLeave(w) ==
  /\ wpc[w] \in {"ok", "failed"}
  /\ result' = [result EXCEPT ![wtask[w]] = wpc[w]]
  /\ wpc' = [wpc EXCEPT ![w] = IF closed THEN "exited" ELSE "receive"]
  /\ wtask' = [wtask EXCEPT ![w] = None]
  /\ UNCHANGED <<submitVars, queue, closeVars, stats>>

\* Handle.setResult releases every Wait.
SetResult(w) ==
  /\ wpc[w] \in {"ok", "failed"}
  /\ result' = [result EXCEPT ![wtask[w]] = wpc[w]]
  /\ wpc' = [wpc EXCEPT ![w] = "receive"]
  /\ wtask' = [wtask EXCEPT ![w] = None]
  /\ UNCHANGED <<submitVars, queue, closeVars, stats>>

\* The range over the channel ends when it is closed and empty.
WorkerExits(w) ==
  /\ wpc[w] = "receive"
  /\ tasksClosed
  /\ queue = <<>>
  /\ wpc' = [wpc EXCEPT ![w] = "exited"]
  /\ UNCHANGED <<submitVars, queue, wtask, result, closeVars, stats>>

-----------------------------------------------------------------------------
(***************************************************************************)
(* Close, and the goroutine its first call starts.                         *)
(***************************************************************************)
Close(c) ==
  /\ cpc[c] \in {"out", "timeout"}
  /\ closed' = TRUE
  /\ drain' = IF closed THEN drain ELSE "inFlight"
  /\ cpc' = [cpc EXCEPT ![c] = "waiting"]
  /\ UNCHANGED <<submitVars, queue, workerVars, tasksClosed, stats>>

\* Mutant: the channel is closed without waiting for the calls in flight.
AwaitInFlightNot ==
  /\ drain = "inFlight"
  /\ drain' = "tasks"
  /\ UNCHANGED <<submitVars, queue, workerVars, closed, tasksClosed, cpc, stats>>

AwaitInFlight ==
  /\ drain = "inFlight"
  /\ InFlight = {}
  /\ drain' = "tasks"
  /\ UNCHANGED <<submitVars, queue, workerVars, closed, tasksClosed, cpc, stats>>

CloseTasks ==
  /\ drain = "tasks"
  /\ tasksClosed' = TRUE
  /\ drain' = "workers"
  /\ UNCHANGED <<submitVars, queue, workerVars, closed, cpc, stats>>

AwaitWorkers ==
  /\ drain = "workers"
  /\ \A w \in Worker : wpc[w] = "exited"
  /\ drain' = "done"
  /\ UNCHANGED <<submitVars, queue, workerVars, closed, tasksClosed, cpc, stats>>

CloseReturns(c) ==
  /\ cpc[c] = "waiting"
  /\ drain = "done"
  /\ cpc' = [cpc EXCEPT ![c] = "ok"]
  /\ UNCHANGED <<submitVars, queue, workerVars, closed, drain, tasksClosed, stats>>

\* The context given to Close is done first; the drain goes on.
CloseTimesOut(c) ==
  /\ cpc[c] = "waiting"
  /\ cpc' = [cpc EXCEPT ![c] = "timeout"]
  /\ UNCHANGED <<submitVars, queue, workerVars, closed, drain, tasksClosed, stats>>

SubmitStep(s) ==
  \/ Refused(s) \/ SendBuffered(s) \/ SubmitReturns(s) \/ SubmitReleased(s)
  \/ \E w \in Worker : SendDirect(s, w)

WorkerStep(w) ==
  Receive(w) \/ BeginTask(w) \/ TaskEnds(w) \/ SetResult(w) \/ WorkerExits(w)

DrainStep == AwaitInFlight \/ CloseTasks \/ AwaitWorkers

Next ==
  \/ \E s \in Submission : Submit(s) \/ CtxDone(s) \/ SubmitStep(s)
  \/ \E w \in Worker : WorkerStep(w)
  \/ \E c \in Closer : Close(c) \/ CloseReturns(c) \/ CloseTimesOut(c)
  \/ DrainStep

\* The scheduler runs every goroutine and tasks return; nobody is obliged to
\* call Submit or Close, and no context has to expire.
Fairness ==
  /\ \A s \in Submission : WF_vars(SubmitStep(s))
  /\ \A w \in Worker : WF_vars(WorkerStep(w))
  /\ WF_vars(DrainStep)

Spec == Init /\ [][Next]_vars
FairSpec == Spec /\ Fairness

-----------------------------------------------------------------------------
(***************************************************************************)
(* Properties.                                                             *)
(***************************************************************************)
Held(s) == \E w \in Worker : wtask[w] = s

\* The channel is never closed under a Submit that may still send on it, which
\* would panic, and the worker that reports a task is the only one to do so:
\* setResult closes the handle's channel, and closing it twice would panic.
NoPanic ==
  /\ tasksClosed => \A s \in Submission : pc[s] # "trying"
  /\ \A w \in Worker : wpc[w] \in {"ok", "failed"} => result[wtask[w]] = None

\* When Close returns nil every task some Submit accepted has run and has its
\* result, nothing is queued or running, and the counters say so.
CloseDrains ==
  (\E c \in Closer : cpc[c] = "ok") =>
    /\ \A s \in Submission : pc[s] \in {"sent", "accepted"} <=> result[s] # None
    /\ queue = <<>> /\ running = 0
    /\ accepted = completed

\* A task whose Submit returned an error is never run, so that the caller may
\* negatively acknowledge its message.
RejectedNeverRuns ==
  \A s \in Submission : pc[s] \in {"rejected", "refused"} =>
    result[s] = None /\ ~Held(s) /\ \A i \in DOMAIN queue : queue[i] # s

\* A handle that reports a result was counted as completed, and every task
\* between Submit and its result is in exactly one place: the buffer or one
\* worker.
Accounted ==
  /\ Cardinality({s \in Submission : result[s] # None}) <= completed
  /\ running = Cardinality({w \in Worker : wpc[w] = "run"})
  /\ \A s \in Submission : pc[s] \in {"sent", "accepted"} /\ result[s] = None =>
       Cardinality({i \in DOMAIN queue : queue[i] = s})
         + Cardinality({w \in Worker : wtask[w] = s}) = 1

\* Together: what Submit, a handle, Close and the counters report of a task agrees
\* with what became of it.
PoolAccounts == CloseDrains /\ RejectedNeverRuns /\ Accounted

\* The counters and the goroutines implement a bounded pool.
StatusOf(s) ==
  CASE pc[s] \in {"out", "trying"}       -> "new"
    [] pc[s] \in {"rejected", "refused"} -> "refused"
    [] result[s] # None                  -> result[s]
    [] result[s] = None /\ Held(s)       -> "running"
    [] OTHER                             -> "waiting"

Pool == INSTANCE BoundedPool WITH
  Workers <- Cardinality(Worker),
  status  <- [s \in Submission |-> StatusOf(s)],
  drained <- (drain = "done")
ImplementsBoundedPool == Pool!Spec

\* An accepted task gets its result, whether or not the pool is closed.
AcceptedFinishes ==
  \A s \in Submission : pc[s] = "sent" ~> result[s] # None

\* Once Close was called the pool drains, even if every Close call timed out,
\* and no Submit stays blocked.
CloseCompletes ==
  /\ closed ~> drain = "done"
  /\ \A s \in Submission : pc[s] = "trying" ~> pc[s] # "trying"

===============================================================================
