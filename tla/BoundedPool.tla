------------------------------ MODULE BoundedPool ------------------------------
(***************************************************************************)
(* What workerpool.Processor promises (workerpool/workerpool.go, the doc   *)
(* comments of Processor, Submit and Close): at most Workers tasks run and *)
(* at most QueueCapacity wait, a task runs once or, when it was refused,   *)
(* never, and once the pool is drained nothing is left to run.             *)
(***************************************************************************)
EXTENDS Naturals, FiniteSets

CONSTANTS Submission, Workers, QueueCapacity

VARIABLES
  status,  \* status of each submission
  drained  \* the pool was closed and has nothing left to run

poolVars == <<status, drained>>

With(v) == {s \in Submission : status[s] = v}

PoolInit ==
  /\ status = [s \in Submission |-> "new"]
  /\ drained = FALSE

Become(s, v) == status' = [status EXCEPT ![s] = v]

Refuse(s) ==
  /\ status[s] = "new"
  /\ Become(s, "refused")
  /\ UNCHANGED drained

Enqueue(s) ==
  /\ ~drained
  /\ status[s] = "new"
  /\ Cardinality(With("waiting")) < QueueCapacity
  /\ Become(s, "waiting")
  /\ UNCHANGED drained

Start(s) ==
  /\ ~drained
  /\ status[s] \in {"new", "waiting"}
  /\ Cardinality(With("running")) < Workers
  /\ Become(s, "running")
  /\ UNCHANGED drained

Complete(s) ==
  /\ status[s] = "running"
  /\ Become(s, "ok") \/ Become(s, "failed")
  /\ UNCHANGED drained

Drain ==
  /\ With("waiting") \cup With("running") = {}
  /\ drained' = TRUE
  /\ UNCHANGED status

PoolNext ==
  \/ \E s \in Submission : Refuse(s) \/ Enqueue(s) \/ Start(s) \/ Complete(s)
  \/ Drain

Spec == PoolInit /\ [][PoolNext]_poolVars
===============================================================================
