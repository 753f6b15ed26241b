------------------------------- MODULE MCServing -------------------------------
(***************************************************************************)
(* What an application runs on: the worker pool, the gRPC server, the HTTP  *)
(* server and the health checks.  An initial state picks one.  The pool has *)
(* two workers and three submissions: its buffer fills, a Submit blocks on  *)
(* it, and Close comes at any moment, twice.                                *)
(***************************************************************************)
EXTENDS WorkerPool, Servers, TLC

CONSTANT Scenes

VARIABLE scene

Symmetry == Permutations(Submission) \cup Permutations(Worker) \cup Permutations(Closer)

MCInit ==
  /\ scene \in Scenes
  /\ Init /\ G!Init /\ H!Init /\ C!Init
  /\ scene # "health" => api = "http" /\ truth = [c \in Check |-> "ok"]

MCNext ==
  \/ scene = "pool" /\ Next /\ UNCHANGED <<scene, grpcVars, httpVars, healthVars>>
  \/ scene = "grpc" /\ G!Next /\ UNCHANGED <<scene, vars, httpVars, healthVars>>
  \/ scene = "http" /\ H!Next /\ UNCHANGED <<scene, vars, grpcVars, healthVars>>
  \/ scene = "health" /\ C!Next /\ UNCHANGED <<scene, vars, grpcVars, httpVars>>

servingVars == <<vars, grpcVars, httpVars, healthVars>>

MCSpec == MCInit /\ [][MCNext]_<<scene, servingVars>>
===============================================================================
