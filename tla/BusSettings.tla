------------------------------- MODULE BusSettings -------------------------------
(***************************************************************************)
(* What the event buses of one application have in common.                  *)
(***************************************************************************)
EXTENDS Naturals

CONSTANTS
  Pooled,        \* the subscriptions that run their handlers on a worker pool
  Workers, QueueCapacity,  \* WithConcurrency: the size of each such pool
  Closer         \* callers of Close

ASSUME PoolAssumption == Workers \in Nat \ {0} /\ QueueCapacity \in Nat
===============================================================================
