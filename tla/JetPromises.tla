------------------------------- MODULE JetPromises -------------------------------
(***************************************************************************)
(* The implementation of modulex.EventBus on durable consumers of JetStream, *)
(* with state of its own, and what it promises.                             *)
(***************************************************************************)
EXTENDS Naturals

CONSTANTS N, Loop, Want, BatchSize, MaxDeliver, Republish, MaxBackoff, Faults, MaxFaults

ASSUME StreamAssumption ==
  {N, BatchSize} \subseteq Nat /\ {MaxDeliver, MaxBackoff} \subseteq Nat \ {0}

VARIABLES
  jStored, jConsumer, jState, jCount, jCopies, jClosed, jDone, jLoop, jCloser, jOrder, jAcks,
  jLapsed, jFaults

jetVars == <<jStored, jConsumer, jState, jCount, jCopies, jClosed, jDone, jLoop, jCloser, jOrder,
             jAcks, jLapsed, jFaults>>

J == INSTANCE JetStream WITH
  stored <- jStored, consumer <- jConsumer, state <- jState, count <- jCount, copies <- jCopies,
  closed <- jClosed, done <- jDone, loop <- jLoop, closer <- jCloser, order <- jOrder,
  acks <- jAcks, lapsed <- jLapsed, faults <- jFaults

\* A durable message is acknowledged only after a handler said so, never vanishes at
\* MaxDeliver without a dead letter while every answer is in time, is copied before it
\* is terminated, and is not overtaken by a later one on its first run; its
\* subscription outlives failing fetches.
JetAccounts ==
  /\ J!JetTypeOK /\ J!JetLoopSurvives
  /\ J!JetAcksHandled /\ J!JetNeverVanishes /\ J!JetTermedIsCopied /\ J!JetInOrder

\* The contract of modulex.EventBus.Close: once the Close call that closed the bus has
\* returned nil no handler runs or starts.  A durable consumer outlives Close calls and
\* later deployments with its starting point unchanged.
JetKeepsContract == J!JetCloseSettles /\ J!JetConsumerKept
===============================================================================
