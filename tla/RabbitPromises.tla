------------------------------ MODULE RabbitPromises ------------------------------
(***************************************************************************)
(* The implementation of modulex.EventBus on one RabbitMQ channel, with      *)
(* state of its own, and what it promises.                                  *)
(***************************************************************************)
EXTENDS BusSettings, FiniteSets

CONSTANTS RabbitSub, RabbitMsg, MaxErrors, MaxDeadlines

VARIABLES
  rClosed, rActive, rNextStopped, rClosedStopped, rMutex, rQos, rChannel, rConsumer, rStep, rMine,
  rDone, rBroker, rClient, rOutcome, rClosers, rHandlerDone, rPanicked, rErrors, rDeadlines

rabbitVars == <<rClosed, rActive, rNextStopped, rClosedStopped, rMutex, rQos, rChannel, rConsumer,
                rStep, rMine, rDone, rBroker, rClient, rOutcome, rClosers, rHandlerDone, rPanicked,
                rErrors, rDeadlines>>

R == INSTANCE RabbitBus WITH
  Sub <- RabbitSub, Msg <- RabbitMsg,
  closed <- rClosed, active <- rActive, nextStopped <- rNextStopped,
  closedStopped <- rClosedStopped, mutex <- rMutex, qosOwnedByPool <- rQos, channel <- rChannel,
  consumer <- rConsumer, step <- rStep, mine <- rMine, done <- rDone, broker <- rBroker,
  client <- rClient, outcome <- rOutcome, closers <- rClosers, handlerDone <- rHandlerDone,
  panicked <- rPanicked, errors <- rErrors, deadlines <- rDeadlines

ASSUME ChannelAssumption == IsFiniteSet(RabbitSub) /\ R!Unlocked \notin RabbitSub

\* Subscriptions that share one RabbitMQ channel: no stopped channel is closed and
\* no tag cancelled twice, no pool's prefetch reaches another consumer, a delivery
\* is held once and unacknowledged, and only a failed handler drops a message.
RabbitSound ==
  /\ R!RabbitTypeOK
  /\ R!RabbitNoPanic /\ R!RabbitOwnPrefetch /\ R!RabbitResolvedOnce /\ R!RabbitDropsFailed

\* The contract of modulex.EventBus.Close: once a Close call has returned nil no
\* handler runs or starts, however Subscribe, delivery and other Close calls race.
RabbitKeepsContract == R!RabbitCloseSettles
===============================================================================
