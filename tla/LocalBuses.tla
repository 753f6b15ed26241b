------------------------------- MODULE LocalBuses -------------------------------
(***************************************************************************)
(* The two implementations of modulex.EventBus without acknowledgements at  *)
(* a broker, core NATS and Watermill, each with state of its own.           *)
(***************************************************************************)
EXTENDS BusSettings, FiniteSets

CONSTANTS Sub, Msg, Buffer

ASSUME FiniteAssumption == IsFiniteSet(Sub) /\ IsFiniteSet(Msg)

VARIABLES
  nClosed, nSubs, nLive, nCancelled, nFeed, nPending, nCallback, nHandled, nClosers,
  wPub, wStep, wSubs, wCtxDone, wStopped, wOutClosed, wPublished, wPlace, wRuns, wOnce, wTaken,
  wClosers, wOvertaken

natsVars == <<nClosed, nSubs, nLive, nCancelled, nFeed, nPending, nCallback, nHandled, nClosers>>
watermillVars == <<wPub, wStep, wSubs, wCtxDone, wStopped, wOutClosed, wPublished, wPlace, wRuns,
                   wOnce, wTaken, wClosers, wOvertaken>>

Nats == INSTANCE NatsBus WITH
  closed <- nClosed, subs <- nSubs, live <- nLive, cancelled <- nCancelled, feed <- nFeed,
  pending <- nPending, callback <- nCallback, handled <- nHandled, closers <- nClosers

W == INSTANCE WatermillBus WITH
  pub <- wPub, step <- wStep, subs <- wSubs, ctxDone <- wCtxDone, stopped <- wStopped,
  outClosed <- wOutClosed, published <- wPublished, place <- wPlace, runs <- wRuns, once <- wOnce,
  taken <- wTaken, closers <- wClosers, overtaken <- wOvertaken

(***************************************************************************)
(* Properties.  Each bus keeps its own; here they are by what they promise. *)
(***************************************************************************)
\* A NATS subscription handles its messages in the order they were published, a
\* Watermill subscription handles none twice and, when its loop has ended, has acked
\* or nacked all it received.  (This has the types of the two modules with it.)
LocalBusesDeliver ==
  /\ Nats!NatsTypeOK /\ W!WatermillTypeOK
  /\ Nats!NatsInOrder /\ W!WatermillAtMostOnce /\ W!WatermillResolves

\* Both keep the contract of modulex.EventBus.Close: once a Close call has returned
\* nil no handler runs or starts, however Subscribe, delivery and other Close calls
\* race with it (Watermill: unless Close overtook the Subscribe call; NATS: the call
\* that closed the bus).
LocalBusesKeepContract == Nats!NatsCloseSettles /\ W!WatermillCloseSettles
===============================================================================
