-------------------------------- MODULE MCLive --------------------------------
(***************************************************************************)
(* What must happen in the end, under fairness: the pool and the servers of *)
(* MCServing, the event buses of MCBuses and the review service of MCReview *)
(* on small instances.  An initial state picks one.                         *)
(***************************************************************************)
EXTENDS MCServing

CONSTANTS plain, pooled, msg, JetFaults
CONSTANTS reviewer, MaxPush, WorkerFaults, Client, b1, i1, webhook, Nobody, Orphan

VARIABLES
  nClosed, nSubs, nLive, nCancelled, nFeed, nPending, nCallback, nHandled, nClosers,
  wPub, wStep, wSubs, wCtxDone, wStopped, wOutClosed, wPublished, wPlace, wRuns, wOnce, wTaken,
  wClosers, wOvertaken,
  rClosed, rActive, rNextStopped, rClosedStopped, rMutex, rQos, rChannel, rConsumer, rStep, rMine,
  rDone, rBroker, rClient, rOutcome, rClosers, rHandlerDone, rPanicked, rErrors, rDeadlines,
  jStored, jConsumer, jState, jCount, jCopies, jClosed, jDone, jLoop, jCloser, jOrder, jAcks,
  jLapsed, jFaults

VARIABLES
  head, tasks, job, wk, comments, ledger, faults, regressed,
  backend, op, doc, lock, tx, out, errors,
  clock, dedup, counts, lastSweep, calls, acked, queued, granted, dropped, intakeFaults

natsVars == <<nClosed, nSubs, nLive, nCancelled, nFeed, nPending, nCallback, nHandled, nClosers>>
watermillVars == <<wPub, wStep, wSubs, wCtxDone, wStopped, wOutClosed, wPublished, wPlace, wRuns,
                   wOnce, wTaken, wClosers, wOvertaken>>
rabbitVars == <<rClosed, rActive, rNextStopped, rClosedStopped, rMutex, rQos, rChannel, rConsumer,
                rStep, rMine, rDone, rBroker, rClient, rOutcome, rClosers, rHandlerDone, rPanicked,
                rErrors, rDeadlines>>
jetVars == <<jStored, jConsumer, jState, jCount, jCopies, jClosed, jDone, jLoop, jCloser, jOrder,
             jAcks, jLapsed, jFaults>>
busVars == <<natsVars, watermillVars, rabbitVars, jetVars>>

workVars == <<head, tasks, job, wk, comments, ledger, faults, regressed>>
txnVars == <<backend, op, doc, lock, tx, out, errors>>
intakeVars == <<clock, dedup, counts, lastSweep, calls, acked, queued, granted, dropped, intakeFaults>>
reviewVars == <<workVars, txnVars, intakeVars>>

B == INSTANCE MCBuses WITH
  Sub <- {plain, pooled}, Pooled <- {pooled}, Msg <- {msg}, Buffer <- 1, Workers <- 1,
  RabbitSub <- {pooled}, RabbitMsg <- {msg}, MaxErrors <- 1, MaxDeadlines <- 1,
  N <- 1, Loop <- {plain}, Want <- [l \in {plain} |-> [policy |-> "all", conf |-> 1]],
  BatchSize <- 2, MaxDeliver <- 2, Republish <- TRUE, MaxBackoff <- 2,
  Faults <- JetFaults, MaxFaults <- 1
V == INSTANCE MCReview WITH
  Worker <- reviewer, MaxFaults <- 1, MaxAttempts <- 2, MaxErrors <- 2,
  b2 <- b1, b3 <- b1, b4 <- b1, i2 <- i1, Webhook <- {webhook},
  Body <- {b1}, Reviewed <- {b1}, Inst <- {i1}, InstOf <- [b \in {b1} |-> i1],
  Limit <- 1, Window <- 2, DedupTTL <- 2, MaxTime <- 2, IntakeFaults <- {}

LiveInit == MCInit /\ B!Start /\ V!Start

Serve == MCNext /\ UNCHANGED <<busVars, reviewVars>>
Bus == B!Next /\ UNCHANGED <<servingVars, reviewVars>>
Service == V!Next /\ UNCHANGED <<servingVars, busVars>>

all == <<scene, servingVars, busVars, reviewVars>>

\* A step of the component that the scene is about.
PoolStep(A) == scene = "pool" /\ A /\ UNCHANGED <<scene, grpcVars, httpVars, healthVars, busVars, reviewVars>>
Grpc(A) == scene = "grpc" /\ A /\ UNCHANGED <<scene, vars, httpVars, healthVars, busVars, reviewVars>>
Http(A) == scene = "http" /\ A /\ UNCHANGED <<scene, vars, grpcVars, healthVars, busVars, reviewVars>>
Health(A) == scene = "health" /\ A /\ UNCHANGED <<scene, vars, grpcVars, httpVars, busVars, reviewVars>>
Others == UNCHANGED <<scene, servingVars, reviewVars>>
Nats(A) == scene = "nats" /\ A /\ Others /\ UNCHANGED <<watermillVars, rabbitVars, jetVars>>
Watermill(A) ==
  /\ scene \in {"watermill plain", "watermill pooled"}
  /\ A /\ Others /\ UNCHANGED <<natsVars, rabbitVars, jetVars>>
Rabbit(A) == scene = "rabbit" /\ A /\ Others /\ UNCHANGED <<natsVars, watermillVars, jetVars>>
Jet(A) == scene = "jetstream" /\ A /\ Others /\ UNCHANGED <<natsVars, watermillVars, rabbitVars>>
Work(A) == scene = "worker" /\ A /\ UNCHANGED <<scene, servingVars, busVars, txnVars, intakeVars>>
Txn(A) == scene = "txn" /\ A /\ UNCHANGED <<scene, servingVars, busVars, workVars, intakeVars>>

LiveFairness ==
  /\ \A s \in Submission : WF_all(PoolStep(SubmitStep(s)))
  /\ \A w \in Worker : WF_all(PoolStep(WorkerStep(w)))
  /\ WF_all(PoolStep(DrainStep))
  /\ WF_all(Grpc(G!Serving)) /\ WF_all(Grpc(G!Shutdown)) /\ \A r \in Rpc : WF_all(Grpc(G!RpcAborts(r)))
  /\ WF_all(Http(H!Task)) /\ WF_all(Http(H!Server))
  /\ WF_all(Health(C!Step))
  /\ \A s \in {plain, pooled} :
       /\ WF_all(Nats(B!Nats!Callback(s)))
       /\ WF_all(Watermill(B!W!ConsumeLoop(s))) /\ WF_all(Watermill(B!W!Work(s)))
       /\ WF_all(Watermill(B!W!CloseChannel(s))) /\ WF_all(Watermill(B!W!Sending(s)))
  /\ \A s \in {pooled} :
       /\ WF_all(Rabbit(B!R!ConsumeLoop(s))) /\ SF_all(Rabbit(B!R!Stop(s)))
       /\ WF_all(Rabbit(B!R!Work(s))) /\ WF_all(Rabbit(B!R!Delivery(s)))
  /\ \A s \in {plain} :
       /\ WF_all(Jet(B!J!Call(s))) /\ WF_all(Jet(B!J!Stop(s))) /\ WF_all(Jet(B!J!Fetch(s)))
       /\ WF_all(Jet(B!J!HandleDurableMessage(s))) /\ WF_all(Jet(B!J!DeadLetter(s)))
  /\ \A c \in Closer : WF_all(Watermill(B!W!Close(c))) /\ WF_all(Rabbit(B!R!CloseReturns(c)))
  /\ WF_all(Jet(B!J!CloseReturns))
  /\ WF_all(Jet(~B!J!Held(1) /\ B!J!AckWaitExpires(1)))
  /\ \A w \in reviewer : WF_all(Work(V!W!Step(w)))
  /\ WF_all(Work(\E w \in reviewer, t \in DOMAIN tasks : ~V!W!InFlight(t) /\ V!W!Deliver(w, t)))
  /\ \A c \in Client : WF_all(Txn(V!T!Step(c)))

LiveSpec == LiveInit /\ [][Serve \/ Bus \/ Service]_all /\ LiveFairness

(***************************************************************************)
(* Properties.                                                             *)
(***************************************************************************)
\* What serves comes to an end when told, and to the truth before: accepted tasks
\* finish, a closed pool drains, Stop of the gRPC server returns, the HTTP task returns
\* whatever requests hang, and a Watch stream comes to say what the checks say.
ServingSettles ==
  /\ AcceptedFinishes /\ CloseCompletes /\ G!GrpcStopEnds /\ H!HttpStops
  /\ scene = "health" => C!WatchConverges

\* The loop of every subscription whose context or bus ends does end, one that waits
\* for room in a full pool included.
SubscriptionsEnd == B!W!WatermillLoopsEnd /\ B!R!RabbitLoopsEnd

\* While a subscription runs, a message sent to it is handled (NATS, Watermill), acknowledged
\* or dropped (RabbitMQ), or acknowledged, terminated or used up (JetStream).
MessagesResolve ==
  B!Nats!NatsDelivers /\ B!W!WatermillDelivers /\ B!R!RabbitDelivers /\ B!J!JetResolves

\* Reviews, follow-ups and retries come to an end once pushes and faults stop, and no
\* store call waits for ever for the advisory lock or a quiet document.
ReviewSettles == V!W!QueueDrains /\ (scene = "txn" => V!T!CallsReturn)
===============================================================================
