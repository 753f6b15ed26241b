------------------------------ MODULE RabbitProofs ------------------------------
(***************************************************************************)
(* Proofs about the subscriptions that share a RabbitMQ channel, for any of *)
(* them and any messages: the stopped channels and tags, the prefetch, the  *)
(* place of every delivery, and what Close promises.                        *)
(***************************************************************************)
EXTENDS RabbitPromises, TLAPS

(***************************************************************************)
(* RabbitBus.                                                              *)
(***************************************************************************)
Steps == {"new", "refused", "mutex", "qos", "consume", "register", "loop", "handle", "submit",
          "leave", "drain", "count", "end"}
Places == {"none", "chan", "held", "pool", "run"}
InLoop == {"loop", "handle", "submit", "leave", "drain", "count"}

RTypes ==
  /\ {rClosed, rQos, rHandlerDone} \subseteq BOOLEAN /\ rMutex \in RabbitSub \cup {R!Unlocked}
  /\ rChannel \in [alive : BOOLEAN, prefetch : Nat]
  /\ rConsumer \in [RabbitSub -> [state : {"none", "live", "cancelled"}, prefetch : Nat]]
  /\ rStep \in [RabbitSub -> Steps] /\ rMine \in [RabbitSub -> Nat]
  /\ rBroker \in [RabbitMsg -> {"none", "ready", "unacked", "acked", "dropped"}]
  /\ rClient \in [RabbitSub -> [RabbitMsg -> Places]]
  /\ rOutcome \in [RabbitMsg -> {"none", "ok", "error", "panic", "ended", "deadline"}]
  /\ rClosers \in [Closer -> [step : {"idle", "again", "wait", "nil", "late"}, stopped : Nat]]
  /\ rNextStopped \in Nat

\* consumeMu is held by the one call between Qos and Consume, which finds the prefetch
\* it asked for on the channel; a tag is live from there until its loop cancels it.
RSetupAt(s) ==
  /\ rStep[s] \in {"qos", "consume"} => rMutex = s
  /\ rStep[s] = "consume" => rChannel.prefetch = R!Prefetch(s)
  /\ rStep[s] \in {"register", "loop", "handle", "submit", "leave"} => rConsumer[s].state = "live"
  /\ rConsumer[s].state = "live" => rConsumer[s].prefetch = R!Prefetch(s)

RSetupInv == (rQos \/ rChannel.prefetch = 0) /\ \A s \in RabbitSub : RSetupAt(s)

\* The loops that run share one stopped channel, the last one made and not yet closed; a
\* Close call waits for that one, and no loop begins after it.
RStopInv ==
  /\ rActive = Cardinality(R!Looping) /\ rClosedStopped \subseteq 0 .. rNextStopped
  /\ \A s \in R!Looping : rMine[s] = rNextStopped
  /\ R!Looping # {} => rNextStopped \notin rClosedStopped
  /\ \A c \in Closer : rClosers[c].step \in {"wait", "nil", "late"} =>
                         rClosed /\ rClosers[c].stopped = rNextStopped
  /\ \A c \in Closer : rClosers[c].step = "nil" => rNextStopped \in rClosedStopped

\* Where a delivery is says where the loop of its subscription stands.
RPlaceAt(s, m) ==
  /\ rClient[s][m] = "held" => rStep[s] = "submit"
  /\ rClient[s][m] = "pool" => s \in Pooled /\ rStep[s] \in {"loop", "submit", "leave", "drain"}
  /\ rClient[s][m] = "run" => IF s \in Pooled THEN rStep[s] \in {"loop", "submit", "leave", "drain"}
                              ELSE rStep[s] = "handle"

RHandAt(s) ==
  /\ rStep[s] = "handle" => s \notin Pooled
  /\ rStep[s] = "submit" => s \in Pooled
  /\ \A m, n \in RabbitMsg : rClient[s][m] = "held" /\ rClient[s][n] = "held" => m = n
  /\ s \notin Pooled =>
       \A m, n \in RabbitMsg : rClient[s][m] = "run" /\ rClient[s][n] = "run" => m = n

RPlaceInv == \A s \in RabbitSub : RHandAt(s) /\ \A m \in RabbitMsg : RPlaceAt(s, m)

\* What a consumer holds is unacknowledged and held by it alone while the channel lives,
\* and back in the queue after that; it is never one that the broker has dropped.
RHoldAt(s, m) ==
  rClient[s][m] # "none" =>
    /\ rBroker[m] \in {"ready", "unacked"}
    /\ rChannel.alive => rBroker[m] = "unacked" /\ \A t \in RabbitSub \ {s} : rClient[t][m] = "none"

RHoldInv ==
  /\ \A s \in RabbitSub, m \in RabbitMsg : RHoldAt(s, m)
  /\ \A m \in RabbitMsg : rBroker[m] = "dropped" => rOutcome[m] \in {"error", "panic"}

RInv == RTypes /\ RSetupInv /\ RStopInv /\ RPlaceInv /\ RHoldInv /\ ~rPanicked

-----------------------------------------------------------------------------
(***************************************************************************)
(* What a step does to the loops, the deliveries and the queue.             *)
(***************************************************************************)
Went(s, y) == \A t \in RabbitSub : rStep'[t] = IF t = s THEN y ELSE rStep[t]
Moved(s, m, y) ==
  \A t \in RabbitSub, n \in RabbitMsg :
    rClient'[t][n] = IF t = s /\ n = m THEN y ELSE rClient[t][n]
Marked(m, y) == \A n \in RabbitMsg : rBroker'[n] = IF n = m THEN y ELSE rBroker[n]

Still == UNCHANGED <<rStep, rClient, rBroker, rOutcome, rChannel>>

Advances(s) ==
  /\ UNCHANGED <<rClient, rBroker, rOutcome>> /\ rChannel'.alive = rChannel.alive
  /\ \E y \in Steps \ {"handle", "submit"} : Went(s, y)
  /\ \/ rStep[s] \notin InLoop \/ rStep[s] = "count"
     \/ rStep[s] = "loop" /\ Went(s, "leave")
     \/ rStep[s] = "leave" /\ Went(s, "drain")
     \/ rStep[s] = "drain" /\ \A m \in RabbitMsg : rClient[s][m] \notin {"pool", "run"}

Publishes(m) ==
  rBroker[m] = "none" /\ Marked(m, "ready") /\ UNCHANGED <<rStep, rClient, rOutcome, rChannel>>

Delivers(s, m) ==
  /\ rChannel.alive /\ rBroker[m] = "ready" /\ rClient[s][m] = "none"
  /\ Marked(m, "unacked") /\ Moved(s, m, "chan") /\ UNCHANGED <<rStep, rOutcome, rChannel>>

Dies ==
  /\ ~rChannel'.alive /\ UNCHANGED <<rStep, rClient, rOutcome>>
  /\ \A m \in RabbitMsg : rBroker'[m] = IF rBroker[m] = "unacked" THEN "ready" ELSE rBroker[m]

\* A delivery goes to the loop, the pool or a handler.
Passes(s, m, from, to, next) ==
  /\ rClient[s][m] = from /\ Moved(s, m, to) /\ Went(s, next)
  /\ UNCHANGED <<rBroker, rOutcome, rChannel>>

Hands(s, m) ==
  \/ rStep[s] = "loop" /\ s \in Pooled /\ Passes(s, m, "chan", "held", "submit")
  \/ rStep[s] = "submit" /\ Passes(s, m, "held", "pool", "loop")

Starts(s, m) ==
  \/ rStep[s] = "loop" /\ s \notin Pooled /\ Passes(s, m, "chan", "run", "handle")
  \/ rStep[s] = "submit" /\ Passes(s, m, "held", "run", "loop")
  \/ Passes(s, m, "pool", "run", rStep[s])

\* A delivery is acknowledged or not, and the queue knows while the channel lives.
Answers(s, m, to) ==
  /\ Moved(s, m, "none") /\ UNCHANGED rChannel
  /\ (rChannel.alive /\ Marked(m, to)) \/ (~rChannel.alive /\ UNCHANGED rBroker)

Rejects(s, m) ==
  /\ rStep[s] = "submit" /\ rClient[s][m] = "held" /\ Went(s, "loop")
  /\ Answers(s, m, "ready") /\ UNCHANGED rOutcome

Ends(s, m) ==
  /\ rClient[s][m] = "run" /\ Went(s, IF s \in Pooled THEN rStep[s] ELSE "loop")
  /\ \E result \in {"ok", "error", "panic", "ended", "deadline"} :
       /\ \A n \in RabbitMsg : rOutcome'[n] = IF n = m THEN result ELSE rOutcome[n]
       /\ Answers(s, m, R!Resolution(result))

REffect ==
  \/ Still \/ Dies
  \/ \E m \in RabbitMsg : Publishes(m)
  \/ \E s \in RabbitSub : Advances(s)
  \/ \E s \in RabbitSub, m \in RabbitMsg :
       Delivers(s, m) \/ Hands(s, m) \/ Starts(s, m) \/ Rejects(s, m) \/ Ends(s, m)

\* A loop that goes to a step is there, and no other loop goes anywhere.
LEMMA GotoWent == ASSUME RTypes, NEW s \in RabbitSub, NEW y, R!Goto(s, y) PROVE Went(s, y)
  BY Zenon DEF RTypes, R!Goto, Went

\* A step that leaves the loops leaves each where it was.
LEMMA SameWent == ASSUME NEW s \in RabbitSub, UNCHANGED rStep PROVE Went(s, rStep[s])
  BY Zenon DEF Went

\* One delivery to one subscription moves.
LEMMA MoveMoved ==
  ASSUME RTypes, NEW s \in RabbitSub, NEW m \in RabbitMsg, NEW y, R!Move(s, m, y)
  PROVE  Moved(s, m, y)
  BY Zenon DEF RTypes, R!Move, Moved

\* The broker learns of one message.
LEMMA MarkMarked ==
  ASSUME RTypes, NEW m \in RabbitMsg, NEW y, rBroker' = [rBroker EXCEPT ![m] = y]
  PROVE  Marked(m, y)
  BY Zenon DEF RTypes, Marked

\* Ack and Nack answer a delivery.
LEMMA ResolveAnswers ==
  ASSUME RTypes, NEW s \in RabbitSub, NEW m \in RabbitMsg, NEW to, R!Resolve(s, m, to),
         UNCHANGED rChannel
  PROVE  Answers(s, m, to)
<1>1. Moved(s, m, "none")
  BY MoveMoved, Zenon DEF R!Resolve
<1>2. CASE rChannel.alive
  <2>1. rBroker' = [rBroker EXCEPT ![m] = to]
    BY <1>2, Zenon DEF R!Resolve
  <2> QED
    BY <1>1, <1>2, <2>1, MarkMarked, Zenon DEF Answers
<1>3. CASE ~rChannel.alive
  BY <1>1, <1>3, Zenon DEF R!Resolve, Answers
<1> QED
  BY <1>2, <1>3, Zenon

\* The steps of subscribe and the loop's own, which touch no delivery.
LEMMA CallAdvances ==
  ASSUME RTypes, NEW s \in RabbitSub,
         R!Call(s) \/ R!Stop(s) \/ R!Leave(s) \/ R!Drain(s) \/ R!CountDown(s)
  PROVE  Advances(s)
<1> USE DEF R!At, R!Calling, R!Frame, R!setup, R!msgVars, R!Refuse
<1> DEFINE Quiet == UNCHANGED <<rClient, rBroker, rOutcome>> /\ rChannel'.alive = rChannel.alive
<1>1. ASSUME R!Declare(s) PROVE Quiet /\ rStep[s] = "new" /\ \E y \in {"refused", "mutex"} : R!Goto(s, y)
  BY <1>1, Zenon DEF R!Declare
<1>2. ASSUME R!LockConsume(s) PROVE Quiet /\ rStep[s] = "mutex" /\ \E y \in {"refused", "qos"} : R!Goto(s, y)
  BY <1>2, Zenon DEF R!LockConsume
<1>3. ASSUME R!Qos(s) PROVE Quiet /\ rStep[s] = "qos" /\ \E y \in {"refused", "consume"} : R!Goto(s, y)
  BY <1>3, Zenon DEF R!Qos, RTypes
<1>4. ASSUME R!Consume(s)
      PROVE  Quiet /\ rStep[s] = "consume" /\ \E y \in {"refused", "register"} : R!Goto(s, y)
  BY <1>4, Zenon DEF R!Consume
<1>5. ASSUME R!Register(s) PROVE Quiet /\ rStep[s] = "register" /\ \E y \in {"refused", "loop"} : R!Goto(s, y)
  BY <1>5, Zenon DEF R!Register
<1>6. ASSUME R!Stop(s) PROVE Quiet /\ rStep[s] = "loop" /\ R!Goto(s, "leave")
  BY <1>6, Zenon DEF R!Stop
<1>7. ASSUME R!Leave(s) PROVE Quiet /\ rStep[s] = "leave" /\ R!Goto(s, "drain")
  BY <1>7, Zenon DEF R!Leave
<1>8. ASSUME R!Drain(s)
      PROVE  /\ Quiet /\ rStep[s] = "drain" /\ R!Goto(s, "count")
             /\ \A m \in RabbitMsg : rClient[s][m] \notin {"pool", "run"}
  BY <1>8, Zenon DEF R!Drain, R!In
<1>9. ASSUME R!CountDown(s) PROVE Quiet /\ rStep[s] = "count" /\ R!Goto(s, "end")
  BY <1>9, Zenon DEF R!CountDown
<1>10. {"refused", "mutex", "qos", "consume", "register", "loop", "leave", "drain", "count", "end"}
         \subseteq Steps \ {"handle", "submit"}
  BY Zenon DEF Steps
<1>11. ASSUME Quiet, rStep[s] \notin InLoop \/ rStep[s] = "count",
              NEW y \in Steps \ {"handle", "submit"}, R!Goto(s, y)
       PROVE  Advances(s)
  BY <1>11, GotoWent, Zenon DEF Advances
<1>12. CASE R!Call(s)
  <2> HIDE DEF Quiet
  <2> QED
    BY <1>1, <1>2, <1>3, <1>4, <1>5, <1>10, <1>11, <1>12, Zenon DEF R!Call, InLoop
<1>13. CASE R!Stop(s)
  BY <1>6, <1>10, <1>13, GotoWent, Zenon DEF Advances
<1>14. CASE R!Leave(s)
  BY <1>7, <1>10, <1>14, GotoWent, Zenon DEF Advances
<1>15. CASE R!Drain(s)
  BY <1>8, <1>10, <1>15, GotoWent, Zenon DEF Advances
<1>16. CASE R!CountDown(s)
  BY <1>9, <1>10, <1>11, <1>16, Zenon
<1> QED
  BY <1>12, <1>13, <1>14, <1>15, <1>16, Zenon

\* A loop receives: it leaves, hands the delivery on or runs its handler.
LEMMA ReceiveEffect ==
  ASSUME RTypes, NEW s \in RabbitSub, R!Receive(s)
  PROVE  Advances(s) \/ \E m \in RabbitMsg : Hands(s, m) \/ Starts(s, m)
<1> USE DEF R!At, R!Frame, R!setup
<1>1. rStep[s] = "loop" /\ UNCHANGED <<rBroker, rOutcome, rChannel>>
  BY Zenon DEF R!Receive
<1>2. CASE R!Goto(s, "leave") /\ UNCHANGED rClient
  BY <1>1, <1>2, GotoWent, Zenon DEF Advances, Steps
<1>3. ASSUME NEW m \in R!In(s, "chan"), s \in Pooled, R!Move(s, m, "held"), R!Goto(s, "submit")
      PROVE  m \in RabbitMsg /\ Hands(s, m)
  BY <1>1, <1>3, GotoWent, MoveMoved, Zenon DEF Hands, Passes, R!In
<1>4. ASSUME NEW m \in R!In(s, "chan"), s \notin Pooled, R!Move(s, m, "run"), R!Goto(s, "handle")
      PROVE  m \in RabbitMsg /\ Starts(s, m)
  BY <1>1, <1>4, GotoWent, MoveMoved, Zenon DEF Starts, Passes, R!In
<1> QED
  BY <1>2, <1>3, <1>4, Zenon DEF R!Receive

\* A loop submits: the pool takes the delivery, or it is rejected.
LEMMA SubmitEffect ==
  ASSUME RTypes, NEW s \in RabbitSub, R!SubmitDelivery(s)
  PROVE  \E m \in RabbitMsg : Hands(s, m) \/ Starts(s, m) \/ Rejects(s, m)
<1> USE DEF R!At, R!Frame, R!setup
<1>1. rStep[s] = "submit" /\ Went(s, "loop") /\ UNCHANGED <<rOutcome, rChannel>>
  BY GotoWent, Zenon DEF R!SubmitDelivery
<1>2. PICK m \in R!In(s, "held") :
        \/ R!Move(s, m, "pool") /\ UNCHANGED rBroker
        \/ R!Move(s, m, "run") /\ UNCHANGED rBroker
        \/ R!Resolve(s, m, "ready")
  BY Zenon DEF R!SubmitDelivery
<1>3. m \in RabbitMsg /\ rClient[s][m] = "held"
  BY Zenon DEF R!In
<1>4. CASE R!Move(s, m, "pool") /\ UNCHANGED rBroker
  BY <1>1, <1>3, <1>4, MoveMoved, Zenon DEF Hands, Passes
<1>5. CASE R!Move(s, m, "run") /\ UNCHANGED rBroker
  BY <1>1, <1>3, <1>5, MoveMoved, Zenon DEF Starts, Passes
<1>6. CASE R!Resolve(s, m, "ready")
  BY <1>1, <1>3, <1>6, ResolveAnswers, Zenon DEF Rejects
<1> QED
  BY <1>2, <1>3, <1>4, <1>5, <1>6, Zenon

\* A handler ends.
LEMMA HandlerEffect ==
  ASSUME RTypes, NEW s \in RabbitSub, NEW m \in RabbitMsg, R!HandlerEnds(s, m)
  PROVE  Ends(s, m)
<1> USE DEF R!Frame, R!setup
<1>1. rClient[s][m] = "run" /\ UNCHANGED rChannel
  BY Zenon DEF R!HandlerEnds
<1>2. Went(s, IF s \in Pooled THEN rStep[s] ELSE "loop")
  BY GotoWent, SameWent, Zenon DEF R!HandlerEnds
<1>3. PICK result \in {"ok", "error", "panic", "ended", "deadline"} :
        rOutcome' = [rOutcome EXCEPT ![m] = result] /\ R!Resolve(s, m, R!Resolution(result))
  BY Zenon DEF R!HandlerEnds
<1>4. \A n \in RabbitMsg : rOutcome'[n] = IF n = m THEN result ELSE rOutcome[n]
  BY <1>3, Zenon DEF RTypes
<1>5. Answers(s, m, R!Resolution(result))
  BY <1>1, <1>3, ResolveAnswers, Zenon
<1> QED
  BY <1>1, <1>2, <1>4, <1>5, Zenon DEF Ends

\* Every step has one of these effects.
LEMMA REffects == RTypes /\ [R!Next]_R!vars => REffect
<1> SUFFICES ASSUME RTypes, [R!Next]_R!vars PROVE REffect
  BY Zenon
<1> USE DEF R!Frame, R!setup, R!msgVars, R!closeVars, R!busState
<1>1. ASSUME NEW m \in RabbitMsg, R!Publish(m) PROVE Publishes(m)
  BY <1>1, MarkMarked, Zenon DEF R!Publish, Publishes
<1>2. ASSUME NEW s \in RabbitSub, NEW m \in RabbitMsg, R!Deliver(s, m) PROVE Delivers(s, m)
  BY <1>2, MarkMarked, MoveMoved, Zenon DEF R!Deliver, Delivers
<1>3. ASSUME R!ChannelDies PROVE Dies
  BY <1>3, Zenon DEF R!ChannelDies, Dies, RTypes
<1>4. ASSUME NEW s \in RabbitSub, NEW m \in RabbitMsg, R!WorkerStarts(s, m) PROVE Starts(s, m)
  BY <1>4, SameWent, MoveMoved, Zenon DEF R!WorkerStarts, Starts, Passes
<1>5. ASSUME NEW s \in RabbitSub, R!CallerCancels(s) PROVE Still
  BY <1>5, Zenon DEF R!CallerCancels, Still
<1>6. ASSUME NEW c \in Closer, R!CloseBegins(c) \/ R!CloseReturns(c) PROVE Still
  BY <1>6, Zenon DEF R!CloseBegins, R!CloseReturns, Still
<1>7. CASE UNCHANGED R!vars
  BY <1>7, Zenon DEF R!vars, Still, REffect
<1>8. ASSUME NEW s \in RabbitSub, R!ConsumeLoop(s) PROVE REffect
  BY <1>8, CallAdvances, ReceiveEffect, SubmitEffect, Zenon DEF R!ConsumeLoop, REffect
<1>9. ASSUME NEW s \in RabbitSub, R!Delivery(s) \/ R!Work(s) PROVE REffect
  BY <1>2, <1>4, <1>9, HandlerEffect, Zenon DEF R!Delivery, R!Work, REffect
<1>10. CASE R!Next
  BY <1>1, <1>3, <1>5, <1>6, <1>8, <1>9, <1>10, Zenon DEF R!Next, REffect
<1> QED
  BY <1>7, <1>10, Zenon

-----------------------------------------------------------------------------
(***************************************************************************)
(* Deliveries.                                                             *)
(***************************************************************************)
\* A delivery goes on, with the loop of its subscription.
Turns(s, m, from, to, next) == rClient[s][m] = from /\ Moved(s, m, to) /\ Went(s, next)

\* The eight ways for a delivery to go on.
Turn(s, m) ==
  \/ Turns(s, m, "none", "chan", rStep[s])
  \/ rStep[s] = "loop" /\ s \in Pooled /\ Turns(s, m, "chan", "held", "submit")
  \/ rStep[s] = "loop" /\ s \notin Pooled /\ Turns(s, m, "chan", "run", "handle")
  \/ rStep[s] = "submit" /\ \E y \in {"pool", "run", "none"} : Turns(s, m, "held", y, "loop")
  \/ Turns(s, m, "pool", "run", rStep[s])
  \/ s \in Pooled /\ Turns(s, m, "run", "none", rStep[s])
  \/ s \notin Pooled /\ Turns(s, m, "run", "none", "loop")

\* What happens to a delivery is one of them.
LEMMA EffectTurns ==
  ASSUME NEW s \in RabbitSub, NEW m \in RabbitMsg,
         Delivers(s, m) \/ Hands(s, m) \/ Starts(s, m) \/ Rejects(s, m) \/ Ends(s, m)
  PROVE  Turn(s, m)
<1>1. ASSUME Delivers(s, m) PROVE Turn(s, m)
  BY <1>1, SameWent, Zenon DEF Delivers, Turn, Turns
<1>2. ASSUME Hands(s, m) \/ Starts(s, m) PROVE Turn(s, m)
  BY <1>2, Zenon DEF Hands, Starts, Passes, Turn, Turns
<1>3. ASSUME Rejects(s, m) PROVE Turn(s, m)
  BY <1>3, Zenon DEF Rejects, Answers, Turn, Turns
<1>4. ASSUME Ends(s, m) PROVE Turn(s, m)
  BY <1>4, Zenon DEF Ends, Answers, Turn, Turns
<1> QED
  BY <1>1, <1>2, <1>3, <1>4, Zenon

\* A delivery that goes on leaves its subscription in order.
LEMMA TurnKeeps ==
  ASSUME RPlaceInv, NEW s \in RabbitSub, NEW m \in RabbitMsg, Turn(s, m)
  PROVE  RPlaceInv'
<1> SUFFICES ASSUME NEW t \in RabbitSub PROVE RHandAt(t)' /\ \A n \in RabbitMsg : RPlaceAt(t, n)'
  BY Zenon DEF RPlaceInv
<1>1. RHandAt(t) /\ \A n \in RabbitMsg : RPlaceAt(t, n)
  BY Zenon DEF RPlaceInv
<1>2. PICK from, to, next : Turns(s, m, from, to, next)
  BY Zenon DEF Turn
<1>3. CASE s # t
  <2>1. rStep'[t] = rStep[t] /\ \A n \in RabbitMsg : rClient'[t][n] = rClient[t][n]
    BY <1>2, <1>3, Zenon DEF Turns, Moved, Went
  <2> QED
    BY <1>1, <2>1, Zenon DEF RHandAt, RPlaceAt
<1>4. CASE s = t
  <2>1. \A n \in RabbitMsg : n # m => rClient'[t][n] = rClient[t][n]
    BY <1>2, <1>4, Zenon DEF Turns, Moved
  <2>2. \/ rClient[t][m] = "none" /\ rClient'[t][m] = "chan" /\ rStep'[t] = rStep[t]
        \/ /\ rStep[t] = "loop" /\ t \in Pooled
           /\ rClient[t][m] = "chan" /\ rClient'[t][m] = "held" /\ rStep'[t] = "submit"
        \/ /\ rStep[t] = "loop" /\ t \notin Pooled
           /\ rClient[t][m] = "chan" /\ rClient'[t][m] = "run" /\ rStep'[t] = "handle"
        \/ /\ rStep[t] = "submit" /\ rClient[t][m] = "held"
           /\ rClient'[t][m] \in {"pool", "run", "none"} /\ rStep'[t] = "loop"
        \/ rClient[t][m] = "pool" /\ rClient'[t][m] = "run" /\ rStep'[t] = rStep[t]
        \/ t \in Pooled /\ rClient[t][m] = "run" /\ rClient'[t][m] = "none" /\ rStep'[t] = rStep[t]
        \/ t \notin Pooled /\ rClient[t][m] = "run" /\ rClient'[t][m] = "none" /\ rStep'[t] = "loop"
    BY <1>4, Zenon DEF Turn, Turns, Moved, Went
  <2>3. RPlaceAt(t, m)'
    BY <1>1, <2>2, Zenon DEF RPlaceAt, RHandAt
  <2>4. ASSUME NEW n \in RabbitMsg, n # m PROVE RPlaceAt(t, n)'
    <3>1. RPlaceAt(t, n) /\ RPlaceAt(t, m) /\ rClient'[t][n] = rClient[t][n]
      BY <1>1, <2>1, <2>4, Zenon
    <3>2. /\ rClient[t][m] = "held" => rClient[t][n] # "held"
          /\ t \notin Pooled /\ rClient[t][m] = "run" => rClient[t][n] # "run"
          /\ rStep[t] = "handle" => t \notin Pooled
          /\ rStep[t] = "submit" => t \in Pooled
      BY <1>1, <2>4, Zenon DEF RHandAt
    <3> QED
      BY <2>2, <3>1, <3>2, Zenon DEF RPlaceAt
  <2>5. RHandAt(t)'
    <3>1. (rStep'[t] = "handle" => t \notin Pooled) /\ (rStep'[t] = "submit" => t \in Pooled)
      BY <1>1, <2>2, Zenon DEF RHandAt
    <3>2. ASSUME NEW n \in RabbitMsg, n # m, rClient'[t][n] = "held" PROVE rClient'[t][m] # "held"
      BY <1>1, <2>1, <2>2, <3>2, Zenon DEF RHandAt, RPlaceAt
    <3>3. ASSUME NEW n \in RabbitMsg, n # m, rClient'[t][n] = "run", t \notin Pooled
          PROVE  rClient'[t][m] # "run"
      BY <1>1, <2>1, <2>2, <3>3, Zenon DEF RHandAt, RPlaceAt
    <3>4. \A n, k \in RabbitMsg : n # m /\ k # m =>
            /\ rClient'[t][n] = "held" /\ rClient'[t][k] = "held" => n = k
            /\ t \notin Pooled /\ rClient'[t][n] = "run" /\ rClient'[t][k] = "run" => n = k
      BY <1>1, <2>1, Zenon DEF RHandAt
    <3> QED
      BY <3>1, <3>2, <3>3, <3>4, Zenon DEF RHandAt
  <2> QED
    BY <2>3, <2>4, <2>5, Zenon
<1> QED
  BY <1>3, <1>4, Zenon

\* Every step keeps deliveries and loops true to one another.
LEMMA RPlaceNext == ASSUME RTypes, RPlaceInv, REffect PROVE RPlaceInv'
<1>1. CASE UNCHANGED <<rStep, rClient>>
  BY <1>1 DEF RPlaceInv, RHandAt, RPlaceAt
<1>2. ASSUME NEW s \in RabbitSub, Advances(s) PROVE RPlaceInv'
  <2> SUFFICES ASSUME NEW t \in RabbitSub PROVE RHandAt(t)' /\ \A n \in RabbitMsg : RPlaceAt(t, n)'
    BY Zenon DEF RPlaceInv
  <2>1. RHandAt(t) /\ \A n \in RabbitMsg : RPlaceAt(t, n)
    BY Zenon DEF RPlaceInv
  <2>2. UNCHANGED rClient
    BY <1>2, Zenon DEF Advances
  <2>3. CASE t # s
    <3>1. rStep'[t] = rStep[t]
      BY <1>2, <2>3, Zenon DEF Advances, Went
    <3> QED
      BY <2>1, <2>2, <3>1, Zenon DEF RHandAt, RPlaceAt
  <2>4. CASE t = s
    <3>1. rStep'[t] \notin {"handle", "submit"}
      BY <1>2, <2>4, Zenon DEF Advances, Went
    <3>2. ASSUME NEW n \in RabbitMsg
          PROVE  /\ rClient[t][n] # "held"
                 /\ rClient[t][n] \in {"pool", "run"} => rStep'[t] \in {"leave", "drain"} /\ t \in Pooled
      BY <1>2, <2>1, <2>4, <3>2, Zenon DEF Advances, Went, RPlaceAt, InLoop
    <3> QED
      BY <2>1, <2>2, <3>1, <3>2, Zenon DEF RHandAt, RPlaceAt
  <2> QED
    BY <2>3, <2>4, Zenon
<1>3. ASSUME NEW s \in RabbitSub, NEW m \in RabbitMsg,
             Delivers(s, m) \/ Hands(s, m) \/ Starts(s, m) \/ Rejects(s, m) \/ Ends(s, m)
      PROVE  RPlaceInv'
  BY <1>3, EffectTurns, TurnKeeps, Zenon
<1> QED
  BY <1>1, <1>2, <1>3, Zenon DEF REffect, Still, Dies, Publishes

\* Every step keeps deliveries unacknowledged and in one hand, and drops what failed.
LEMMA RHoldNext == ASSUME RTypes, RHoldInv, REffect PROVE RHoldInv'
<1>0. /\ \A t \in RabbitSub, n \in RabbitMsg : RHoldAt(t, n)
      /\ \A n \in RabbitMsg : rBroker[n] = "dropped" => rOutcome[n] \in {"error", "panic"}
  BY Zenon DEF RHoldInv
<1>1. CASE UNCHANGED <<rClient, rBroker, rOutcome>> /\ rChannel'.alive = rChannel.alive
  BY <1>0, <1>1 DEF RHoldInv, RHoldAt
<1>2. CASE Dies
  <2>1. \A t \in RabbitSub, n \in RabbitMsg : RHoldAt(t, n)'
    BY <1>0, <1>2, Zenon DEF Dies, RHoldAt
  <2>2. \A n \in RabbitMsg : rBroker'[n] = "dropped" => rOutcome'[n] \in {"error", "panic"}
    BY <1>0, <1>2, Zenon DEF Dies
  <2> QED
    BY <2>1, <2>2, Zenon DEF RHoldInv
<1>3. ASSUME NEW m \in RabbitMsg, Publishes(m) PROVE RHoldInv'
  <2>1. \A t \in RabbitSub, n \in RabbitMsg : RHoldAt(t, n)'
    BY <1>0, <1>3 DEF Publishes, Marked, RHoldAt
  <2>2. \A n \in RabbitMsg : rBroker'[n] = "dropped" => rOutcome'[n] \in {"error", "panic"}
    BY <1>0, <1>3, Zenon DEF Publishes, Marked
  <2> QED
    BY <2>1, <2>2, Zenon DEF RHoldInv
<1>4. ASSUME NEW s \in RabbitSub, NEW m \in RabbitMsg, Delivers(s, m) PROVE RHoldInv'
  <2>1. \A t \in RabbitSub : rClient[t][m] = "none"
    BY <1>0, <1>4, Zenon DEF Delivers, RHoldAt
  <2>2. ASSUME NEW t \in RabbitSub, NEW n \in RabbitMsg PROVE RHoldAt(t, n)'
    <3>1. CASE n = m
      BY <1>4, <2>1, <3>1 DEF Delivers, Marked, Moved, RHoldAt
    <3>2. CASE n # m
      <4>1. rBroker'[n] = rBroker[n] /\ \A u \in RabbitSub : rClient'[u][n] = rClient[u][n]
        BY <1>4, <3>2, Zenon DEF Delivers, Marked, Moved
      <4> QED
        BY <1>0, <1>4, <4>1 DEF Delivers, RHoldAt
    <3> QED
      BY <3>1, <3>2, Zenon
  <2>3. \A n \in RabbitMsg : rBroker'[n] = "dropped" => rOutcome'[n] \in {"error", "panic"}
    BY <1>0, <1>4, Zenon DEF Delivers, Marked
  <2> QED
    BY <2>2, <2>3, Zenon DEF RHoldInv
<1>5. ASSUME NEW s \in RabbitSub, NEW m \in RabbitMsg, Hands(s, m) \/ Starts(s, m) PROVE RHoldInv'
  <2>1. PICK from \in {"chan", "held", "pool"}, to \in {"held", "pool", "run"} :
          /\ rClient[s][m] = from /\ Moved(s, m, to)
          /\ UNCHANGED <<rBroker, rOutcome, rChannel>>
    BY <1>5, Zenon DEF Hands, Starts, Passes
  <2>2. \A t \in RabbitSub, n \in RabbitMsg : (rClient'[t][n] = "none") <=> (rClient[t][n] = "none")
    BY <2>1, Zenon DEF Moved
  <2> QED
    BY <1>0, <2>1, <2>2 DEF RHoldInv, RHoldAt
<1>6. ASSUME NEW s \in RabbitSub, NEW m \in RabbitMsg, NEW to, Answers(s, m, to), rClient[s][m] # "none"
      PROVE  \A t \in RabbitSub, n \in RabbitMsg : RHoldAt(t, n)'
  <2> SUFFICES ASSUME NEW t \in RabbitSub, NEW n \in RabbitMsg PROVE RHoldAt(t, n)'
    BY Zenon
  <2>1. \A u \in RabbitSub : rClient'[u][n] = IF u = s /\ n = m THEN "none" ELSE rClient[u][n]
    BY <1>6, Zenon DEF Answers, Moved
  <2>2. CASE rChannel.alive /\ n = m
    <3>1. rClient'[t][n] = "none"
      BY <1>0, <1>6, <2>1, <2>2 DEF RHoldAt
    <3> QED
      BY <3>1, Zenon DEF RHoldAt
  <2>3. CASE rChannel.alive /\ n # m
    <3>1. rBroker'[n] = rBroker[n] /\ UNCHANGED rChannel
      BY <1>6, <2>3, Zenon DEF Answers, Marked
    <3> QED
      BY <1>0, <2>1, <2>3, <3>1 DEF RHoldAt
  <2>4. CASE ~rChannel.alive
    <3>1. rBroker'[n] = rBroker[n] /\ UNCHANGED rChannel
      BY <1>6, <2>4, Zenon DEF Answers
    <3> QED
      BY <1>0, <2>1, <2>4, <3>1, Zenon DEF RHoldAt
  <2> QED
    BY <2>2, <2>3, <2>4, Zenon
<1>7. ASSUME NEW s \in RabbitSub, NEW m \in RabbitMsg, Rejects(s, m) PROVE RHoldInv'
  <2>1. \A t \in RabbitSub, n \in RabbitMsg : RHoldAt(t, n)'
    BY <1>6, <1>7, Zenon DEF Rejects
  <2>2. \A n \in RabbitMsg : rBroker'[n] = "dropped" => rOutcome'[n] \in {"error", "panic"}
    BY <1>0, <1>7, Zenon DEF Rejects, Answers, Marked
  <2> QED
    BY <2>1, <2>2, Zenon DEF RHoldInv
<1>8. ASSUME NEW s \in RabbitSub, NEW m \in RabbitMsg, Ends(s, m) PROVE RHoldInv'
  <2>1. \A t \in RabbitSub, n \in RabbitMsg : RHoldAt(t, n)'
    BY <1>6, <1>8, Zenon DEF Ends
  <2>2. PICK result \in {"ok", "error", "panic", "ended", "deadline"} :
          /\ \A n \in RabbitMsg : rOutcome'[n] = IF n = m THEN result ELSE rOutcome[n]
          /\ Answers(s, m, R!Resolution(result))
    BY <1>8, Zenon DEF Ends
  <2>3. R!Resolution(result) = "dropped" => result \in {"error", "panic"}
    BY Zenon DEF R!Resolution
  <2>4. rBroker[m] # "dropped"
    BY <1>0, <1>8, Zenon DEF Ends, RHoldAt
  <2>5. ASSUME NEW n \in RabbitMsg, rBroker'[n] = "dropped" PROVE rOutcome'[n] \in {"error", "panic"}
    BY <1>0, <2>2, <2>3, <2>4, <2>5, Zenon DEF Answers, Marked
  <2> QED
    BY <2>1, <2>5, Zenon DEF RHoldInv
<1> QED
  BY <1>1, <1>2, <1>3, <1>4, <1>5, <1>7, <1>8, Zenon DEF REffect, Still, Advances

-----------------------------------------------------------------------------
(***************************************************************************)
(* The channel that the subscriptions share.                               *)
(***************************************************************************)
Live == {"register", "loop", "handle", "submit", "leave"}

\* A step that leaves the channel, consumeMu and the tags, and takes no call into them,
\* keeps them in order.
LEMMA SetupKept ==
  ASSUME RSetupInv, UNCHANGED <<rMutex, rQos, rConsumer>>, rChannel'.prefetch = rChannel.prefetch,
         \A t \in RabbitSub : rStep'[t] # rStep[t] =>
           /\ rStep'[t] \notin {"qos", "consume"}
           /\ rStep'[t] \in Live => rStep[t] \in Live
  PROVE  RSetupInv'
  BY Zenon DEF RSetupInv, RSetupAt, Live, R!Prefetch

\* One call at a time is between Qos and Consume.
LEMMA OneInside ==
  ASSUME RSetupInv, NEW s \in RabbitSub, rStep[s] \in {"qos", "consume"} \/ rMutex = R!Unlocked,
         NEW t \in RabbitSub, t # s
  PROVE  rStep[t] \notin {"qos", "consume"}
  BY ChannelAssumption, Zenon DEF RSetupInv, RSetupAt

\* Every step of a Subscribe call keeps them in order.
LEMMA CallSetup ==
  ASSUME RTypes, RSetupInv, NEW s \in RabbitSub, R!Call(s) \/ R!Leave(s)
  PROVE  RSetupInv'
<1> USE DEF R!At, R!Calling, R!setup, R!Refuse
<1>1. CASE R!Declare(s)
  <2>1. \E y \in {"refused", "mutex"} : Went(s, y)
    BY <1>1, GotoWent, Zenon DEF R!Declare
  <2> QED
    BY <1>1, <2>1, SetupKept, Zenon DEF R!Declare, Went, Live
<1>2. CASE R!LockConsume(s)
  <2>1. CASE R!Goto(s, "refused") /\ UNCHANGED rMutex
    <3>1. Went(s, "refused") /\ UNCHANGED <<rMutex, rQos, rConsumer, rChannel>>
      BY <1>2, <2>1, GotoWent, Zenon DEF R!LockConsume
    <3> QED
      BY <3>1, SetupKept, Zenon DEF Went, Live
  <2>2. CASE rMutex = R!Unlocked /\ rMutex' = s /\ R!Goto(s, "qos")
    <3>1. /\ Went(s, "qos") /\ UNCHANGED <<rQos, rChannel, rConsumer>>
          /\ \A t \in RabbitSub : t # s => rStep[t] \notin {"qos", "consume"}
      BY <1>2, <2>2, GotoWent, OneInside, Zenon DEF R!LockConsume
    <3> QED
      BY <2>2, <3>1, Zenon DEF RSetupInv, RSetupAt, Went, R!Prefetch
  <2> QED
    BY <1>2, <2>1, <2>2, Zenon DEF R!LockConsume
<1>3. CASE R!Qos(s)
  <2>1. /\ rStep[s] = "qos" /\ UNCHANGED rConsumer
        /\ \A t \in RabbitSub : t # s => rStep[t] \notin {"qos", "consume"}
    BY <1>3, OneInside, Zenon DEF R!Qos
  <2>2. CASE /\ s \in Pooled /\ rChannel' = [rChannel EXCEPT !.prefetch = R!Prefetch(s)]
             /\ rQos' = TRUE /\ R!Goto(s, "consume") /\ UNCHANGED rMutex
    <3>1. rChannel'.prefetch = R!Prefetch(s) /\ Went(s, "consume")
      BY <2>2, GotoWent, Zenon DEF RTypes
    <3> QED
      BY <2>1, <2>2, <3>1, Zenon DEF RSetupInv, RSetupAt, Went, R!Prefetch
  <2>3. CASE rMutex' = R!Unlocked /\ R!Goto(s, "refused") /\ UNCHANGED <<rChannel, rQos>>
    <3>1. Went(s, "refused")
      BY <2>3, GotoWent, Zenon
    <3> QED
      BY <2>1, <2>3, <3>1, Zenon DEF RSetupInv, RSetupAt, Went, R!Prefetch
  <2>4. CASE s \notin Pooled /\ ~rQos /\ R!Goto(s, "consume") /\ UNCHANGED <<rMutex, rChannel, rQos>>
    <3>1. Went(s, "consume") /\ rChannel.prefetch = 0 /\ R!Prefetch(s) = 0
      BY <2>4, GotoWent, Zenon DEF RSetupInv, R!Prefetch
    <3> QED
      BY <2>1, <2>4, <3>1, Zenon DEF RSetupInv, RSetupAt, Went, R!Prefetch
  <2> QED
    BY <1>3, <2>2, <2>3, <2>4, Zenon DEF R!Qos
<1>4. CASE R!Consume(s)
  <2>1. /\ rStep[s] = "consume" /\ UNCHANGED <<rQos, rChannel>> /\ rMutex' = R!Unlocked
        /\ rChannel.prefetch = R!Prefetch(s)
        /\ \A t \in RabbitSub : t # s => rStep[t] \notin {"qos", "consume"}
    BY <1>4, OneInside, Zenon DEF R!Consume, RSetupInv, RSetupAt
  <2>2. CASE /\ R!Goto(s, "register")
             /\ rConsumer' = [rConsumer EXCEPT ![s] = [state |-> "live", prefetch |-> rChannel.prefetch]]
    <3>1. /\ Went(s, "register") /\ rConsumer'[s].state = "live" /\ rConsumer'[s].prefetch = R!Prefetch(s)
          /\ \A t \in RabbitSub : t # s => rConsumer'[t] = rConsumer[t]
      BY <2>1, <2>2, GotoWent, Zenon DEF RTypes
    <3> QED
      BY <2>1, <3>1 DEF RSetupInv, RSetupAt, Went, R!Prefetch
  <2>3. CASE R!Goto(s, "refused") /\ UNCHANGED rConsumer
    <3>1. Went(s, "refused")
      BY <2>3, GotoWent, Zenon
    <3> QED
      BY <2>1, <2>3, <3>1, Zenon DEF RSetupInv, RSetupAt, Went, R!Prefetch
  <2> QED
    BY <1>4, <2>2, <2>3, Zenon DEF R!Consume
<1>5. ASSUME R!Cancel(s), UNCHANGED <<rMutex, rQos, rChannel>>, NEW y \in {"refused", "drain"}, R!Goto(s, y)
      PROVE  RSetupInv'
  <2>1. /\ Went(s, y) /\ rConsumer'[s].state = "cancelled"
        /\ \A t \in RabbitSub : t # s => rConsumer'[t] = rConsumer[t]
    BY <1>5, GotoWent DEF R!Cancel, RTypes
  <2> QED
    BY <1>5, <2>1, Zenon DEF RSetupInv, RSetupAt, Went, R!Prefetch
<1>6. CASE R!Register(s)
  <2>1. CASE R!Goto(s, "loop") /\ UNCHANGED rConsumer
    BY <1>6, <2>1, GotoWent, SetupKept DEF R!Register, Went, Live
  <2>2. CASE R!Goto(s, "refused") /\ R!Cancel(s)
    BY <1>5, <1>6, <2>2, Zenon DEF R!Register
  <2> QED
    BY <1>6, <2>1, <2>2, Zenon DEF R!Register
<1>7. CASE R!Leave(s)
  BY <1>5, <1>7, Zenon DEF R!Leave
<1> QED
  BY <1>1, <1>2, <1>3, <1>4, <1>6, <1>7, Zenon DEF R!Call

\* Every step keeps the channel, consumeMu and the tags in order.
LEMMA RSetupNext == ASSUME RTypes, RPlaceInv, RSetupInv, [R!Next]_R!vars PROVE RSetupInv'
<1> USE DEF R!At, R!Frame, R!setup
<1>1. CASE UNCHANGED <<rMutex, rQos, rConsumer, rStep>> /\ rChannel'.prefetch = rChannel.prefetch
  BY <1>1, SetupKept, Zenon
<1>2. ASSUME NEW s \in RabbitSub, NEW y, rStep[s] \in Live \/ y \notin Live, y \notin {"qos", "consume"},
             R!Goto(s, y), UNCHANGED <<rMutex, rQos, rConsumer, rChannel>>
      PROVE  RSetupInv'
  BY <1>2, GotoWent, SetupKept, Zenon DEF Went
<1>3. ASSUME NEW s \in RabbitSub, R!Stop(s) \/ R!Receive(s) \/ R!SubmitDelivery(s) \/ R!Drain(s) \/ R!CountDown(s)
      PROVE  RSetupInv'
  <2>1. /\ rStep[s] \in {"loop", "submit", "drain", "count"} /\ UNCHANGED <<rMutex, rQos, rConsumer, rChannel>>
        /\ \/ rStep[s] \in {"loop", "submit"} /\ \E y \in {"loop", "leave", "submit", "handle"} : R!Goto(s, y)
           \/ \E y \in {"count", "end"} : R!Goto(s, y)
    BY <1>3, Zenon DEF R!Stop, R!Receive, R!SubmitDelivery, R!Drain, R!CountDown
  <2> QED
    BY <1>2, <2>1, Zenon DEF Live
<1>4. ASSUME NEW s \in RabbitSub, NEW m \in RabbitMsg, R!HandlerEnds(s, m) PROVE RSetupInv'
  <2>1. UNCHANGED <<rMutex, rQos, rConsumer, rChannel>>
    BY <1>4, Zenon DEF R!HandlerEnds
  <2>2. CASE UNCHANGED rStep
    BY <1>1, <2>1, <2>2, Zenon
  <2>3. CASE s \notin Pooled /\ R!Goto(s, "loop")
    <3>1. rStep[s] = "handle"
      BY <1>4, <2>3, Zenon DEF R!HandlerEnds, RPlaceInv, RPlaceAt
    <3> QED
      BY <1>2, <2>1, <2>3, <3>1, Zenon DEF Live
  <2> QED
    BY <1>4, <2>2, <2>3, Zenon DEF R!HandlerEnds
<1> DEFINE Same == UNCHANGED <<rMutex, rQos, rConsumer, rStep>> /\ rChannel'.prefetch = rChannel.prefetch
<1>5. ASSUME NEW m \in RabbitMsg, R!Publish(m) PROVE Same
  BY <1>5, Zenon DEF R!Publish
<1>6. ASSUME NEW s \in RabbitSub, NEW m \in RabbitMsg, R!Deliver(s, m) \/ R!WorkerStarts(s, m) PROVE Same
  BY <1>6, Zenon DEF R!Deliver, R!WorkerStarts
<1>7. ASSUME NEW s \in RabbitSub, R!CallerCancels(s) PROVE Same
  BY <1>7, Zenon DEF R!CallerCancels
<1>8. ASSUME NEW c \in Closer, R!CloseBegins(c) \/ R!CloseReturns(c) PROVE Same
  BY <1>8, Zenon DEF R!CloseBegins, R!CloseReturns
<1>9. ASSUME R!ChannelDies PROVE Same
  BY <1>9, Zenon DEF R!ChannelDies, RTypes
<1>10. CASE UNCHANGED R!vars
  BY <1>1, <1>10, Zenon DEF R!vars
<1>11. ASSUME NEW s \in RabbitSub, R!ConsumeLoop(s) PROVE RSetupInv'
  BY <1>3, <1>11, CallSetup, Zenon DEF R!ConsumeLoop
<1> HIDE DEF Same
<1>12. Same => RSetupInv'
  BY <1>1, Zenon DEF Same
<1>13. ASSUME NEW s \in RabbitSub, R!Delivery(s) \/ R!Work(s) PROVE RSetupInv'
  BY <1>4, <1>6, <1>12, <1>13, Zenon DEF R!Delivery, R!Work
<1>14. CASE R!Next
  BY <1>5, <1>7, <1>8, <1>9, <1>11, <1>12, <1>13, <1>14, Zenon DEF R!Next
<1> QED
  BY <1>10, <1>14, Zenon

-----------------------------------------------------------------------------
(***************************************************************************)
(* Types.                                                                  *)
(***************************************************************************)
States == {"none", "ready", "unacked", "acked", "dropped"}

\* A loop that goes on is at a step.
LEMMA GotoTyped ==
  ASSUME RTypes, NEW s \in RabbitSub, NEW y \in Steps, R!Goto(s, y)
  PROVE  rStep' \in [RabbitSub -> Steps]
  BY Zenon DEF RTypes, R!Goto

\* A delivery that moves has a place.
LEMMA MoveTyped ==
  ASSUME RTypes, NEW s \in RabbitSub, NEW m \in RabbitMsg, NEW y \in Places, R!Move(s, m, y)
  PROVE  rClient' \in [RabbitSub -> [RabbitMsg -> Places]]
  BY Zenon DEF RTypes, R!Move

\* A delivery that is answered has none, and its message a state.
LEMMA ResolveTyped ==
  ASSUME RTypes, NEW s \in RabbitSub, NEW m \in RabbitMsg, NEW to \in States, R!Resolve(s, m, to)
  PROVE  rClient' \in [RabbitSub -> [RabbitMsg -> Places]] /\ rBroker' \in [RabbitMsg -> States]
<1>1. rClient' \in [RabbitSub -> [RabbitMsg -> Places]]
  BY MoveTyped, Zenon DEF R!Resolve, Places
<1>2. rBroker' \in [RabbitMsg -> States]
  BY Zenon DEF R!Resolve, RTypes, States
<1> QED
  BY <1>1, <1>2, Zenon

\* Every step keeps the types of loops, deliveries and messages.
LEMMA DeliveryTypes ==
  ASSUME RTypes, [R!Next]_R!vars
  PROVE  /\ rStep' \in [RabbitSub -> Steps] /\ rClient' \in [RabbitSub -> [RabbitMsg -> Places]]
         /\ rBroker' \in [RabbitMsg -> States]
         /\ rOutcome' \in [RabbitMsg -> {"none", "ok", "error", "panic", "ended", "deadline"}]
<1> DEFINE Goal ==
      /\ rStep' \in [RabbitSub -> Steps] /\ rClient' \in [RabbitSub -> [RabbitMsg -> Places]]
      /\ rBroker' \in [RabbitMsg -> States]
      /\ rOutcome' \in [RabbitMsg -> {"none", "ok", "error", "panic", "ended", "deadline"}]
<1> SUFFICES Goal
  BY Zenon
<1> USE DEF R!Frame, R!Calling, R!msgVars, R!Refuse
<1>0. /\ rStep \in [RabbitSub -> Steps] /\ rClient \in [RabbitSub -> [RabbitMsg -> Places]]
      /\ rBroker \in [RabbitMsg -> States]
      /\ rOutcome \in [RabbitMsg -> {"none", "ok", "error", "panic", "ended", "deadline"}]
  BY Zenon DEF RTypes, States
<1>1. CASE UNCHANGED <<rStep, rClient, rBroker, rOutcome>>
  BY <1>0, <1>1, Zenon
<1>2. ASSUME NEW s \in RabbitSub, NEW y \in Steps, R!Goto(s, y), UNCHANGED <<rClient, rBroker, rOutcome>>
      PROVE  Goal
  BY <1>0, <1>2, GotoTyped, Zenon
<1>3. ASSUME NEW s \in RabbitSub,
             R!Call(s) \/ R!Stop(s) \/ R!Leave(s) \/ R!Drain(s) \/ R!CountDown(s)
      PROVE  Goal
  <2>1. /\ UNCHANGED <<rClient, rBroker, rOutcome>>
        /\ \E y \in {"refused", "mutex", "qos", "consume", "register", "loop", "leave", "drain",
                     "count", "end"} : R!Goto(s, y)
    BY <1>3, Zenon DEF R!Call, R!Declare, R!LockConsume, R!Qos, R!Consume, R!Register, R!Stop, R!Leave,
                R!Drain, R!CountDown
  <2> QED
    BY <1>2, <2>1, Zenon DEF Steps
<1>4. ASSUME NEW s \in RabbitSub, R!Receive(s) PROVE Goal
  <2>1. UNCHANGED <<rBroker, rOutcome>> /\ \E y \in {"leave", "submit", "handle"} : R!Goto(s, y)
    BY <1>4, Zenon DEF R!Receive
  <2>2. UNCHANGED rClient \/ \E m \in RabbitMsg, y \in {"held", "run"} : R!Move(s, m, y)
    BY <1>4, Zenon DEF R!Receive, R!In
  <2>3. rStep' \in [RabbitSub -> Steps]
    BY <2>1, GotoTyped, Zenon DEF Steps
  <2>4. rClient' \in [RabbitSub -> [RabbitMsg -> Places]]
    BY <1>0, <2>2, MoveTyped DEF Places
  <2> QED
    BY <1>0, <2>1, <2>3, <2>4, Zenon
<1>5. ASSUME NEW s \in RabbitSub, R!SubmitDelivery(s) PROVE Goal
  <2>1. rStep' \in [RabbitSub -> Steps] /\ UNCHANGED rOutcome
    BY <1>5, GotoTyped, Zenon DEF R!SubmitDelivery, Steps
  <2>2. PICK m \in RabbitMsg : \/ UNCHANGED rBroker /\ \E y \in {"pool", "run"} : R!Move(s, m, y)
                               \/ R!Resolve(s, m, "ready")
    BY <1>5, Zenon DEF R!SubmitDelivery, R!In
  <2>3. rClient' \in [RabbitSub -> [RabbitMsg -> Places]] /\ rBroker' \in [RabbitMsg -> States]
    BY <1>0, <2>2, MoveTyped, ResolveTyped, Zenon DEF Places, States
  <2> QED
    BY <1>0, <2>1, <2>3, Zenon
<1>6. ASSUME NEW s \in RabbitSub, NEW m \in RabbitMsg, R!HandlerEnds(s, m) PROVE Goal
  <2>1. rStep' \in [RabbitSub -> Steps]
    BY <1>0, <1>6, GotoTyped, Zenon DEF R!HandlerEnds, Steps
  <2>2. PICK result \in {"ok", "error", "panic", "ended", "deadline"} :
          rOutcome' = [rOutcome EXCEPT ![m] = result] /\ R!Resolve(s, m, R!Resolution(result))
    BY <1>6, Zenon DEF R!HandlerEnds
  <2>3. R!Resolution(result) \in States
    BY Zenon DEF R!Resolution, States
  <2>4. rClient' \in [RabbitSub -> [RabbitMsg -> Places]] /\ rBroker' \in [RabbitMsg -> States]
    BY <2>2, <2>3, ResolveTyped, Zenon
  <2>5. rOutcome' \in [RabbitMsg -> {"none", "ok", "error", "panic", "ended", "deadline"}]
    BY <1>0, <2>2, Zenon
  <2> QED
    BY <2>1, <2>4, <2>5, Zenon
<1>7. ASSUME NEW s \in RabbitSub, NEW m \in RabbitMsg, R!Deliver(s, m) PROVE Goal
  <2>1. rClient' \in [RabbitSub -> [RabbitMsg -> Places]]
    BY <1>7, MoveTyped, Zenon DEF R!Deliver, Places
  <2> QED
    BY <1>0, <1>7, <2>1, Zenon DEF R!Deliver, States
<1>8. ASSUME NEW s \in RabbitSub, NEW m \in RabbitMsg, R!WorkerStarts(s, m) PROVE Goal
  BY <1>0, <1>8, MoveTyped, Zenon DEF R!WorkerStarts, Places
<1>9. ASSUME NEW m \in RabbitMsg, R!Publish(m) PROVE Goal
  BY <1>0, <1>9, Zenon DEF R!Publish, States
<1>10. ASSUME R!ChannelDies PROVE Goal
  BY <1>0, <1>10, Zenon DEF R!ChannelDies, States
<1>11. ASSUME NEW s \in RabbitSub, R!CallerCancels(s) PROVE UNCHANGED <<rStep, rClient, rBroker, rOutcome>>
  BY <1>11, Zenon DEF R!CallerCancels
<1>12. ASSUME NEW c \in Closer, R!CloseBegins(c) \/ R!CloseReturns(c)
       PROVE  UNCHANGED <<rStep, rClient, rBroker, rOutcome>>
  BY <1>12, Zenon DEF R!CloseBegins, R!CloseReturns
<1>13. CASE UNCHANGED R!vars
  BY <1>1, <1>13, Zenon DEF R!vars
<1> HIDE DEF Goal
<1>14. ASSUME NEW s \in RabbitSub, R!ConsumeLoop(s) \/ R!Delivery(s) \/ R!Work(s) PROVE Goal
  BY <1>3, <1>4, <1>5, <1>6, <1>7, <1>8, <1>14, Zenon DEF R!ConsumeLoop, R!Delivery, R!Work
<1>15. CASE R!Next
  BY <1>1, <1>9, <1>10, <1>11, <1>12, <1>14, <1>15, Zenon DEF R!Next
<1> QED
  BY <1>13, <1>15, Zenon

\* Every step keeps the types of the channel and what guards it, and of Close.
LEMMA ChannelTypes ==
  ASSUME RTypes, [R!Next]_R!vars
  PROVE  /\ {rClosed, rQos, rHandlerDone}' \subseteq BOOLEAN /\ rMutex' \in RabbitSub \cup {R!Unlocked}
         /\ rChannel' \in [alive : BOOLEAN, prefetch : Nat]
         /\ rConsumer' \in [RabbitSub -> [state : {"none", "live", "cancelled"}, prefetch : Nat]]
         /\ rMine' \in [RabbitSub -> Nat] /\ rNextStopped' \in Nat
         /\ rClosers' \in [Closer -> [step : {"idle", "again", "wait", "nil", "late"}, stopped : Nat]]
<1> DEFINE Lock == /\ rQos' \in BOOLEAN /\ rMutex' \in RabbitSub \cup {R!Unlocked}
                   /\ rChannel' \in [alive : BOOLEAN, prefetch : Nat]
                   /\ rConsumer' \in [RabbitSub -> [state : {"none", "live", "cancelled"}, prefetch : Nat]]
           Stop == /\ {rClosed, rHandlerDone}' \subseteq BOOLEAN
                   /\ rMine' \in [RabbitSub -> Nat] /\ rNextStopped' \in Nat
                   /\ rClosers' \in [Closer -> [step : {"idle", "again", "wait", "nil", "late"},
                                                stopped : Nat]]
<1> USE DEF R!Frame, R!Calling, R!setup, R!busState, R!closeVars, R!Refuse
<1>1. UNCHANGED <<rQos, rMutex, rChannel, rConsumer>> => Lock
  BY Zenon DEF RTypes
<1>2. UNCHANGED <<rClosed, rHandlerDone, rMine, rNextStopped, rClosers>> => Stop
  BY Zenon DEF RTypes
<1> DEFINE Same == /\ UNCHANGED <<rQos, rMutex, rChannel, rConsumer>>
                   /\ UNCHANGED <<rClosed, rHandlerDone, rMine, rNextStopped, rClosers>>
<1>3. ASSUME NEW s \in RabbitSub, R!Declare(s) \/ R!Stop(s) \/ R!Receive(s) \/ R!SubmitDelivery(s) \/ R!Drain(s)
      PROVE  Same
  BY <1>3, Zenon DEF R!Declare, R!Stop, R!Receive, R!SubmitDelivery, R!Drain
<1>4. ASSUME NEW s \in RabbitSub, R!CountDown(s) \/ R!CallerCancels(s) \/ R!Delivery(s) \/ R!Work(s)
      PROVE  Same
  BY <1>4, Zenon
  DEF R!CountDown, R!CallerCancels, R!Delivery, R!Deliver, R!Work, R!WorkerStarts, R!HandlerEnds
<1>5. ASSUME NEW m \in RabbitMsg, R!Publish(m) PROVE Same
  BY <1>5, Zenon DEF R!Publish
<1>6. ASSUME NEW s \in RabbitSub, R!LockConsume(s) PROVE Lock /\ Stop
  BY <1>2, <1>6, Zenon DEF R!LockConsume, RTypes
<1>7. ASSUME NEW s \in RabbitSub, R!Qos(s) PROVE Lock /\ Stop
  <2>1. R!Prefetch(s) \in Nat
    BY PoolAssumption DEF R!Prefetch
  <2> QED
    BY <1>2, <1>7, <2>1, Zenon DEF R!Qos, RTypes
<1> DEFINE Tag == [state : {"none", "live", "cancelled"}, prefetch : Nat]
<1>0. ASSUME NEW s \in RabbitSub, NEW tag \in Tag, rConsumer' = [rConsumer EXCEPT ![s] = tag]
      PROVE  rConsumer' \in [RabbitSub -> Tag]
  <2>1. rConsumer \in [RabbitSub -> Tag]
    BY Zenon DEF RTypes
  <2> HIDE DEF Tag
  <2> QED
    BY <1>0, <2>1, Zenon
<1>8. ASSUME NEW s \in RabbitSub, R!Consume(s) PROVE Lock /\ Stop
  <2>1. UNCHANGED <<rQos, rChannel, rClosed, rHandlerDone, rMine, rNextStopped, rClosers>>
    BY <1>8, Zenon DEF R!Consume
  <2>2. rMutex' = R!Unlocked
    BY <1>8, Zenon DEF R!Consume
  <2>3. [state |-> "live", prefetch |-> rChannel.prefetch] \in Tag
    BY Zenon DEF RTypes
  <2>4. rConsumer' \in [RabbitSub -> Tag]
    <3>1. CASE UNCHANGED rConsumer
      BY <3>1, Zenon DEF RTypes
    <3>2. CASE rConsumer' = [rConsumer EXCEPT ![s] = [state |-> "live", prefetch |-> rChannel.prefetch]]
      BY <1>0, <2>3, <3>2, Zenon
    <3> QED
      BY <1>8, <3>1, <3>2, Zenon DEF R!Consume
  <2> QED
    BY <1>2, <2>1, <2>2, <2>4, Zenon DEF RTypes
<1>9. ASSUME NEW s \in RabbitSub, R!Cancel(s)
      PROVE  rConsumer' \in [RabbitSub -> Tag]
  <2>1. rConsumer[s] \in Tag
    BY Zenon DEF RTypes
  <2>2. [rConsumer[s] EXCEPT !.state = "cancelled"] \in Tag
    BY <2>1, Zenon
  <2>3. rConsumer' = [rConsumer EXCEPT ![s] = [rConsumer[s] EXCEPT !.state = "cancelled"]]
    BY <1>9, Zenon DEF R!Cancel
  <2> QED
    BY <1>0, <2>2, <2>3, Zenon
<1>10. ASSUME NEW s \in RabbitSub, R!Register(s) PROVE Lock /\ Stop
  <2>1. Lock
    BY <1>9, <1>10, Zenon DEF R!Register, RTypes
  <2>2. Stop
    BY <1>10 DEF R!Register, RTypes
  <2> QED
    BY <2>1, <2>2, Zenon
<1>11. ASSUME NEW s \in RabbitSub, R!Leave(s) PROVE Lock /\ Stop
  BY <1>2, <1>9, <1>11, Zenon DEF R!Leave, RTypes
<1>12. ASSUME R!ChannelDies PROVE Lock /\ Stop
  BY <1>2, <1>12, Zenon DEF R!ChannelDies, RTypes
<1>13. ASSUME NEW c \in Closer, R!CloseBegins(c) \/ R!CloseReturns(c) PROVE Lock /\ Stop
  <2>1. /\ rNextStopped' \in Nat /\ rMine' \in [RabbitSub -> Nat]
        /\ {rClosed, rHandlerDone}' \subseteq BOOLEAN
    BY <1>13, Zenon DEF R!CloseBegins, R!CloseReturns, RTypes
  <2>2. rClosers' \in [Closer -> [step : {"idle", "again", "wait", "nil", "late"}, stopped : Nat]]
    BY <1>13 DEF R!CloseBegins, R!CloseReturns, R!CloserGoto, RTypes
  <2> QED
    BY <1>1, <1>13, <2>1, <2>2, Zenon DEF R!CloseBegins, R!CloseReturns
<1>14. CASE UNCHANGED R!vars
  BY <1>1, <1>2, <1>14, Zenon DEF R!vars
<1>15. Lock /\ Stop
  <2> HIDE DEF Lock, Stop
  <2>1. Same => Lock /\ Stop
    BY <1>1, <1>2, Zenon
  <2> HIDE DEF Same
  <2>2. ASSUME NEW s \in RabbitSub, R!ConsumeLoop(s) PROVE Lock /\ Stop
    BY <1>3, <1>4, <1>6, <1>7, <1>8, <1>10, <1>11, <2>1, <2>2, Zenon DEF R!ConsumeLoop, R!Call
  <2> QED
    BY <1>4, <1>5, <1>12, <1>13, <1>14, <2>1, <2>2, Zenon DEF R!Next, Lock, Stop
<1> QED
  BY <1>15, Zenon

-----------------------------------------------------------------------------
(***************************************************************************)
(* RabbitBus again: the count of the loops, and Close.                     *)
(***************************************************************************)
INSTANCE FiniteSetTheorems

\* A loop that stays one, or a call that stays none, leaves the loops as they are.
LEMMA LoopsKept ==
  ASSUME NEW s \in RabbitSub, NEW y, Went(s, y), rStep[s] \in InLoop <=> y \in InLoop
  PROVE  R!Looping' = R!Looping
  BY Zenon DEF Went, R!Looping, InLoop

\* The loops are finitely many.
LEMMA LoopsFinite == IsFiniteSet(R!Looping) /\ Cardinality(R!Looping) \in Nat
<1>1. R!Looping \subseteq RabbitSub
  BY Zenon DEF R!Looping
<1> QED
  BY <1>1, ChannelAssumption, FS_Subset, FS_CardinalityType, Zenon

\* A step that leaves the loops, their count and the Close calls keeps them in order.
StopStill == UNCHANGED <<rClosed, rActive, rNextStopped, rClosedStopped, rMine, rClosers>>

\* What the Close calls rest on does not change with it.
LEMMA StopKept == ASSUME RStopInv, StopStill, R!Looping' = R!Looping PROVE RStopInv'
<1>1. Cardinality(R!Looping') = Cardinality(R!Looping)
  BY Zenon
<1> QED
  BY <1>1, Zenon DEF RStopInv, StopStill

\* A loop begins: the first one makes a stopped channel, the others share it.
LEMMA RegisterStops ==
  ASSUME RTypes, RStopInv, NEW s \in RabbitSub, R!Register(s)
  PROVE  RStopInv'
<1> USE DEF R!At, R!Refuse, R!closeVars
<1>1. rStep[s] = "register" /\ UNCHANGED <<rClosed, rClosedStopped, rClosers>>
  BY Zenon DEF R!Register
<1>2. CASE R!Goto(s, "refused") /\ UNCHANGED <<rActive, rNextStopped, rMine>>
  <2>1. R!Looping' = R!Looping
    BY <1>1, <1>2, GotoWent, LoopsKept, Zenon DEF InLoop
  <2> QED
    BY <1>1, <1>2, <2>1, StopKept, Zenon DEF StopStill
<1>3. CASE /\ ~rClosed /\ R!Goto(s, "loop") /\ rActive' = rActive + 1
           /\ rNextStopped' = IF rActive = 0 THEN rNextStopped + 1 ELSE rNextStopped
           /\ rMine' = [rMine EXCEPT ![s] = rNextStopped']
  <2>1. R!Looping' = R!Looping \cup {s} /\ s \notin R!Looping
    BY <1>1, <1>3, GotoWent, Zenon DEF Went, R!Looping
  <2>2. rActive = Cardinality(R!Looping) /\ rNextStopped \in Nat
    BY Zenon DEF RStopInv, RTypes
  <2>3. rActive' = Cardinality(R!Looping')
    BY <1>3, <2>1, <2>2, LoopsFinite, FS_AddElement, Zenon
  <2>4. rActive = 0 <=> R!Looping = {}
    BY <2>2, LoopsFinite, FS_EmptySet, Zenon
  <2>5. rClosedStopped' \subseteq 0 .. rNextStopped'
    BY <1>1, <1>3, <2>2 DEF RStopInv
  <2>6. \A t \in R!Looping' : rMine'[t] = rNextStopped'
    BY <1>3, <2>1, <2>4, Zenon DEF RStopInv, RTypes, R!Looping
  <2>7. rNextStopped' \notin rClosedStopped'
    BY <1>1, <1>3, <2>2, <2>4 DEF RStopInv
  <2>8. \A c \in Closer : rClosers'[c].step \notin {"wait", "nil", "late"}
    BY <1>1, <1>3, Zenon DEF RStopInv
  <2> QED
    BY <2>3, <2>5, <2>6, <2>7, <2>8, Zenon DEF RStopInv
<1> QED
  BY <1>2, <1>3, Zenon DEF R!Register

\* A loop ends: the last one closes the stopped channel, which nobody has closed.
LEMMA CountDownStops ==
  ASSUME RTypes, RStopInv, NEW s \in RabbitSub, R!CountDown(s)
  PROVE  RStopInv' /\ (~rPanicked => ~rPanicked')
<1> USE DEF R!At, R!closeVars
<1>1. /\ rStep[s] = "count" /\ UNCHANGED <<rClosed, rNextStopped, rMine, rClosers>>
      /\ rActive' = rActive - 1 /\ Went(s, "end")
  BY GotoWent, Zenon DEF R!CountDown
<1>2. R!Looping' = R!Looping \ {s} /\ s \in R!Looping
  BY <1>1, Zenon DEF Went, R!Looping
<1>3. rActive = Cardinality(R!Looping) /\ rNextStopped \in Nat /\ rMine[s] = rNextStopped
      /\ rNextStopped \notin rClosedStopped
  BY <1>2, Zenon DEF RStopInv, RTypes
<1>4. rActive' = Cardinality(R!Looping')
  BY <1>1, <1>2, <1>3, LoopsFinite, FS_RemoveElement, Zenon
<1>5. \A t \in R!Looping' : rMine'[t] = rNextStopped'
  BY <1>1, <1>2, Zenon DEF RStopInv
<1>6. CASE rActive = 1
  <2>1. rClosedStopped' = rClosedStopped \cup {rNextStopped}
    BY <1>3, <1>6, Zenon DEF R!CountDown
  <2>2. R!Looping' = {}
    <3>1. IsFiniteSet(R!Looping') /\ Cardinality(R!Looping') = 0
      BY <1>1, <1>2, <1>4, <1>6, LoopsFinite, FS_RemoveElement
    <3> QED
      BY <3>1, FS_EmptySet, Zenon
  <2>3. rPanicked' = (rPanicked \/ FALSE)
    BY <1>3, <1>6, Zenon DEF R!CountDown
  <2>4. rClosedStopped' \subseteq 0 .. rNextStopped'
    <3>1. rClosedStopped \subseteq 0 .. rNextStopped /\ rNextStopped' = rNextStopped
      BY <1>1, Zenon DEF RStopInv
    <3>2. rNextStopped \in 0 .. rNextStopped
      BY <1>3
    <3> QED
      BY <2>1, <3>1, <3>2, Zenon
  <2> QED
    BY <1>1, <1>4, <1>5, <2>1, <2>2, <2>3, <2>4, Zenon DEF RStopInv
<1>7. CASE rActive # 1
  <2>1. UNCHANGED <<rClosedStopped, rPanicked>>
    BY <1>7, Zenon DEF R!CountDown
  <2> QED
    BY <1>1, <1>3, <1>4, <1>5, <2>1, Zenon DEF RStopInv
<1> QED
  BY <1>6, <1>7, Zenon

\* A Close call begins and returns: nil only when the stopped channel is closed.
LEMMA CloseStops ==
  ASSUME RTypes, RStopInv, NEW c \in Closer, R!CloseBegins(c) \/ R!CloseReturns(c)
  PROVE  RStopInv'
<1> USE DEF R!closeVars, R!busState
<1>1. UNCHANGED <<rActive, rNextStopped, rClosedStopped, rMine, rStep>>
  BY Zenon DEF R!CloseBegins, R!CloseReturns
<1>2. R!Looping' = R!Looping
  BY <1>1, Zenon DEF R!Looping
<1>3. Cardinality(R!Looping') = Cardinality(R!Looping)
  BY <1>2, Zenon
<1>4. \A b \in Closer :
        /\ rClosers'[b].step \in {"wait", "nil", "late"} => rClosed' /\ rClosers'[b].stopped = rNextStopped
        /\ rClosers'[b].step = "nil" => rNextStopped \in rClosedStopped
  <2> DEFINE Kept == \A b \in Closer :
        /\ rClosers[b].step \in {"wait", "nil", "late"} => rClosed /\ rClosers[b].stopped = rNextStopped
        /\ rClosers[b].step = "nil" => rNextStopped \in rClosedStopped
  <2>1. Kept
    BY Zenon DEF RStopInv
  <2>2. CASE rClosed /\ rClosed' /\ R!CloserGoto(c, "again")
    BY <2>1, <2>2, Zenon DEF R!CloserGoto, RTypes
  <2>3. CASE /\ rClosed' /\ rClosers' = [rClosers EXCEPT ![c] = [step |-> "wait", stopped |-> rNextStopped]]
    BY <2>1, <2>3, Zenon DEF RTypes
  <2>4. CASE /\ rClosers[c].step = "wait" /\ rClosers[c].stopped \in rClosedStopped
             /\ R!CloserGoto(c, "nil") /\ UNCHANGED rClosed
    BY <2>1, <2>4, Zenon DEF R!CloserGoto, RTypes
  <2>5. CASE rClosers[c].step = "wait" /\ R!CloserGoto(c, "late") /\ UNCHANGED rClosed
    BY <2>1, <2>5, Zenon DEF R!CloserGoto, RTypes
  <2> HIDE DEF Kept
  <2> QED
    BY <2>2, <2>3, <2>4, <2>5, Zenon DEF R!CloseBegins, R!CloseReturns
<1> QED
  BY <1>1, <1>2, <1>3, <1>4, Zenon DEF RStopInv

\* Every step keeps the count of the loops and the Close calls in order.
LEMMA RStopNext == ASSUME RTypes, RPlaceInv, RStopInv, [R!Next]_R!vars PROVE RStopInv'
<1> USE DEF R!At, R!Frame, R!Calling, R!Refuse, R!busState, R!closeVars
<1>1. ASSUME NEW s \in RabbitSub, NEW y, rStep[s] \in InLoop <=> y \in InLoop, R!Goto(s, y), StopStill
      PROVE  RStopInv'
  BY <1>1, GotoWent, LoopsKept, StopKept, Zenon
<1>2. CASE StopStill /\ UNCHANGED rStep
  <2>1. R!Looping' = R!Looping
    BY <1>2, Zenon DEF R!Looping
  <2> QED
    BY <1>2, <2>1, StopKept, Zenon
<1>3. ASSUME NEW s \in RabbitSub, R!Declare(s) \/ R!LockConsume(s) \/ R!Qos(s) \/ R!Consume(s)
      PROVE  RStopInv'
  <2>1. /\ StopStill /\ rStep[s] \in {"new", "mutex", "qos", "consume"}
        /\ \E y \in {"refused", "mutex", "qos", "consume", "register"} : R!Goto(s, y)
    BY <1>3, Zenon DEF R!Declare, R!LockConsume, R!Qos, R!Consume, StopStill
  <2> QED
    BY <1>1, <2>1, Zenon DEF InLoop
<1>4. ASSUME NEW s \in RabbitSub, R!Stop(s) \/ R!Receive(s) \/ R!SubmitDelivery(s) \/ R!Leave(s) \/ R!Drain(s)
      PROVE  RStopInv'
  <2>1. /\ StopStill /\ rStep[s] \in {"loop", "submit", "leave", "drain"}
        /\ \E y \in {"loop", "handle", "submit", "leave", "drain", "count"} : R!Goto(s, y)
    BY <1>4, Zenon DEF R!Stop, R!Receive, R!SubmitDelivery, R!Leave, R!Drain, StopStill
  <2> QED
    BY <1>1, <2>1, Zenon DEF InLoop
<1>5. ASSUME NEW s \in RabbitSub, NEW m \in RabbitMsg, R!HandlerEnds(s, m) PROVE RStopInv'
  <2>1. StopStill
    BY <1>5, Zenon DEF R!HandlerEnds, StopStill
  <2>2. CASE UNCHANGED rStep
    BY <1>2, <2>1, <2>2, Zenon
  <2>3. CASE s \notin Pooled /\ R!Goto(s, "loop")
    <3>1. rStep[s] = "handle"
      BY <1>5, <2>3, Zenon DEF R!HandlerEnds, RPlaceInv, RPlaceAt
    <3> QED
      BY <1>1, <2>1, <2>3, <3>1, Zenon DEF InLoop
  <2> QED
    BY <1>5, <2>2, <2>3, Zenon DEF R!HandlerEnds
<1> DEFINE Same == StopStill /\ UNCHANGED rStep
<1>6. ASSUME NEW m \in RabbitMsg, R!Publish(m) PROVE Same
  BY <1>6, Zenon DEF R!Publish, StopStill
<1>7. ASSUME NEW s \in RabbitSub, NEW m \in RabbitMsg, R!Deliver(s, m) \/ R!WorkerStarts(s, m) PROVE Same
  BY <1>7, Zenon DEF R!Deliver, R!WorkerStarts, StopStill
<1>8. ASSUME NEW s \in RabbitSub, R!CallerCancels(s) PROVE Same
  BY <1>8, Zenon DEF R!CallerCancels, StopStill
<1>9. ASSUME R!ChannelDies PROVE Same
  BY <1>9, Zenon DEF R!ChannelDies, StopStill
<1>10. CASE UNCHANGED R!vars
  BY <1>2, <1>10, Zenon DEF R!vars, StopStill
<1> HIDE DEF Same
<1>11. Same => RStopInv'
  BY <1>2, Zenon DEF Same
<1>12. ASSUME NEW s \in RabbitSub, R!ConsumeLoop(s) PROVE RStopInv'
  BY <1>3, <1>4, <1>12, RegisterStops, CountDownStops, Zenon DEF R!ConsumeLoop, R!Call
<1>13. ASSUME NEW s \in RabbitSub, R!Delivery(s) \/ R!Work(s) PROVE RStopInv'
  BY <1>5, <1>7, <1>11, <1>13, Zenon DEF R!Delivery, R!Work
<1>14. CASE R!Next
  BY <1>6, <1>8, <1>9, <1>11, <1>12, <1>13, <1>14, CloseStops, Zenon DEF R!Next
<1> QED
  BY <1>10, <1>14, Zenon

\* No step closes a stopped channel or cancels a tag for the second time.
LEMMA RPanicNext ==
  ASSUME RTypes, RSetupInv, RStopInv, ~rPanicked, [R!Next]_R!vars
  PROVE  ~rPanicked'
<1> USE DEF R!At, R!Frame
<1>1. ASSUME NEW s \in RabbitSub, R!Register(s) \/ R!Leave(s) PROVE ~rPanicked'
  <2>1. rConsumer[s].state = "live"
    BY <1>1, Zenon DEF R!Register, R!Leave, RSetupInv, RSetupAt
  <2> QED
    BY <1>1, <2>1, Zenon DEF R!Register, R!Leave, R!Cancel
<1>2. ASSUME NEW s \in RabbitSub, R!CountDown(s) PROVE ~rPanicked'
  BY <1>2, CountDownStops, Zenon
<1>3. ASSUME NEW s \in RabbitSub, R!Declare(s) \/ R!LockConsume(s) \/ R!Qos(s) \/ R!Consume(s)
      PROVE  UNCHANGED rPanicked
  BY <1>3, Zenon DEF R!Declare, R!LockConsume, R!Qos, R!Consume
<1>4. ASSUME NEW s \in RabbitSub, R!Stop(s) \/ R!Receive(s) \/ R!SubmitDelivery(s) \/ R!Drain(s)
      PROVE  UNCHANGED rPanicked
  BY <1>4, Zenon DEF R!Stop, R!Receive, R!SubmitDelivery, R!Drain
<1>5. ASSUME NEW s \in RabbitSub, R!Delivery(s) \/ R!Work(s) \/ R!CallerCancels(s) PROVE UNCHANGED rPanicked
  BY <1>5, Zenon DEF R!Delivery, R!Deliver, R!Work, R!WorkerStarts, R!HandlerEnds, R!CallerCancels
<1>6. ASSUME NEW c \in Closer, R!CloseBegins(c) \/ R!CloseReturns(c) PROVE UNCHANGED rPanicked
  BY <1>6, Zenon DEF R!CloseBegins, R!CloseReturns
<1>7. ASSUME NEW m \in RabbitMsg, R!Publish(m) PROVE UNCHANGED rPanicked
  BY <1>7, Zenon DEF R!Publish
<1>8. ASSUME R!ChannelDies PROVE UNCHANGED rPanicked
  BY <1>8, Zenon DEF R!ChannelDies
<1>9. ASSUME NEW s \in RabbitSub, R!ConsumeLoop(s) PROVE ~rPanicked'
  BY <1>1, <1>2, <1>3, <1>4, <1>9, Zenon DEF R!ConsumeLoop, R!Call
<1> QED
  BY <1>5, <1>6, <1>7, <1>8, <1>9, Zenon DEF R!Next, R!vars

\* The inductive invariant of RabbitBus holds at all times.
THEOREM RabbitInvariant == R!Spec => []RInv
<1>1. R!Init => RInv
  <2> SUFFICES ASSUME R!Init PROVE RInv
    BY Zenon
  <2>1. RTypes
    BY Zenon DEF R!Init, RTypes, Steps, Places
  <2>2. RSetupInv
    BY Zenon DEF R!Init, RSetupInv, RSetupAt
  <2>3. RStopInv
    <3>1. R!Looping = {}
      BY Zenon DEF R!Init, R!Looping
    <3> QED
      BY <3>1, FS_EmptySet DEF R!Init, RStopInv
  <2>4. RPlaceInv
    BY Zenon DEF R!Init, RPlaceInv, RPlaceAt, RHandAt
  <2>5. RHoldInv
    BY Zenon DEF R!Init, RHoldInv, RHoldAt
  <2> QED
    BY <2>1, <2>2, <2>3, <2>4, <2>5, Zenon DEF R!Init, RInv
<1>2. RInv /\ [R!Next]_R!vars => RInv'
  <2> SUFFICES ASSUME RInv, [R!Next]_R!vars PROVE RInv'
    BY Zenon
  <2>1. RTypes /\ RSetupInv /\ RStopInv /\ RPlaceInv /\ RHoldInv /\ ~rPanicked
    BY Zenon DEF RInv
  <2>2. RTypes'
    BY <2>1, DeliveryTypes, ChannelTypes, Zenon DEF RTypes, States
  <2> QED
    BY <2>1, <2>2, REffects, RSetupNext, RStopNext, RPlaceNext, RHoldNext, RPanicNext, Zenon DEF RInv
<1> QED
  BY <1>1, <1>2, PTL DEF R!Spec

\* Subscriptions that share one RabbitMQ channel: nothing is closed or cancelled twice, no
\* prefetch reaches another consumer, a delivery is in one hand and unacknowledged, and
\* only a failed handler drops a message, for any number of subscriptions and failures.
THEOREM RabbitSoundCorrect == R!Spec => []RabbitSound
<1>1. RInv => RabbitSound
  <2> SUFFICES ASSUME RInv PROVE RabbitSound
    BY Zenon
  <2>1. R!RabbitTypeOK
    <3>1. rActive = R!Cardinality(R!Looping) /\ rClosedStopped \subseteq 0 .. rNextStopped
      BY Zenon DEF RInv, RStopInv, R!Cardinality, Cardinality
    <3>2. rClosed \in BOOLEAN /\ rMutex \in RabbitSub \cup {R!Unlocked}
      BY Zenon DEF RInv, RTypes
    <3>3. \A s \in RabbitSub : rConsumer[s].state \in {"none", "live", "cancelled"}
      BY Zenon DEF RInv, RTypes
    <3>4. \A m \in RabbitMsg : rBroker[m] \in {"none", "ready", "unacked", "acked", "dropped"}
      BY Zenon DEF RInv, RTypes
    <3>5. \A s \in RabbitSub, m \in RabbitMsg : rClient[s][m] \in {"none", "chan", "held", "pool", "run"}
      BY DEF RInv, RTypes, Places
    <3> QED
      BY <3>1, <3>2, <3>3, <3>4, <3>5, Zenon DEF R!RabbitTypeOK
  <2>2. R!RabbitNoPanic /\ R!RabbitOwnPrefetch
    BY Zenon DEF RInv, RSetupInv, RSetupAt, R!RabbitNoPanic, R!RabbitOwnPrefetch
  <2>3. R!RabbitResolvedOnce
    BY Zenon DEF RInv, RHoldInv, RHoldAt, R!RabbitResolvedOnce, R!Holding
  <2>4. R!RabbitDropsFailed
    BY Zenon DEF RInv, RHoldInv, R!RabbitDropsFailed
  <2> QED
    BY <2>1, <2>2, <2>3, <2>4, Zenon DEF RabbitSound
<1> QED
  BY <1>1, RabbitInvariant, PTL

-----------------------------------------------------------------------------
(***************************************************************************)
(* The contract of Close.                                                  *)
(***************************************************************************)
Running == {i \in RabbitSub \X RabbitMsg : rClient[i[1]][i[2]] = "run"}
Closed == \E c \in Closer : rClosers[c].step = "nil"

\* A delivery that moves to a handler, or from it, starts or ends that invocation.
LEMMA RunningMoves ==
  ASSUME NEW s \in RabbitSub, NEW m \in RabbitMsg, NEW y, Moved(s, m, y)
  PROVE  /\ y = "run" => Running' = Running \cup {<<s, m>>}
         /\ y # "run" => Running' = Running \ {<<s, m>>}
<1>1. \A i \in RabbitSub \X RabbitMsg :
        /\ i = <<i[1], i[2]>> /\ i[1] \in RabbitSub /\ i[2] \in RabbitMsg
        /\ i \in Running <=> rClient[i[1]][i[2]] = "run"
        /\ i \in Running' <=> rClient'[i[1]][i[2]] = "run"
  BY DEF Running
<1>2. \A i \in RabbitSub \X RabbitMsg :
        rClient'[i[1]][i[2]] = IF i = <<s, m>> THEN y ELSE rClient[i[1]][i[2]]
  BY <1>1 DEF Moved
<1>3. /\ Running \subseteq RabbitSub \X RabbitMsg /\ Running' \subseteq RabbitSub \X RabbitMsg
      /\ <<s, m>> \in RabbitSub \X RabbitMsg
  BY Zenon DEF Running
<1>4. CASE y = "run"
  BY <1>1, <1>2, <1>3, <1>4, Zenon
<1>5. CASE y # "run"
  BY <1>1, <1>2, <1>3, <1>5, Zenon
<1> QED
  BY <1>4, <1>5, Zenon

\* After a Close call returned nil there is no loop.
LEMMA ClosedEndsLoops == ASSUME RInv, Closed PROVE R!Looping = {}
  BY Zenon DEF RInv, RStopInv, Closed

\* A handler runs only for a loop.
LEMMA RunsInLoop ==
  ASSUME RInv, NEW s \in RabbitSub, NEW m \in RabbitMsg, rClient[s][m] \in {"held", "pool", "run"}
  PROVE  s \in R!Looping
  BY Zenon DEF RInv, RPlaceInv, RPlaceAt, R!Looping

\* RabbitMQ's Close keeps the contract: a step maps to one of the contract, or is not
\* seen.
THEOREM RabbitImplementsContract == R!Spec => R!RabbitCloseSettles
<1> DEFINE Step == R!Contract!Next \/ UNCHANGED R!Contract!busVars
<1>1. R!Init => R!Contract!Init
  BY DEF R!Init, R!Contract!Init
<1>2. ASSUME RInv, [R!Next]_R!vars PROVE Step
  <2>1. ASSUME Running' = Running, Closed' = Closed PROVE UNCHANGED R!Contract!busVars
    BY <2>1, Zenon DEF Running, Closed, R!Contract!busVars
  <2>2. CASE UNCHANGED rClosers
    <3>1. Closed' = Closed
      BY <2>2, Zenon DEF Closed
    <3>2. ASSUME NEW s \in RabbitSub, NEW m \in RabbitMsg, Starts(s, m) PROVE Step
      <4>1. Moved(s, m, "run") /\ rClient[s][m] # "run"
        BY <3>2, Zenon DEF Starts, Passes
      <4>2. s \in R!Looping
        BY <1>2, <3>2, RunsInLoop, Zenon DEF Starts, Passes, R!Looping
      <4>3. ~Closed
        BY <1>2, <4>2, ClosedEndsLoops, Zenon
      <4>4. /\ <<s, m>> \notin Running /\ Running' = Running \cup {<<s, m>>}
            /\ <<s, m>> \in RabbitSub \X RabbitMsg
        BY <4>1, RunningMoves, Zenon DEF Running
      <4>5. R!Contract!Start(<<s, m>>)
        BY <3>1, <4>3, <4>4, Zenon DEF R!Contract!Start, Running, Closed
      <4> QED
        BY <4>4, <4>5, Zenon DEF R!Contract!Next
    <3>3. ASSUME NEW s \in RabbitSub, NEW m \in RabbitMsg,
                 Delivers(s, m) \/ Hands(s, m) \/ Rejects(s, m) \/ Ends(s, m)
          PROVE  Step
      <4>1. PICK y \in Places \ {"run"} : Moved(s, m, y)
        BY <3>3, Zenon DEF Delivers, Hands, Passes, Rejects, Ends, Answers, Places
      <4>2. Running' = Running \ {<<s, m>>}
        BY <4>1, RunningMoves, Zenon
      <4>3. CASE <<s, m>> \in Running
        <5>1. R!Contract!End(<<s, m>>)
          BY <3>1, <4>2, <4>3, Zenon DEF R!Contract!End, Running, Closed
        <5> QED
          BY <5>1, Zenon DEF R!Contract!Next
      <4>4. CASE <<s, m>> \notin Running
        <5>1. Running' = Running
          BY <4>2, <4>4, Zenon
        <5> QED
          BY <2>1, <3>1, <5>1, Zenon
      <4> QED
        BY <4>3, <4>4, Zenon
    <3>4. CASE UNCHANGED rClient
      <4>1. Running' = Running
        BY <3>4, Zenon DEF Running
      <4> QED
        BY <2>1, <3>1, <4>1, Zenon
    <3> HIDE DEF Step
    <3> QED
      BY <1>2, <3>2, <3>3, <3>4, REffects, Zenon DEF RInv, REffect, Still, Dies, Publishes, Advances
  <2>3. ASSUME NEW c \in Closer, R!CloseBegins(c) \/ R!CloseReturns(c) PROVE Step
    <3>1. Running' = Running
      BY <2>3, Zenon DEF R!CloseBegins, R!CloseReturns, R!msgVars, Running
    <3>2. CASE /\ rClosers[c].step = "wait" /\ rClosers[c].stopped \in rClosedStopped
               /\ R!CloserGoto(c, "nil")
      <4>1. R!Looping = {}
        BY <1>2, <3>2, Zenon DEF RInv, RStopInv
      <4>2. Running = {}
        BY <1>2, <4>1, RunsInLoop, Zenon DEF Running
      <4>3. Closed' = TRUE
        BY <1>2, <3>2, Zenon DEF R!CloserGoto, Closed, RInv, RTypes
      <4>4. R!Contract!Return
        BY <3>1, <4>2, <4>3, Zenon DEF R!Contract!Return, Running, Closed
      <4> QED
        BY <4>4, Zenon DEF R!Contract!Next
    <3>3. CASE \/ \E y \in {"again", "late"} : R!CloserGoto(c, y)
               \/ rClosers' = [rClosers EXCEPT ![c] = [step |-> "wait", stopped |-> rNextStopped]]
      <4>1. rClosers[c].step \in {"idle", "wait"}
        BY <2>3, Zenon DEF R!CloseBegins, R!CloseReturns
      <4>2. \A b \in Closer : (rClosers'[b].step = "nil") <=> (rClosers[b].step = "nil")
        <5>1. rClosers \in [Closer -> [step : {"idle", "again", "wait", "nil", "late"}, stopped : Nat]]
          BY <1>2, Zenon DEF RInv, RTypes
        <5> QED
          BY <3>3, <4>1, <5>1 DEF R!CloserGoto
      <4>3. Closed' = Closed
        BY <4>2, Zenon DEF Closed
      <4> QED
        BY <2>1, <3>1, <4>3, Zenon
    <3> HIDE DEF Step
    <3> QED
      BY <2>3, <3>2, <3>3, Zenon DEF R!CloseBegins, R!CloseReturns
  <2>4. UNCHANGED rClosers \/ \E c \in Closer : R!CloseBegins(c) \/ R!CloseReturns(c)
    <3> USE DEF R!Frame, R!Calling, R!closeVars
    <3>1. ASSUME NEW s \in RabbitSub, R!ConsumeLoop(s) PROVE UNCHANGED rClosers
      BY <3>1, Zenon DEF R!ConsumeLoop, R!Call, R!Declare, R!LockConsume, R!Qos, R!Consume, R!Register,
                  R!Stop, R!Receive, R!SubmitDelivery, R!Leave, R!Drain, R!CountDown
    <3>2. ASSUME NEW s \in RabbitSub, R!Delivery(s) \/ R!Work(s) \/ R!CallerCancels(s)
          PROVE  UNCHANGED rClosers
      BY <3>2, Zenon DEF R!Delivery, R!Deliver, R!Work, R!WorkerStarts, R!HandlerEnds, R!CallerCancels
    <3>3. ASSUME NEW m \in RabbitMsg, R!Publish(m) PROVE UNCHANGED rClosers
      BY <3>3, Zenon DEF R!Publish
    <3>4. ASSUME R!ChannelDies PROVE UNCHANGED rClosers
      BY <3>4, Zenon DEF R!ChannelDies
    <3> QED
      BY <1>2, <3>1, <3>2, <3>3, <3>4, Zenon DEF R!Next, R!vars
  <2> HIDE DEF Step
  <2> QED
    BY <2>2, <2>3, <2>4, Zenon
<1> QED
  BY <1>1, <1>2, RabbitInvariant, PTL DEF R!Spec, R!RabbitCloseSettles, R!Contract!Spec

\* The promise of RabbitPromises about Close is that refinement.
THEOREM RabbitKeepsContractCorrect == R!Spec => RabbitKeepsContract
  BY RabbitImplementsContract, Zenon DEF RabbitKeepsContract
===============================================================================
