------------------------------- MODULE RabbitBus -------------------------------
(***************************************************************************)
(* The RabbitMQ event bus (rabbitmq/rabbitmq.go) on one queue: Subscribe    *)
(* calls that share a channel and its prefetch, their consume loops with    *)
(* and without a worker pool, acknowledgements, and Close.                  *)
(*                                                                         *)
(* The broker is external: a consumer holds at most its prefetch of         *)
(* unacknowledged messages (0 is no limit), and when the channel dies the   *)
(* broker takes back what was not acknowledged.                             *)
(***************************************************************************)
EXTENDS Naturals, FiniteSets

CONSTANTS
  Sub, Pooled,   \* Subscribe calls; those of SubscribeWithOptions
  Msg, Closer,
  Workers, QueueCapacity,
  MaxErrors,     \* bound: broker calls that fail
  MaxDeadlines   \* bound: handlers that end with a deadline of their own

VARIABLES
  closed, active, nextStopped,  \* r.closed, r.active; the number of r.stopped channels made
  closedStopped,  \* those that have been closed
  mutex,          \* consumeMu: its holder or Unlocked
  qosOwnedByPool,
  channel,        \* external: [alive, prefetch] of the channel
  consumer,       \* external: per tag [state, prefetch]
  step,           \* per subscription: where its call, then its loop, stands
  mine,           \* per loop: the stopped channel registerConsumer gave it
  done,           \* subscriptions whose context is done
  broker,         \* external: per message its state in the queue
  client,         \* per subscription and message: where a delivery is
  outcome,        \* history: per message what its last handler returned
  closers,        \* per Close call: [step, stopped]
  handlerDone,    \* handlerCtx is cancelled
  panicked,       \* a closed channel was closed again, or a tag cancelled twice
  errors, deadlines

busState == <<closed, active, nextStopped, closedStopped>>
setup == <<mutex, qosOwnedByPool, channel, consumer>>
msgVars == <<broker, client, outcome, deadlines>>
closeVars == <<closers, handlerDone>>
vars == <<busState, setup, step, mine, done, msgVars, closeVars, panicked, errors>>

Unlocked == "unlocked"
Prefetch(s) == IF s \in Pooled THEN Workers + QueueCapacity ELSE 0
In(s, where) == {m \in Msg : client[s][m] = where}
Holding(s) == {m \in Msg : client[s][m] # "none"}
Looping == {s \in Sub : step[s] \in {"loop", "handle", "submit", "leave", "drain", "count"}}

RabbitTypeOK ==
  /\ closed \in BOOLEAN /\ mutex \in Sub \cup {Unlocked}
  /\ active = Cardinality(Looping) /\ closedStopped \subseteq 0..nextStopped
  /\ \A s \in Sub : consumer[s].state \in {"none", "live", "cancelled"}
  /\ \A m \in Msg : broker[m] \in {"none", "ready", "unacked", "acked", "dropped"}
  /\ \A s \in Sub, m \in Msg : client[s][m] \in {"none", "chan", "held", "pool", "run"}

Init ==
  /\ closed = FALSE /\ active = 0 /\ nextStopped = 0 /\ closedStopped = {0}
  /\ mutex = Unlocked /\ qosOwnedByPool = FALSE /\ channel = [alive |-> TRUE, prefetch |-> 0]
  /\ consumer = [s \in Sub |-> [state |-> "none", prefetch |-> 0]]
  /\ step = [s \in Sub |-> "new"] /\ mine = [s \in Sub |-> 0] /\ done = {}
  /\ broker = [m \in Msg |-> "none"] /\ client = [s \in Sub |-> [m \in Msg |-> "none"]]
  /\ outcome = [m \in Msg |-> "none"]
  /\ closers = [c \in Closer |-> [step |-> "idle", stopped |-> 0]] /\ handlerDone = FALSE
  /\ panicked = FALSE /\ errors = 0 /\ deadlines = 0

At(s, where) == step[s] = where
Goto(s, where) == step' = [step EXCEPT ![s] = where]
Err == errors < MaxErrors /\ errors' = errors + 1
Ok == channel.alive /\ UNCHANGED errors
Move(s, m, where) == client' = [client EXCEPT ![s][m] = where]

-----------------------------------------------------------------------------
(***************************************************************************)
(* The broker.                                                             *)
(***************************************************************************)
\* Publish: the message is on the queue when the call has returned nil.
Publish(m) ==
  /\ channel.alive /\ broker[m] = "none" /\ broker' = [broker EXCEPT ![m] = "ready"]
  /\ UNCHANGED <<busState, setup, step, mine, done, client, outcome, deadlines, closeVars, panicked, errors>>

Deliver(s, m) ==
  /\ channel.alive /\ consumer[s].state = "live" /\ broker[m] = "ready" /\ client[s][m] = "none"
  /\ consumer[s].prefetch = 0 \/ Cardinality(Holding(s)) < consumer[s].prefetch
  /\ broker' = [broker EXCEPT ![m] = "unacked"] /\ Move(s, m, "chan")
  /\ UNCHANGED <<busState, setup, step, mine, done, outcome, deadlines, closeVars, panicked, errors>>

ChannelDies ==
  /\ channel.alive /\ Err /\ channel' = [channel EXCEPT !.alive = FALSE]
  /\ broker' = [m \in Msg |-> IF broker[m] = "unacked" THEN "ready" ELSE broker[m]]
  /\ UNCHANGED <<busState, mutex, qosOwnedByPool, consumer, step, mine, done, client, outcome,
                 deadlines, closeVars, panicked>>

\* d.Ack or d.Nack; on a dead channel it only fails.
Resolve(s, m, to) ==
  /\ Move(s, m, "none")
  /\ broker' = IF channel.alive THEN [broker EXCEPT ![m] = to] ELSE broker

\* r.ch.Cancel: a tag that is not live any more takes the channel down.
Cancel(s) ==
  /\ panicked' = (panicked \/ (channel.alive /\ consumer[s].state = "cancelled"))
  /\ consumer' = [consumer EXCEPT ![s].state = "cancelled"]

-----------------------------------------------------------------------------
(***************************************************************************)
(* subscribe.                                                              *)
(***************************************************************************)
Calling == UNCHANGED <<closed, active, nextStopped, closedStopped, mine, done, msgVars, closeVars>>
Refuse(s) == Goto(s, "refused")

\* checkClosed and QueueDeclare.
Declare(s) ==
  /\ At(s, "new")
  /\ \/ closed /\ Refuse(s) /\ UNCHANGED errors
     \/ ~closed /\ Err /\ Refuse(s)
     \/ ~closed /\ Ok /\ Goto(s, "mutex")
  /\ UNCHANGED <<setup, panicked>> /\ Calling

LockConsume(s) ==
  /\ At(s, "mutex")
  /\ \/ mutex = Unlocked /\ mutex' = s /\ Goto(s, "qos")
     \/ s \in done /\ Refuse(s) /\ UNCHANGED mutex
  /\ UNCHANGED <<qosOwnedByPool, channel, consumer, panicked, errors>> /\ Calling

\* Mutant: the prefetch of a pool is not remembered.
QosForgets(s) ==
  /\ At(s, "qos") /\ Goto(s, "consume") /\ Ok
  /\ channel' = [channel EXCEPT !.prefetch = IF s \in Pooled THEN Prefetch(s) ELSE @]
  /\ UNCHANGED <<mutex, qosOwnedByPool, consumer, panicked>> /\ Calling

Qos(s) ==
  /\ At(s, "qos")
  /\ \/ /\ s \in Pooled /\ Ok /\ channel' = [channel EXCEPT !.prefetch = Prefetch(s)]
        /\ qosOwnedByPool' = TRUE /\ Goto(s, "consume") /\ UNCHANGED mutex
     \/ /\ s \in Pooled /\ Err /\ mutex' = Unlocked /\ Refuse(s) /\ UNCHANGED <<channel, qosOwnedByPool>>
     \/ /\ s \notin Pooled /\ qosOwnedByPool /\ mutex' = Unlocked /\ Refuse(s)
        /\ UNCHANGED <<channel, qosOwnedByPool, errors>>
     \/ /\ s \notin Pooled /\ ~qosOwnedByPool /\ Goto(s, "consume")
        /\ UNCHANGED <<mutex, channel, qosOwnedByPool, errors>>
  /\ UNCHANGED <<consumer, panicked>> /\ Calling

Consume(s) ==
  /\ At(s, "consume") /\ mutex' = Unlocked
  /\ \/ /\ Ok /\ Goto(s, "register")
        /\ consumer' = [consumer EXCEPT ![s] = [state |-> "live", prefetch |-> channel.prefetch]]
     \/ Err /\ Refuse(s) /\ UNCHANGED consumer
  /\ UNCHANGED <<qosOwnedByPool, channel, panicked>> /\ Calling

\* Mutant: registerConsumer starts the loop on a bus closed meanwhile.
RegisterAnyway(s) ==
  /\ At(s, "register") /\ Goto(s, "loop") /\ active' = active + 1
  /\ nextStopped' = IF active = 0 THEN nextStopped + 1 ELSE nextStopped
  /\ mine' = [mine EXCEPT ![s] = nextStopped']
  /\ UNCHANGED <<closed, closedStopped, setup, done, msgVars, closeVars, panicked, errors>>

\* registerConsumer; a bus closed meanwhile cancels the tag at the broker.
Register(s) ==
  /\ At(s, "register")
  /\ \/ /\ ~closed /\ Goto(s, "loop") /\ active' = active + 1
        /\ nextStopped' = IF active = 0 THEN nextStopped + 1 ELSE nextStopped
        /\ mine' = [mine EXCEPT ![s] = nextStopped'] /\ UNCHANGED <<consumer, panicked>>
     \/ closed /\ Refuse(s) /\ Cancel(s) /\ UNCHANGED <<active, nextStopped, mine>>
  /\ UNCHANGED <<closed, closedStopped, mutex, qosOwnedByPool, channel, done, msgVars, closeVars, errors>>

CallerCancels(s) ==
  /\ ~At(s, "new") /\ done' = done \cup {s}
  /\ UNCHANGED <<busState, setup, step, mine, msgVars, closeVars, panicked, errors>>

-----------------------------------------------------------------------------
(***************************************************************************)
(* consumeLoop.                                                            *)
(***************************************************************************)
Frame == UNCHANGED <<busState, setup, mine, done, closeVars, panicked, errors>>

\* The select of the loop: its context is done, or a delivery or the channel's end
\* arrives.
Stop(s) == At(s, "loop") /\ s \in done /\ Goto(s, "leave") /\ UNCHANGED msgVars /\ Frame

Receive(s) ==
  /\ At(s, "loop")
  /\ \/ ~channel.alive /\ In(s, "chan") = {} /\ Goto(s, "leave") /\ UNCHANGED client
     \/ \E m \in In(s, "chan") :
          \/ s \in Pooled /\ Move(s, m, "held") /\ Goto(s, "submit")
          \/ s \notin Pooled /\ Move(s, m, "run") /\ Goto(s, "handle")
  /\ UNCHANGED <<broker, outcome, deadlines>> /\ Frame

\* submitDelivery: accepted, by a free worker at once when the pool has no queue, or
\* rejected because the subscription is shutting down.
SubmitDelivery(s) ==
  /\ At(s, "submit") /\ Goto(s, "loop")
  /\ \E m \in In(s, "held") :
       \/ Cardinality(In(s, "pool")) < QueueCapacity /\ Move(s, m, "pool") /\ UNCHANGED broker
       \/ /\ QueueCapacity = 0 /\ Cardinality(In(s, "run")) < Workers
          /\ Move(s, m, "run") /\ UNCHANGED broker
       \/ s \in done /\ Resolve(s, m, "ready")
  /\ UNCHANGED <<outcome, deadlines>> /\ Frame

WorkerStarts(s, m) ==
  /\ client[s][m] = "pool" /\ Cardinality(In(s, "run")) < Workers /\ Move(s, m, "run")
  /\ UNCHANGED <<step, broker, outcome, deadlines>> /\ Frame

\* resolveDelivery and, for a panic, the deferred functions around the handler.
Resolution(result) ==
  CASE result = "ok" -> "acked"
    [] result \in {"ended", "deadline"} -> "ready"
    [] result \in {"error", "panic"} -> "dropped"

\* A handler returns; "ended" when handlerCtx was cancelled, "deadline" when a
\* context of its own was.
HandlerEnds(s, m) ==
  /\ client[s][m] = "run" /\ IF s \in Pooled THEN UNCHANGED step ELSE Goto(s, "loop")
  /\ \E result \in {"ok", "error", "panic", "ended", "deadline"} :
       /\ result = "ended" => handlerDone
       /\ result = "deadline" => deadlines < MaxDeadlines
       /\ deadlines' = IF result = "deadline" THEN deadlines + 1 ELSE deadlines
       /\ outcome' = [outcome EXCEPT ![m] = result]
       /\ Resolve(s, m, Resolution(result))
  /\ Frame

\* The deferred function: cancel the tag, drain the pool, count down.
Leave(s) ==
  /\ At(s, "leave") /\ Goto(s, "drain") /\ done' = done \cup {s} /\ Cancel(s)
  /\ UNCHANGED <<busState, mutex, qosOwnedByPool, channel, mine, msgVars, closeVars, errors>>

\* Mutant: the loop waits for deliveries that nobody reads any more.
DrainAll(s) == /\ At(s, "drain") /\ Holding(s) = {} /\ Goto(s, "count") /\ UNCHANGED msgVars /\ Frame

Drain(s) ==
  /\ At(s, "drain") /\ In(s, "pool") \cup In(s, "run") = {} /\ Goto(s, "count")
  /\ UNCHANGED msgVars /\ Frame

CountDown(s) ==
  /\ At(s, "count") /\ Goto(s, "end") /\ active' = active - 1
  /\ IF active = 1
     THEN /\ panicked' = (panicked \/ mine[s] \in closedStopped)
          /\ closedStopped' = closedStopped \cup {mine[s]}
     ELSE UNCHANGED <<panicked, closedStopped>>
  /\ UNCHANGED <<closed, nextStopped, setup, mine, done, msgVars, closeVars, errors>>

-----------------------------------------------------------------------------
(***************************************************************************)
(* Close.                                                                  *)
(***************************************************************************)
CloserGoto(c, where) == closers' = [closers EXCEPT ![c].step = where]

CloseBegins(c) ==
  /\ closers[c].step = "idle" /\ closed' = TRUE
  /\ \/ closed /\ CloserGoto(c, "again") /\ UNCHANGED done
     \/ /\ ~closed /\ closers' = [closers EXCEPT ![c] = [step |-> "wait", stopped |-> nextStopped]]
        /\ done' = done \cup Looping
  /\ UNCHANGED <<active, nextStopped, closedStopped, setup, step, mine, msgVars, handlerDone, panicked, errors>>

\* busshutdown.Wait; when the context ends the handlers' context ends with it.
CloseReturns(c) ==
  /\ closers[c].step = "wait"
  /\ \/ closers[c].stopped \in closedStopped /\ CloserGoto(c, "nil") /\ UNCHANGED handlerDone
     \/ CloserGoto(c, "late") /\ handlerDone' = TRUE
  /\ UNCHANGED <<busState, setup, step, mine, done, msgVars, panicked, errors>>

Call(s) == Declare(s) \/ LockConsume(s) \/ Qos(s) \/ Consume(s) \/ Register(s)
ConsumeLoop(s) ==
  \/ Call(s) \/ Stop(s) \/ Receive(s) \/ SubmitDelivery(s) \/ Leave(s) \/ Drain(s) \/ CountDown(s)
Delivery(s) == \E m \in Msg : Deliver(s, m)
Work(s) == \E m \in Msg : WorkerStarts(s, m) \/ HandlerEnds(s, m)

Next ==
  \/ \E m \in Msg : Publish(m)
  \/ \E s \in Sub : CallerCancels(s) \/ Delivery(s) \/ ConsumeLoop(s) \/ Work(s)
  \/ \E c \in Closer : CloseBegins(c) \/ CloseReturns(c)
  \/ ChannelDies

\* The broker answers, handlers return and goroutines run on; a select whose
\* context is done takes that case in the end, Go choosing at random.
Fairness ==
  /\ \A s \in Sub : /\ WF_vars(ConsumeLoop(s)) /\ SF_vars(Stop(s)) /\ WF_vars(Work(s))
                    /\ WF_vars(Delivery(s))
  /\ \A c \in Closer : WF_vars(CloseReturns(c))

Spec == Init /\ [][Next]_vars /\ Fairness

-----------------------------------------------------------------------------
(***************************************************************************)
(* Properties.                                                             *)
(***************************************************************************)
Contract == INSTANCE BusContract WITH
  Invocation <- Sub \X Msg,
  running <- {i \in Sub \X Msg : client[i[1]][i[2]] = "run"},
  returned <- \E c \in Closer : closers[c].step = "nil"

\* Once the Close call that closed the bus has returned nil no handler runs or
\* starts, however Subscribe calls, whatever they share, race with it.
RabbitCloseSettles == Contract!Spec

\* No stopped channel is closed twice and no consumer tag cancelled twice, the two
\* mistakes that would take the process or the shared channel down.
RabbitNoPanic == ~panicked

\* Every consumer has the prefetch its own call asked for: no pool's prefetch
\* reaches a plain consumer, however their calls interleave or fail.
RabbitOwnPrefetch == \A s \in Sub : consumer[s].state = "live" => consumer[s].prefetch = Prefetch(s)

\* A delivery is acknowledged once: while the channel lives, what a consumer holds
\* is unacknowledged at the broker and held by no other.
RabbitResolvedOnce ==
  channel.alive => \A s \in Sub : \A m \in Holding(s) :
    broker[m] = "unacked" /\ \A t \in Sub \ {s} : m \notin Holding(t)

\* The broker drops a message only when its last handler failed or panicked: a
\* shutdown, a full pool or an ended context never loses one.
RabbitDropsFailed == \A m \in Msg : broker[m] = "dropped" => outcome[m] \in {"error", "panic"}

\* Every loop whose subscription or bus ends does end, a Close call under way or not.
RabbitLoopsEnd == \A s \in Sub : (s \in Looping /\ s \in done) ~> At(s, "end")

\* A message a running loop could take is acknowledged or dropped in the end,
\* unless no loop is left, or the message was on its way to a loop that ended (it
\* stays unacknowledged until the channel closes).
RabbitDelivers ==
  \A m \in Msg : (broker[m] = "ready" /\ \E s \in Sub : At(s, "loop") /\ s \notin done) ~>
    \/ broker[m] \in {"acked", "dropped"} \/ ~channel.alive \/ Looping \subseteq done
    \/ \E s \in Sub : client[s][m] = "chan" /\ s \in done
===============================================================================
