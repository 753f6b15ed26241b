------------------------------- MODULE JetStream -------------------------------
(***************************************************************************)
(* The durable consumer of the JetStream event bus (nats/jetstream.go):     *)
(* SubscribeDurable, the pull loop with its batches and fetch errors, the   *)
(* acknowledgement of a message, and Close.                                 *)
(*                                                                         *)
(* The server is external: it keeps the stream, the named consumer with the *)
(* configuration it was given, and per message how often it was delivered   *)
(* and whether that delivery waits for its acknowledgement.                 *)
(***************************************************************************)
EXTENDS Naturals, Sequences, Functions, FiniteSets

CONSTANTS
  N,           \* messages 1..N of the stream
  Loop,        \* SubscribeDurable calls with one consumer name
  Want,        \* per call [policy, conf]: ReplayPolicy; MaxDeliver and AckWait
  BatchSize, MaxDeliver,
  Republish,   \* deadLetterSuffix is not empty
  MaxBackoff,  \* of the fetch backoff, in units of the initial one
  Faults, MaxFaults

Message == 1..N
NoConsumer == [policy |-> "none", conf |-> 0, from |-> 0]

(***************************************************************************)
(* "expire": a handler outlasts the wait for its answer; "ack": an Ack, Nak *)
(* or Term is lost; "publish": the dead-letter copy is refused; "fetch": a     *)
(* fetch fails; "call": a call of SubscribeDurable fails; "delete": someone *)
(* deletes the consumer; "crash": the process of a loop dies.               *)
(***************************************************************************)
Kinds == {"expire", "ack", "publish", "fetch", "call", "delete", "crash"}

VARIABLES
  stored,     \* external: number of messages in the stream
  consumer,   \* external: NoConsumer, or the consumer's configuration
  state,      \* external: per message "new", "out", "again", "acked", "termed", "exhausted"
  count,      \* external: per message its deliveries
  copies,     \* external: per message its copies on the dead-letter subject
  closed, done,  \* j.closed; loops whose context is done
  loop,       \* per call: step, batch of <<message, delivery>>, backoff
  closer,     \* "idle", "wait", "nil" or "late"
  order,      \* history: messages in the order their handlers first ran
  acks,       \* history: messages a handler returned Ack for
  lapsed,     \* history: messages with a delivery whose wait for an answer ended
  faults

server == <<stored, consumer, state, count, copies>>
vars == <<server, closed, done, loop, closer, order, acks, lapsed, faults>>

JetTypeOK ==
  /\ stored \in 0..N /\ closed \in BOOLEAN /\ done \subseteq Loop /\ acks \cup lapsed \subseteq Message
  /\ state \in [Message -> {"new", "out", "again", "acked", "termed", "exhausted"}]
  /\ \A m \in Message : count[m] \in 0..MaxDeliver /\ (count[m] = 0) = (state[m] = "new")
  /\ \A l \in Loop : /\ loop[l].backoff \in 1..MaxBackoff /\ Len(loop[l].batch) <= BatchSize
                     /\ (loop[l].batch = <<>>) = (loop[l].step \notin {"handle", "copy", "term"})
  /\ closer \in {"idle", "wait", "nil", "late"}

Init ==
  /\ stored = 0 /\ consumer = NoConsumer /\ state = [m \in Message |-> "new"]
  /\ count = [m \in Message |-> 0] /\ copies = [m \in Message |-> 0]
  /\ closed = FALSE /\ done = {} /\ closer = "idle" /\ order = <<>> /\ acks = {} /\ lapsed = {}
  /\ loop = [l \in Loop |-> [step |-> "new", batch |-> <<>>, backoff |-> 1]]
  /\ faults = {}

\* Each kind of fault at most once, MaxFaults kinds at most.
Fails(kind) == /\ kind \in Faults \ faults /\ Cardinality(faults) < MaxFaults
               /\ faults' = faults \cup {kind}
Works == UNCHANGED faults
Happened(kind) == kind \in faults

At(l, step) == loop[l].step = step
Goto(l, step) == loop' = [loop EXCEPT ![l].step = step]
Running == {l \in Loop : loop[l].step \in {"fetch", "handle", "copy", "term"}}

-----------------------------------------------------------------------------
(***************************************************************************)
(* The server.                                                             *)
(***************************************************************************)
Publish ==
  /\ stored < N /\ stored' = stored + 1
  /\ UNCHANGED <<consumer, state, count, copies, closed, done, loop, closer, order, acks, lapsed, faults>>

Unavailable(m) == IF count[m] < MaxDeliver THEN "again" ELSE "exhausted"

Held(m) == \E l \in Loop : \E i \in DOMAIN loop[l].batch : loop[l].batch[i][1] = m

\* Nobody holds the message any more, or its loop is slower than the wait.
AckWaitExpires(m) ==
  /\ state[m] = "out" /\ IF Held(m) THEN Fails("expire") ELSE Works
  /\ state' = [state EXCEPT ![m] = Unavailable(m)] /\ lapsed' = lapsed \cup {m}
  /\ UNCHANGED <<stored, consumer, count, copies, closed, done, loop, closer, order, acks>>

DeleteConsumer ==
  /\ consumer # NoConsumer /\ Fails("delete") /\ consumer' = NoConsumer
  /\ UNCHANGED <<stored, state, count, copies, closed, done, loop, closer, order, acks, lapsed>>

Waiting == {m \in Message : m \in consumer.from..stored /\ state[m] = "new"}

\* What a fetch may be given: redeliveries come first, then the new messages from the
\* oldest on, both in the order of the stream.
IsBatch(b) ==
  /\ \A i \in DOMAIN b : b[i] \in Waiting \/ state[b[i]] = "again"
  /\ \A i, j \in DOMAIN b : i < j =>
       \/ state[b[i]] = state[b[j]] /\ b[i] < b[j]
       \/ state[b[i]] = "again" /\ state[b[j]] = "new"
  /\ \A i \in DOMAIN b : state[b[i]] = "new" =>
       \A m \in Waiting : m < b[i] => \E j \in DOMAIN b : b[j] = m

-----------------------------------------------------------------------------
(***************************************************************************)
(* SubscribeDurable.                                                       *)
(***************************************************************************)
Calling == UNCHANGED <<stored, state, count, copies, closed, done, closer, order, acks, lapsed>>

\* What ensureDurableConsumer leaves: a new consumer, or the existing one with this
\* call's options and the deliver policy it had.
Ensured(l) ==
  IF consumer = NoConsumer
  THEN [policy |-> Want[l].policy, conf |-> Want[l].conf,
        from |-> IF Want[l].policy = "new" THEN stored + 1 ELSE 1]
  ELSE [consumer EXCEPT !.conf = Want[l].conf]

EnsureDurableConsumer(l) ==
  /\ At(l, "new") /\ l \notin done
  /\ \/ closed /\ Goto(l, "refused") /\ Works /\ UNCHANGED consumer
     \/ ~closed /\ Works /\ consumer' = Ensured(l) /\ Goto(l, "attach")
     \/ ~closed /\ Fails("call") /\ consumer' \in {consumer, Ensured(l)} /\ Goto(l, "refused")
  /\ Calling

\* PullSubscribe refuses a consumer that is gone or configured differently.
PullSubscribe(l) ==
  /\ At(l, "attach") /\ UNCHANGED consumer /\ Works
  /\ Goto(l, IF consumer # NoConsumer /\ consumer.conf = Want[l].conf THEN "register" ELSE "refused")
  /\ Calling

\* Mutant: a bus closed meanwhile is not noticed.
RegisterAnyway(l) ==
  /\ At(l, "register") /\ Goto(l, "fetch") /\ UNCHANGED consumer /\ Works /\ Calling

Register(l) ==
  /\ At(l, "register") /\ Goto(l, IF closed THEN "refused" ELSE "fetch")
  /\ UNCHANGED consumer /\ Works /\ Calling

CallerCancels(l) ==
  /\ l \in Running /\ done' = done \cup {l}
  /\ UNCHANGED <<server, closed, loop, closer, order, acks, lapsed, faults>>

-----------------------------------------------------------------------------
(***************************************************************************)
(* durableConsumeLoop.                                                     *)
(***************************************************************************)
Looping == UNCHANGED <<stored, consumer, copies, closed, done, closer, lapsed>>

\* The loop's condition.
Stop(l) == /\ At(l, "fetch") /\ l \in done /\ Goto(l, "end")
           /\ UNCHANGED <<state, count, order, acks, faults>> /\ Looping

Fetch(l) ==
  /\ At(l, "fetch") /\ l \notin done /\ consumer # NoConsumer
  /\ \E n \in 1..BatchSize : \E b \in [1..n -> Message] :
       /\ IsBatch(b)
       /\ count' = [m \in Message |-> IF m \in Range(b) THEN count[m] + 1 ELSE count[m]]
       /\ state' = [m \in Message |-> IF m \in Range(b) THEN "out" ELSE state[m]]
       /\ loop' = [loop EXCEPT ![l] = [step |-> "handle", backoff |-> 1,
                                       batch |-> [i \in 1..n |-> <<b[i], count'[b[i]]>>]]]
  /\ UNCHANGED <<order, acks, faults>> /\ Looping

\* classifyTerminalFetchError: no responders is terminal only if a lookup, which may
\* itself fail, says that the consumer does not exist.
Terminal(err) ==
  \/ err = "gone"
  \/ err = "noresponders" /\ consumer = NoConsumer

\* nextDurableFetchBackoff.
NextBackoff(d) == IF 2 * d > MaxBackoff THEN MaxBackoff ELSE 2 * d

\* handleDurableFetchError; a fetch that times out polls again at once.
FetchFails(l) ==
  /\ At(l, "fetch")
  /\ \/ /\ consumer = NoConsumer /\ Works
        /\ \E err \in {"gone", "noresponders", "other"} :
             loop' = IF Terminal(err) \/ l \in done THEN [loop EXCEPT ![l].step = "end"]
                     ELSE [loop EXCEPT ![l].backoff = NextBackoff(@)]
     \/ /\ consumer # NoConsumer /\ Fails("fetch")
        /\ \E err \in {"noresponders", "other"} :
             loop' = IF Terminal(err) \/ l \in done THEN [loop EXCEPT ![l].step = "end"]
                     ELSE [loop EXCEPT ![l].backoff = NextBackoff(@)]
     \/ consumer # NoConsumer /\ Works /\ Waiting = {} /\ loop' = [loop EXCEPT ![l].backoff = 1]
  /\ UNCHANGED <<state, count, order, acks>> /\ Looping

Current(l) == Head(loop[l].batch)[1]
Delivery(l) == Head(loop[l].batch)[2]

\* The rest of the batch, unless the context is done.
Continue(l) ==
  LET rest == Tail(loop[l].batch) IN
  loop' = [loop EXCEPT ![l].batch = IF l \in done THEN <<>> ELSE rest,
                       ![l].step = IF l \in done THEN "end" ELSE IF rest = <<>> THEN "fetch" ELSE "handle"]

LastDelivery(l) == Delivery(l) >= MaxDeliver

\* What the server makes of an acknowledgement of the delivery in hand; a negative
\* one counts only for the latest delivery.
Resolved(l, how) ==
  LET m == Current(l) IN
  IF how = "again" /\ (state[m] # "out" \/ count[m] # Delivery(l)) THEN state
  ELSE [state EXCEPT ![m] = IF how = "again" THEN Unavailable(m) ELSE how]

Resolve(l, how) ==
  /\ \/ Works /\ state' = Resolved(l, how)
     \/ Fails("ack") /\ UNCHANGED state
  /\ Continue(l)

\* handleDurableMessage: a panic or an unknown decision counts as Nack.
HandleDurableMessage(l) ==
  LET m == Current(l) IN
  /\ At(l, "handle")
  /\ order' = IF m \in Range(order) THEN order ELSE Append(order, m)
  /\ \E decision \in {"ack", "nack", "deadletter"} :
       \/ decision = "ack" /\ acks' = acks \cup {m} /\ Resolve(l, "acked")
       \/ /\ decision = "nack" /\ ~LastDelivery(l) /\ UNCHANGED acks
          /\ Resolve(l, "again")
       \/ /\ decision = "deadletter" \/ (decision = "nack" /\ LastDelivery(l))
          /\ Goto(l, "copy") /\ UNCHANGED <<acks, state, faults>>
  /\ UNCHANGED count /\ Looping

\* Mutant: Term comes before the copy.
DeadLetterTermsFirst(l) ==
  \/ /\ At(l, "copy") /\ Goto(l, "term") /\ Works /\ state' = Resolved(l, "termed")
     /\ UNCHANGED <<copies, count, order, acks, stored, consumer, closed, done, closer, lapsed>>
  \/ /\ At(l, "term") /\ copies' = [copies EXCEPT ![Current(l)] = @ + 1] /\ Continue(l) /\ Works
     /\ UNCHANGED <<state, count, order, acks, stored, consumer, closed, done, closer, lapsed>>

\* Mutant: a refused copy is waited for.
DeadLetterHangs(l) ==
  \/ /\ At(l, "copy") /\ ~Happened("publish")
     /\ \/ Works /\ Goto(l, "term") /\ copies' = [copies EXCEPT ![Current(l)] = @ + 1]
        \/ Fails("publish") /\ UNCHANGED <<copies, loop>>
     /\ UNCHANGED <<state, count, order, acks, stored, consumer, closed, done, closer, lapsed>>
  \/ At(l, "term") /\ Resolve(l, "termed") /\ UNCHANGED <<count, order, acks>> /\ Looping

\* deadLetter: republish, then terminate, also when the copy was refused.
DeadLetter(l) ==
  \/ /\ At(l, "copy") /\ Goto(l, "term")
     /\ \/ Republish /\ Works /\ copies' = [copies EXCEPT ![Current(l)] = @ + 1]
        \/ Republish /\ Fails("publish") /\ UNCHANGED copies
        \/ ~Republish /\ Works /\ UNCHANGED copies
     /\ UNCHANGED <<state, count, order, acks, stored, consumer, closed, done, closer, lapsed>>
  \/ /\ At(l, "term") /\ Resolve(l, "termed")
     /\ UNCHANGED <<count, order, acks>> /\ Looping

\* Process death: the loop is gone with what it held.
Crash(l) ==
  /\ l \in Running /\ Fails("crash")
  /\ loop' = [loop EXCEPT ![l].step = "dead", ![l].batch = <<>>]
  /\ UNCHANGED <<server, closed, done, closer, order, acks, lapsed>>

-----------------------------------------------------------------------------
CloseBegins ==
  /\ closer = "idle" /\ closer' = "wait" /\ closed' = TRUE /\ done' = done \cup Running
  /\ UNCHANGED <<server, loop, order, acks, lapsed, faults>>

\* busshutdown.WaitGroup; Unsubscribe leaves the consumer in place.
CloseReturns ==
  /\ closer = "wait" /\ \/ Running = {} /\ closer' = "nil"
                        \/ closer' = "late"
  /\ UNCHANGED <<server, closed, done, loop, order, acks, lapsed, faults>>

Call(l) == EnsureDurableConsumer(l) \/ PullSubscribe(l) \/ Register(l)
Turn(l) == Stop(l) \/ Fetch(l) \/ FetchFails(l) \/ HandleDurableMessage(l) \/ DeadLetter(l)

Next ==
  \/ Publish \/ DeleteConsumer \/ CloseBegins \/ CloseReturns
  \/ \E m \in Message : AckWaitExpires(m)
  \/ \E l \in Loop : Call(l) \/ CallerCancels(l) \/ Turn(l) \/ Crash(l)

\* Handlers return, loops run on, and the server answers a fetch.
Fairness ==
  /\ \A l \in Loop : /\ WF_vars(Call(l)) /\ WF_vars(Stop(l)) /\ WF_vars(Fetch(l))
                     /\ WF_vars(HandleDurableMessage(l)) /\ WF_vars(DeadLetter(l))
  /\ WF_vars(CloseReturns) /\ \A m \in Message : WF_vars(~Held(m) /\ AckWaitExpires(m))

Spec == Init /\ [][Next]_vars /\ Fairness

-----------------------------------------------------------------------------
(***************************************************************************)
(* Properties.                                                             *)
(***************************************************************************)
Contract == INSTANCE BusContract WITH
  Invocation <- Loop, running <- {l \in Loop : loop[l].step \in {"handle", "copy", "term"}},
  returned <- closer = "nil"

\* Once Close has returned nil no handler runs or starts, a SubscribeDurable call
\* under way during Close included.
JetCloseSettles == Contract!Spec

\* A message is acknowledged only after a handler returned Ack for it, whichever of
\* its deliveries that was.
JetAcksHandled == \A m \in Message : state[m] = "acked" => m \in acks

\* A message whose deliveries are used up has been acknowledged or went the way of
\* the dead letter: it does not vanish, unless the wait for an answer to a delivery
\* of it ended first.
JetNeverVanishes == \A m \in Message : state[m] = "exhausted" => m \in lapsed

\* A terminated message has a copy on the dead-letter subject before it is
\* terminated, unless the copy was refused or none is wanted.
JetTermedIsCopied ==
  \A m \in Message : state[m] = "termed" => copies[m] > 0 \/ Happened("publish") \/ ~Republish

\* One loop runs the handler first for the older message: Nack and redelivery do
\* not let a later message overtake its first run.
JetInOrder ==
  lapsed # {} \/ (\E l, k \in Loop : l # k /\ ~At(l, "new") /\ ~At(k, "new"))
  \/ \A i, j \in 1..Len(order) : i < j => order[i] < order[j]

\* A loop ends only when it is cancelled, its process dies or the consumer is gone: a
\* failing fetch or a server without a leader never ends a subscription for good.
JetLoopSurvives == \A l \in Loop : At(l, "end") => l \in done \/ Happened("delete")

\* No Close call or later deployment deletes the consumer or changes where it
\* started; only its options are brought in line.
JetConsumerKept ==
  [][consumer # NoConsumer =>
       \/ consumer'.policy = consumer.policy /\ consumer'.from = consumer.from
       \/ Happened("delete")']_vars

\* With a loop running, every stored message that the consumer covers is resolved.
JetResolves ==
  \A m \in Message : (Running \ done # {} /\ state[m] # "new") ~>
    (state[m] \in {"acked", "termed", "exhausted"} \/ Running \subseteq done \/ consumer = NoConsumer)
===============================================================================
