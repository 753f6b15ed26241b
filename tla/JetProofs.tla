------------------------------- MODULE JetProofs -------------------------------
(***************************************************************************)
(* Proofs about the durable consumers of JetStream, for any loops, stream,  *)
(* batch size and limits: what the stream, the loops and the consumer owe   *)
(* one another, the order of first runs, and what Close promises.           *)
(***************************************************************************)
EXTENDS JetPromises, Sequences, TLAPS

-----------------------------------------------------------------------------
(***************************************************************************)
(* JetStream.                                                              *)
(***************************************************************************)
JPlace == {"new", "out", "again", "acked", "termed", "exhausted"}
JStep == {"new", "refused", "attach", "register", "fetch", "handle", "copy", "term", "end", "dead"}
LoopState == [step : JStep, batch : Seq(J!Message \X Nat), backoff : 1 .. MaxBackoff]

ConsumerOK(c) ==
  \/ c = J!NoConsumer
  \/ c.from \in Nat \ {0} /\ c = [policy |-> c.policy, conf |-> c.conf, from |-> c.from]

JTypes ==
  /\ jStored \in 0 .. N /\ jClosed \in BOOLEAN /\ jDone \subseteq Loop
  /\ jAcks \subseteq J!Message /\ jLapsed \subseteq J!Message
  /\ jState \in [J!Message -> JPlace] /\ jCount \in [J!Message -> 0 .. MaxDeliver]
  /\ jCopies \in [J!Message -> Nat] /\ jLoop \in [Loop -> LoopState] /\ jOrder \in Seq(J!Message)
  /\ jCloser \in {"idle", "wait", "nil", "late"}
  /\ ConsumerOK(jConsumer)

Copied(m) == jCopies[m] > 0 \/ "publish" \in jFaults \/ ~Republish

\* The server knows of every delivery in a batch, and a message that is terminated was
\* copied before.
JBatchAt(l) ==
  /\ Len(jLoop[l].batch) <= BatchSize
  /\ jLoop[l].batch = <<>> <=> jLoop[l].step \notin {"handle", "copy", "term"}
  /\ \A i \in 1 .. Len(jLoop[l].batch) :
       1 <= jLoop[l].batch[i][2] /\ jLoop[l].batch[i][2] <= jCount[jLoop[l].batch[i][1]]
  /\ jLoop[l].step = "term" => Copied(jLoop[l].batch[1][1])

\* What became of a message says what was done for it.
JCountAt(m) ==
  /\ jCount[m] = 0 <=> jState[m] = "new"
  /\ jState[m] = "again" => jCount[m] < MaxDeliver
  /\ jState[m] = "acked" => m \in jAcks
  /\ jState[m] = "exhausted" => m \in jLapsed
  /\ jState[m] = "termed" => Copied(m)

\* A loop has a consumer unless someone deleted it, and ends only for that or when it is
\* cancelled.
JLiveAt(l) ==
  /\ jLoop[l].step \in {"register", "fetch", "handle", "copy", "term"} =>
       jConsumer # J!NoConsumer \/ "delete" \in jFaults
  /\ jLoop[l].step = "end" => l \in jDone \/ "delete" \in jFaults

JCloseInv == (jClosed <=> jCloser # "idle") /\ (jCloser = "nil" => J!Running = {})

JInv == /\ JTypes /\ JCloseInv /\ \A m \in J!Message : JCountAt(m)
        /\ \A l \in Loop : JBatchAt(l) /\ JLiveAt(l)

\* One loop alone, with every answer in time: it has run the handlers of all that was
\* fetched, or has them in its batch, the ones for the first time last and in order; what
\* was fetched has no gaps.
Ran == J!Range(jOrder)
Alone == jLapsed = {} /\ \A l, k \in Loop : l # k => jLoop[l].step = "new" \/ jLoop[k].step = "new"

First(l) == jLoop[l].batch[1][1]

\* All that was delivered has been handled, or is in the batch.
Covers(count, b, ran) ==
  \A m \in J!Message : count[m] > 0 => m \in ran \/ \E i \in 1 .. Len(b) : b[i][1] = m

\* What is in the batch for the first time comes after all that was handled, in order.
Ascends(b, ran) ==
  \A i \in 1 .. Len(b) : b[i][1] \notin ran =>
    /\ \A m \in ran : m < b[i][1]
    /\ \A j \in i + 1 .. Len(b) : b[i][1] < b[j][1]

JOrderAt(l) ==
  /\ jLoop[l].step \in {"copy", "term"} => First(l) \in Ran
  /\ jLoop[l].step \in {"fetch", "handle", "copy", "term"} => Covers(jCount, jLoop[l].batch, Ran)
  /\ Ascends(jLoop[l].batch, Ran)

NotBegun == \A l \in Loop : jLoop[l].step \in {"new", "attach", "register", "refused"}
NoneOut == \A m \in J!Message : jCount[m] = 0

\* What was delivered are the messages from the consumer's start on.
NoGaps ==
  jConsumer # J!NoConsumer => \A m \in J!Message : jCount[m] > 0 =>
    m >= jConsumer.from /\ \A k \in jConsumer.from .. m : jCount[k] > 0

InStep ==
  /\ \A i, j \in 1 .. Len(jOrder) : i < j => jOrder[i] < jOrder[j]
  /\ \A m \in Ran : jCount[m] > 0
  /\ NoGaps /\ \A l \in Loop : JOrderAt(l)

JOrderInv == (NotBegun => NoneOut) /\ (Alone => InStep)

-----------------------------------------------------------------------------
(***************************************************************************)
(* What each step does to the messages, the loops and the consumer.        *)
(***************************************************************************)
\* Loop l goes to a step with a batch in hand.
Leaps(l, y, b) ==
  \A k \in Loop : /\ jLoop'[k].step = IF k = l THEN y ELSE jLoop[k].step
                  /\ jLoop'[k].batch = IF k = l THEN b ELSE jLoop[k].batch

\* Loop l is done with the first message of its batch.
Proceeds(l) ==
  \/ l \in jDone /\ Leaps(l, "end", <<>>)
  \/ Tail(jLoop[l].batch) = <<>> /\ Leaps(l, "fetch", <<>>)
  \/ Tail(jLoop[l].batch) # <<>> /\ Leaps(l, "handle", Tail(jLoop[l].batch))

Becomes(m, y) == \A n \in J!Message : jState'[n] = IF n = m THEN y ELSE jState[n]

JStill == /\ UNCHANGED <<jState, jCount, jOrder, jLoop>>
          /\ UNCHANGED jConsumer \/ jConsumer' = J!NoConsumer

Expires(m) ==
  /\ jState[m] = "out" /\ m \in jLapsed' /\ UNCHANGED <<jCount, jOrder, jLoop, jConsumer>>
  /\ \/ jCount[m] < MaxDeliver /\ Becomes(m, "again")
     \/ Becomes(m, "exhausted")

Walks(l, from, y) == jLoop[l].step = from /\ Leaps(l, y, jLoop[l].batch)

Calls(l) ==
  /\ \/ Walks(l, "new", "attach") \/ Walks(l, "new", "refused")
     \/ /\ UNCHANGED jConsumer
        /\ \/ Walks(l, "attach", "refused") \/ Walks(l, "register", "refused")
           \/ Walks(l, "attach", "register") /\ jConsumer # J!NoConsumer
           \/ Walks(l, "register", "fetch") /\ ~jClosed
           \/ Walks(l, "fetch", "fetch")
           \/ Walks(l, "fetch", "end") /\ (l \in jDone \/ jConsumer = J!NoConsumer)
  /\ UNCHANGED <<jState, jCount, jOrder>>

Fetches(l, b) ==
  /\ jLoop[l].step = "fetch" /\ jConsumer # J!NoConsumer /\ J!IsBatch(b)
  /\ \A m \in J!Message :
       /\ jCount'[m] = IF m \in J!Range(b) THEN jCount[m] + 1 ELSE jCount[m]
       /\ jState'[m] = IF m \in J!Range(b) THEN "out" ELSE jState[m]
  /\ Leaps(l, "handle", [i \in DOMAIN b |-> <<b[i], jCount'[b[i]]>>])
  /\ UNCHANGED <<jOrder, jConsumer>>

Handles(l) ==
  /\ jLoop[l].step = "handle" /\ UNCHANGED <<jCount, jConsumer>>
  /\ jOrder' = IF First(l) \in Ran THEN jOrder ELSE Append(jOrder, First(l))
  /\ \/ /\ Proceeds(l)
        /\ \/ UNCHANGED jState
           \/ First(l) \in jAcks' /\ Becomes(First(l), "acked")
           \/ jCount[First(l)] < MaxDeliver /\ Becomes(First(l), "again")
     \/ UNCHANGED jState /\ Leaps(l, "copy", jLoop[l].batch)

Republishes(l) ==
  /\ jLoop[l].step = "copy" /\ Leaps(l, "term", jLoop[l].batch) /\ Copied(First(l))'
  /\ UNCHANGED <<jState, jCount, jOrder, jConsumer>>

Terms(l) ==
  /\ jLoop[l].step = "term" /\ Proceeds(l) /\ UNCHANGED <<jCount, jOrder, jConsumer>>
  /\ UNCHANGED jState \/ Becomes(First(l), "termed")

Crashes(l) ==
  /\ jLoop[l].step \in {"fetch", "handle", "copy", "term"} /\ Leaps(l, "dead", <<>>)
  /\ UNCHANGED <<jState, jCount, jOrder, jConsumer>>

\* Nothing that happened is undone.
JGrows == /\ jDone \subseteq jDone' /\ jFaults \subseteq jFaults' /\ jAcks \subseteq jAcks'
          /\ jLapsed \subseteq jLapsed' /\ \A m \in J!Message : jCopies'[m] >= jCopies[m]

JEffect ==
  \/ JStill
  \/ \E m \in J!Message : Expires(m)
  \/ \E l \in Loop : \/ Calls(l) \/ Handles(l) \/ Republishes(l) \/ Terms(l) \/ Crashes(l)
                     \/ \E n \in 1 .. BatchSize : \E b \in [1 .. n -> J!Message] : Fetches(l, b)

\* The message in hand, and its delivery, are the first of the batch; the server counted
\* that delivery.
LEMMA FirstOfBatch ==
  ASSUME JTypes, NEW l \in Loop, JBatchAt(l), jLoop[l].step \in {"handle", "copy", "term"}
  PROVE  /\ jLoop[l].batch \in Seq(J!Message \X Nat) /\ Len(jLoop[l].batch) \in Nat
         /\ 1 <= Len(jLoop[l].batch) /\ First(l) \in J!Message
         /\ J!Current(l) = First(l) /\ J!Delivery(l) = jLoop[l].batch[1][2]
         /\ J!Delivery(l) \in 1 .. jCount[First(l)] /\ jCount[First(l)] \in 1 .. MaxDeliver
<1>1. jLoop[l].batch \in Seq(J!Message \X Nat) /\ jLoop[l].batch # <<>>
  BY Zenon DEF JTypes, LoopState, JBatchAt
<1>2. /\ Len(jLoop[l].batch) \in Nat /\ 1 <= Len(jLoop[l].batch)
      /\ Head(jLoop[l].batch) = jLoop[l].batch[1] /\ jLoop[l].batch[1] \in J!Message \X Nat
  BY <1>1
<1>3. First(l) \in J!Message /\ jLoop[l].batch[1][2] \in Nat
  BY <1>2, Zenon DEF First
<1>4. 1 <= jLoop[l].batch[1][2] /\ jLoop[l].batch[1][2] <= jCount[First(l)]
  BY <1>2 DEF JBatchAt, First
<1>5. jCount[First(l)] \in 0 .. MaxDeliver
  BY <1>3, Zenon DEF JTypes
<1>6. J!Current(l) = First(l) /\ J!Delivery(l) = jLoop[l].batch[1][2]
  BY <1>2, Zenon DEF J!Current, J!Delivery, First
<1>7. ASSUME NEW d \in Nat, NEW c \in 0 .. MaxDeliver, 1 <= d, d <= c
      PROVE  d \in 1 .. c /\ c \in 1 .. MaxDeliver
  BY <1>7, StreamAssumption
<1>8. jLoop[l].batch[1][2] \in 1 .. jCount[First(l)] /\ jCount[First(l)] \in 1 .. MaxDeliver
  BY <1>3, <1>4, <1>5, <1>7, Zenon
<1> QED
  BY <1>1, <1>2, <1>3, <1>6, <1>8, Zenon

\* A loop that goes to a step keeps its batch.
LEMMA GotoLeaps ==
  ASSUME JTypes, NEW l \in Loop, NEW y, J!Goto(l, y) PROVE Leaps(l, y, jLoop[l].batch)
  BY Zenon DEF JTypes, LoopState, J!Goto, Leaps

\* So does one that waits before its next fetch.
LEMMA WaitLeaps ==
  ASSUME JTypes, NEW l \in Loop, NEW d, jLoop' = [jLoop EXCEPT ![l].backoff = d]
  PROVE  Leaps(l, jLoop[l].step, jLoop[l].batch)
  BY Zenon DEF JTypes, LoopState, Leaps

\* The rest of a batch comes next.
LEMMA ContinueProceeds ==
  ASSUME JTypes, NEW l \in Loop, J!Continue(l) PROVE Proceeds(l)
<1> DEFINE rest == Tail(jLoop[l].batch)
           b == IF l \in jDone THEN <<>> ELSE rest
           y == IF l \in jDone THEN "end" ELSE IF rest = <<>> THEN "fetch" ELSE "handle"
<1>1. jLoop' = [jLoop EXCEPT ![l].batch = b, ![l].step = y]
  BY Zenon DEF J!Continue
<1>2. Leaps(l, y, b)
  <2> HIDE DEF b, y
  <2> QED
    BY <1>1, Zenon DEF JTypes, LoopState, Leaps
<1> QED
  BY <1>2, Zenon DEF Proceeds

\* An answer that counts.
LEMMA ResolvedBecomes ==
  ASSUME JTypes, NEW l \in Loop, JBatchAt(l), jLoop[l].step \in {"handle", "copy", "term"},
         NEW how, J!Resolve(l, how), how = "again" => ~J!LastDelivery(l)
  PROVE  /\ Proceeds(l)
         /\ \/ UNCHANGED jState
            \/ how # "again" /\ Becomes(First(l), how)
            \/ jCount[First(l)] < MaxDeliver /\ Becomes(First(l), "again")
<1>1. Proceeds(l)
  BY ContinueProceeds, Zenon DEF J!Resolve
<1>2. J!Current(l) = First(l) /\ First(l) \in J!Message
  BY FirstOfBatch, Zenon
<1>3. CASE UNCHANGED jState
  BY <1>1, <1>3, Zenon
<1>4. CASE how = "again" /\ jState' = J!Resolved(l, how) /\ jState' # jState
  <2>1. /\ jCount[First(l)] = J!Delivery(l)
        /\ jState' = [jState EXCEPT ![First(l)] = J!Unavailable(First(l))]
    BY <1>2, <1>4, Zenon DEF J!Resolved
  <2>2. J!Delivery(l) < MaxDeliver
    BY <1>4, FirstOfBatch, StreamAssumption DEF J!LastDelivery
  <2>3. jState' = [jState EXCEPT ![First(l)] = "again"]
    BY <2>1, <2>2, Zenon DEF J!Unavailable
  <2>4. Becomes(First(l), "again")
    BY <1>2, <2>3, Zenon DEF JTypes, Becomes
  <2> QED
    BY <1>1, <2>1, <2>2, <2>4, Zenon
<1>5. CASE how # "again" /\ jState' = J!Resolved(l, how)
  <2>1. jState' = [jState EXCEPT ![First(l)] = how]
    BY <1>2, <1>5, Zenon DEF J!Resolved
  <2> QED
    BY <1>1, <1>2, <1>5, <2>1, Zenon DEF JTypes, Becomes
<1> QED
  BY <1>3, <1>4, <1>5, Zenon DEF J!Resolve

\* The steps of SubscribeDurable and the ones around a fetch.
LEMMA CallEffect ==
  ASSUME JTypes, NEW l \in Loop, J!Call(l) \/ J!Stop(l) \/ J!FetchFails(l) PROVE Calls(l)
<1> USE DEF J!At, J!Calling, J!Looping
<1>1. CASE J!EnsureDurableConsumer(l)
  <2>1. J!Goto(l, "attach") \/ J!Goto(l, "refused")
    BY <1>1, Zenon DEF J!EnsureDurableConsumer
  <2>2. jLoop[l].step = "new" /\ UNCHANGED <<jState, jCount, jOrder>>
    BY <1>1, Zenon DEF J!EnsureDurableConsumer
  <2> QED
    BY <2>1, <2>2, GotoLeaps, Zenon DEF Calls, Walks
<1>2. CASE J!PullSubscribe(l)
  <2>1. J!Goto(l, "refused") \/ (jConsumer # J!NoConsumer /\ J!Goto(l, "register"))
    BY <1>2, Zenon DEF J!PullSubscribe
  <2>2. jLoop[l].step = "attach" /\ UNCHANGED <<jState, jCount, jOrder, jConsumer>>
    BY <1>2, Zenon DEF J!PullSubscribe
  <2> QED
    BY <2>1, <2>2, GotoLeaps, Zenon DEF Calls, Walks
<1>3. CASE J!Register(l)
  <2>1. J!Goto(l, "refused") \/ (~jClosed /\ J!Goto(l, "fetch"))
    BY <1>3, Zenon DEF J!Register
  <2>2. jLoop[l].step = "register" /\ UNCHANGED <<jState, jCount, jOrder, jConsumer>>
    BY <1>3, Zenon DEF J!Register
  <2> QED
    BY <2>1, <2>2, GotoLeaps, Zenon DEF Calls, Walks
<1>4. CASE J!Stop(l)
  BY <1>4, GotoLeaps, Zenon DEF J!Stop, Calls, Walks
<1>5. CASE J!FetchFails(l)
  <2>1. \/ (l \in jDone \/ jConsumer = J!NoConsumer) /\ J!Goto(l, "end")
        \/ \E d : jLoop' = [jLoop EXCEPT ![l].backoff = d]
    BY <1>5, Zenon DEF J!FetchFails, J!Terminal, J!Goto
  <2>2. jLoop[l].step = "fetch" /\ UNCHANGED <<jState, jCount, jOrder, jConsumer>>
    BY <1>5, Zenon DEF J!FetchFails
  <2> QED
    BY <2>1, <2>2, GotoLeaps, WaitLeaps, Zenon DEF Calls, Walks
<1> QED
  BY <1>1, <1>2, <1>3, <1>4, <1>5, Zenon DEF J!Call

\* What the server does for a fetch that it answers with b.
Given(l, n, b) ==
  /\ J!IsBatch(b)
  /\ jCount' = [m \in J!Message |-> IF m \in J!Range(b) THEN jCount[m] + 1 ELSE jCount[m]]
  /\ jState' = [m \in J!Message |-> IF m \in J!Range(b) THEN "out" ELSE jState[m]]
  /\ jLoop' = [jLoop EXCEPT ![l] = [step |-> "handle", backoff |-> 1,
                                    batch |-> [i \in 1 .. n |-> <<b[i], jCount'[b[i]]>>]]]

\* A batch is fetched.
LEMMA FetchEffect ==
  ASSUME JTypes, NEW l \in Loop, J!Fetch(l)
  PROVE  \E n \in 1 .. BatchSize : \E b \in [1 .. n -> J!Message] : Fetches(l, b)
<1>0. PICK n \in 1 .. BatchSize : \E b \in [1 .. n -> J!Message] : Given(l, n, b)
  BY Zenon DEF J!Fetch, Given
<1>1. PICK b \in [1 .. n -> J!Message] : Given(l, n, b)
  BY <1>0, Zenon
<1>2. jLoop[l].step = "fetch" /\ jConsumer # J!NoConsumer /\ UNCHANGED <<jOrder, jConsumer>>
  BY Zenon DEF J!Fetch, J!At, J!Looping
<1>3. \A m \in J!Message :
        /\ jCount'[m] = IF m \in J!Range(b) THEN jCount[m] + 1 ELSE jCount[m]
        /\ jState'[m] = IF m \in J!Range(b) THEN "out" ELSE jState[m]
  BY <1>1, Zenon DEF Given
<1> DEFINE batch == [i \in 1 .. n |-> <<b[i], jCount'[b[i]]>>]
<1>4. Leaps(l, "handle", batch)
  <2>1. jLoop' = [jLoop EXCEPT ![l] = [step |-> "handle", backoff |-> 1, batch |-> batch]]
    BY <1>1, Zenon DEF Given
  <2> HIDE DEF batch
  <2> QED
    BY <2>1, Zenon DEF JTypes, Leaps
<1>5. DOMAIN b = 1 .. n
  BY Zenon
<1>6. Fetches(l, b)
  BY <1>1, <1>2, <1>3, <1>4, <1>5, Zenon DEF Given, Fetches
<1> QED
  BY <1>6, Zenon

\* A handler runs.
LEMMA HandleEffect ==
  ASSUME JTypes, NEW l \in Loop, JBatchAt(l), J!HandleDurableMessage(l) PROVE Handles(l)
<1>1. jLoop[l].step = "handle" /\ UNCHANGED <<jCount, jConsumer>>
  BY Zenon DEF J!HandleDurableMessage, J!At, J!Looping
<1>2. J!Current(l) = First(l)
  BY <1>1, FirstOfBatch, Zenon
<1>3. jOrder' = IF First(l) \in Ran THEN jOrder ELSE Append(jOrder, First(l))
  BY <1>2, Zenon DEF J!HandleDurableMessage, Ran
<1>4. CASE First(l) \in jAcks' /\ J!Resolve(l, "acked")
  BY <1>1, <1>3, <1>4, ResolvedBecomes, Zenon DEF Handles
<1>5. CASE ~J!LastDelivery(l) /\ J!Resolve(l, "again")
  BY <1>1, <1>3, <1>5, ResolvedBecomes, Zenon DEF Handles
<1>6. CASE J!Goto(l, "copy") /\ UNCHANGED jState
  BY <1>1, <1>3, <1>6, GotoLeaps, Zenon DEF Handles
<1> QED
  BY <1>2, <1>4, <1>5, <1>6, Zenon DEF J!HandleDurableMessage

\* The dead-letter copy, then the answer.
LEMMA DeadLetterEffect ==
  ASSUME JTypes, NEW l \in Loop, JBatchAt(l), J!DeadLetter(l) PROVE Republishes(l) \/ Terms(l)
<1>1. CASE J!At(l, "copy")
  <2>1. /\ jLoop[l].step = "copy" /\ J!Goto(l, "term")
        /\ UNCHANGED <<jState, jCount, jOrder, jConsumer>>
    BY <1>1, Zenon DEF J!DeadLetter, J!At
  <2>2. J!Current(l) = First(l) /\ First(l) \in J!Message
    BY <2>1, FirstOfBatch, Zenon
  <2>3. \/ jCopies' = [jCopies EXCEPT ![First(l)] = @ + 1]
        \/ "publish" \in jFaults' \/ ~Republish
    BY <1>1, <2>1, <2>2, Zenon DEF J!DeadLetter, J!At, J!Fails
  <2>4. First(l)' = First(l)
    BY <2>1, Zenon DEF J!Goto, First, JTypes, LoopState
  <2>5. Copied(First(l))'
    BY <2>2, <2>3, <2>4 DEF Copied, JTypes
  <2> QED
    BY <2>1, <2>5, GotoLeaps, Zenon DEF Republishes
<1>2. CASE J!At(l, "term")
  <2>1. jLoop[l].step = "term" /\ J!Resolve(l, "termed") /\ UNCHANGED <<jCount, jOrder, jConsumer>>
    BY <1>2, Zenon DEF J!DeadLetter, J!At, J!Looping
  <2>2. /\ Proceeds(l)
        /\ \/ UNCHANGED jState \/ Becomes(First(l), "termed")
           \/ jCount[First(l)] < MaxDeliver /\ Becomes(First(l), "again")
    BY <2>1, ResolvedBecomes, Zenon
  <2>3. UNCHANGED jState \/ jState' = [jState EXCEPT ![First(l)] = "termed"]
    BY <2>1, FirstOfBatch, Zenon DEF J!Resolve, J!Resolved
  <2>4. UNCHANGED jState \/ Becomes(First(l), "termed")
    BY <2>3, Zenon DEF JTypes, Becomes
  <2> QED
    BY <2>1, <2>2, <2>4, Zenon DEF Terms
<1> QED
  BY <1>1, <1>2, Zenon DEF J!DeadLetter

\* Every step has one of these effects.
LEMMA JEffects ==
  ASSUME JTypes, \A l \in Loop : JBatchAt(l), [J!Next]_J!vars PROVE JEffect
<1>1. CASE \/ J!Publish \/ J!DeleteConsumer \/ J!CloseBegins \/ J!CloseReturns \/ UNCHANGED J!vars
           \/ \E l \in Loop : J!CallerCancels(l)
  BY <1>1, Zenon DEF J!Publish, J!DeleteConsumer, J!CloseBegins, J!CloseReturns, J!CallerCancels, J!server,
              J!vars, JStill, JEffect
<1>2. ASSUME NEW m \in J!Message, J!AckWaitExpires(m) PROVE Expires(m)
  <2>1. jState' = [jState EXCEPT ![m] = J!Unavailable(m)]
    BY <1>2, Zenon DEF J!AckWaitExpires
  <2>2. Becomes(m, J!Unavailable(m))
    BY <2>1, Zenon DEF JTypes, Becomes
  <2>3. \/ jCount[m] < MaxDeliver /\ Becomes(m, "again")
        \/ Becomes(m, "exhausted")
    BY <2>2, Zenon DEF J!Unavailable
  <2> QED
    BY <1>2, <2>3, Zenon DEF J!AckWaitExpires, Expires
<1>3. ASSUME NEW l \in Loop, J!Crash(l) PROVE Crashes(l)
  <2>1. jLoop' = [jLoop EXCEPT ![l].step = "dead", ![l].batch = <<>>]
    BY <1>3, Zenon DEF J!Crash
  <2>2. Leaps(l, "dead", <<>>)
    BY <2>1, Zenon DEF JTypes, LoopState, Leaps
  <2> QED
    BY <1>3, <2>2, Zenon DEF J!Crash, J!Running, J!server, Crashes
<1>4. ASSUME NEW l \in Loop, J!Call(l) \/ J!Turn(l) PROVE JEffect
  BY <1>4, CallEffect, FetchEffect, HandleEffect, DeadLetterEffect, Zenon DEF J!Turn, JEffect
<1> QED
  BY <1>1, <1>2, <1>3, <1>4, Zenon DEF J!Next, JEffect

-----------------------------------------------------------------------------
(***************************************************************************)
(* Types.                                                                  *)
(***************************************************************************)
\* Loops stay well-formed when one is replaced by one that is.
LEMMA LoopTyped ==
  ASSUME JTypes, NEW l \in Loop, NEW r \in LoopState, jLoop' = [jLoop EXCEPT ![l] = r]
  PROVE  jLoop' \in [Loop -> LoopState]
  BY Zenon DEF JTypes

\* A loop that goes to a step is well-formed.
LEMMA GotoLoop ==
  ASSUME JTypes, NEW l \in Loop, NEW y \in JStep, J!Goto(l, y) PROVE jLoop' \in [Loop -> LoopState]
  BY Zenon DEF JTypes, LoopState, J!Goto

\* So is one that goes on with its batch.
LEMMA ContinueLoop ==
  ASSUME JTypes, NEW l \in Loop, jLoop[l].batch # <<>>, J!Continue(l)
  PROVE  jLoop' \in [Loop -> LoopState]
<1> DEFINE rest == Tail(jLoop[l].batch)
           b == IF l \in jDone THEN <<>> ELSE rest
           y == IF l \in jDone THEN "end" ELSE IF rest = <<>> THEN "fetch" ELSE "handle"
<1>1. jLoop' = [jLoop EXCEPT ![l].batch = b, ![l].step = y]
  BY Zenon DEF J!Continue
<1>2. y \in JStep
  BY Zenon DEF JStep
<1>3. jLoop[l].batch \in Seq(J!Message \X Nat)
  BY Zenon DEF JTypes, LoopState
<1>4. b \in Seq(J!Message \X Nat)
  BY <1>3
<1> HIDE DEF b, y
<1> QED
  BY <1>1, <1>2, <1>4, Zenon DEF JTypes, LoopState

\* The consumer a call leaves has a starting point and the one it had, if it had one.
LEMMA EnsuredConsumer ==
  ASSUME JTypes, NEW l \in Loop
  PROVE  /\ ConsumerOK(J!Ensured(l)) /\ J!Ensured(l) # J!NoConsumer
         /\ jConsumer # J!NoConsumer => /\ J!Ensured(l).policy = jConsumer.policy
                                        /\ J!Ensured(l).from = jConsumer.from
<1>1. CASE jConsumer = J!NoConsumer
  <2> DEFINE f == IF Want[l].policy = "new" THEN jStored + 1 ELSE 1
  <2>1. f \in Nat \ {0}
    BY DEF JTypes
  <2>2. J!Ensured(l) = [policy |-> Want[l].policy, conf |-> Want[l].conf, from |-> f]
    BY <1>1, Zenon DEF J!Ensured
  <2> HIDE DEF f
  <2> QED
    BY <1>1, <2>1, <2>2 DEF ConsumerOK, J!NoConsumer
<1>2. CASE jConsumer # J!NoConsumer
  <2>1. /\ jConsumer.from \in Nat \ {0}
        /\ jConsumer = [policy |-> jConsumer.policy, conf |-> jConsumer.conf, from |-> jConsumer.from]
    BY <1>2, Zenon DEF JTypes, ConsumerOK
  <2>2. J!Ensured(l) = [policy |-> jConsumer.policy, conf |-> Want[l].conf, from |-> jConsumer.from]
    BY <1>2, <2>1, Zenon DEF J!Ensured
  <2> QED
    BY <2>1, <2>2 DEF ConsumerOK, J!NoConsumer
<1> QED
  BY <1>1, <1>2, Zenon

\* The state of a message after an answer is one of the server's.
LEMMA ResolveState ==
  ASSUME JTypes, NEW l \in Loop, NEW how \in {"acked", "again", "termed"}, J!Resolve(l, how)
  PROVE  jState' \in [J!Message -> JPlace]
<1>1. \/ UNCHANGED jState
      \/ \E y \in JPlace : jState' = [jState EXCEPT ![J!Current(l)] = y]
  BY Zenon DEF J!Resolve, J!Resolved, J!Unavailable, JPlace
<1> QED
  BY <1>1, Zenon DEF JTypes

\* Every step keeps the types.
LEMMA JTypesNext ==
  ASSUME JTypes, \A l \in Loop : JBatchAt(l), \A m \in J!Message : JCountAt(m), [J!Next]_J!vars
  PROVE  JTypes'
<1> USE DEF J!Calling, J!Looping, J!server
<1>1. CASE J!Publish
  BY <1>1, StreamAssumption DEF J!Publish, JTypes
<1>2. CASE J!DeleteConsumer
  BY <1>2, Zenon DEF J!DeleteConsumer, JTypes, ConsumerOK
<1>3. CASE J!CloseBegins \/ J!CloseReturns
  BY <1>3, Zenon DEF J!CloseBegins, J!CloseReturns, J!Running, JTypes
<1>4. ASSUME NEW m \in J!Message, J!AckWaitExpires(m) PROVE JTypes'
  <2>1. J!Unavailable(m) \in JPlace
    BY Zenon DEF J!Unavailable, JPlace
  <2>2. jState' \in [J!Message -> JPlace]
    BY <1>4, <2>1, Zenon DEF J!AckWaitExpires, JTypes
  <2> QED
    BY <1>4, <2>2, Zenon DEF J!AckWaitExpires, JTypes
<1>5. ASSUME NEW l \in Loop, J!EnsureDurableConsumer(l) PROVE JTypes'
  <2>1. \E y \in {"refused", "attach"} : J!Goto(l, y)
    BY <1>5, Zenon DEF J!EnsureDurableConsumer
  <2>2. jLoop' \in [Loop -> LoopState]
    BY <2>1, GotoLoop, Zenon DEF JStep
  <2>3. ConsumerOK(jConsumer')
    BY <1>5, EnsuredConsumer, Zenon DEF J!EnsureDurableConsumer, JTypes
  <2> QED
    BY <1>5, <2>2, <2>3, Zenon DEF J!EnsureDurableConsumer, JTypes
<1>6. ASSUME NEW l \in Loop, J!PullSubscribe(l) \/ J!Register(l) \/ J!Stop(l) PROVE JTypes'
  <2>1. \E y \in {"register", "refused", "fetch", "end"} : J!Goto(l, y)
    BY <1>6, Zenon DEF J!PullSubscribe, J!Register, J!Stop
  <2>2. jLoop' \in [Loop -> LoopState]
    BY <2>1, GotoLoop, Zenon DEF JStep
  <2> QED
    BY <1>6, <2>2, Zenon DEF J!PullSubscribe, J!Register, J!Stop, JTypes
<1>7. ASSUME NEW l \in Loop, J!CallerCancels(l) PROVE JTypes'
  BY <1>7, Zenon DEF J!CallerCancels, JTypes
<1>8. ASSUME NEW l \in Loop, J!Fetch(l) PROVE JTypes'
  <2>1. PICK n \in 1 .. BatchSize : \E b \in [1 .. n -> J!Message] : Given(l, n, b)
    BY <1>8, Zenon DEF J!Fetch, Given
  <2>2. PICK b \in [1 .. n -> J!Message] : Given(l, n, b)
    BY <2>1, Zenon
  <2>3. jState' \in [J!Message -> JPlace]
    BY <2>2, Zenon DEF Given, JTypes, JPlace
  <2>4. ASSUME NEW m \in J!Range(b) PROVE jCount[m] < MaxDeliver
    <3>1. PICK i \in DOMAIN b : m = b[i]
      BY Zenon DEF J!Range
    <3>2. m \in J!Message /\ jState[m] \in {"new", "again"}
      BY <2>2, <3>1, Zenon DEF Given, J!IsBatch, J!Waiting
    <3> QED
      BY <3>2, StreamAssumption DEF JCountAt
  <2>5. jCount' \in [J!Message -> 0 .. MaxDeliver]
    <3>1. ASSUME NEW m \in J!Message
          PROVE  (IF m \in J!Range(b) THEN jCount[m] + 1 ELSE jCount[m]) \in 0 .. MaxDeliver
      <4>1. jCount[m] \in 0 .. MaxDeliver /\ MaxDeliver \in Nat
        BY StreamAssumption, Zenon DEF JTypes
      <4>2. CASE m \in J!Range(b)
        <5>1. jCount[m] < MaxDeliver
          BY <2>4, <4>2, Zenon
        <5> QED
          BY <4>1, <4>2, <5>1
      <4>3. CASE m \notin J!Range(b)
        BY <4>1, <4>3, Zenon
      <4> QED
        BY <4>2, <4>3, Zenon
    <3> QED
      BY <2>2, <3>1, Zenon DEF Given
  <2> DEFINE batch == [i \in 1 .. n |-> <<b[i], jCount'[b[i]]>>]
  <2>6. batch \in Seq(J!Message \X Nat)
    <3>1. \A i \in 1 .. n : <<b[i], jCount'[b[i]]>> \in J!Message \X Nat
      BY <2>5, StreamAssumption
    <3>2. n \in Nat /\ batch \in [1 .. n -> J!Message \X Nat]
      BY <3>1, StreamAssumption
    <3> HIDE DEF batch
    <3> QED
      BY <3>2
  <2>7. jLoop' \in [Loop -> LoopState]
    <3>1. jLoop' = [jLoop EXCEPT ![l] = [step |-> "handle", backoff |-> 1, batch |-> batch]]
      BY <2>2, Zenon DEF Given
    <3> HIDE DEF batch
    <3>2. [step |-> "handle", backoff |-> 1, batch |-> batch] \in LoopState
      BY <2>6, StreamAssumption DEF LoopState, JStep
    <3> QED
      BY <3>1, <3>2, Zenon DEF JTypes
  <2> QED
    BY <1>8, <2>3, <2>5, <2>7, Zenon DEF J!Fetch, JTypes

<1>9. ASSUME NEW l \in Loop, J!FetchFails(l) PROVE JTypes'
  <2>1. \/ J!Goto(l, "end")
        \/ \E d \in 1 .. MaxBackoff : jLoop' = [jLoop EXCEPT ![l].backoff = d]
    <3>1. jLoop[l].backoff \in 1 .. MaxBackoff
      BY Zenon DEF JTypes, LoopState
    <3>2. J!NextBackoff(jLoop[l].backoff) \in 1 .. MaxBackoff /\ 1 \in 1 .. MaxBackoff
      BY <3>1, StreamAssumption DEF J!NextBackoff
    <3>3. \/ J!Goto(l, "end")
          \/ jLoop' = [jLoop EXCEPT ![l].backoff = J!NextBackoff(@)]
          \/ jLoop' = [jLoop EXCEPT ![l].backoff = 1]
      BY <1>9, Zenon DEF J!FetchFails, J!Goto
    <3> QED
      BY <3>2, <3>3, Zenon
  <2>2. jLoop' \in [Loop -> LoopState]
    <3>1. CASE J!Goto(l, "end")
      BY <3>1, GotoLoop, Zenon DEF JStep
    <3>2. CASE \E d \in 1 .. MaxBackoff : jLoop' = [jLoop EXCEPT ![l].backoff = d]
      <4>1. PICK d \in 1 .. MaxBackoff : jLoop' = [jLoop EXCEPT ![l].backoff = d]
        BY <3>2, Zenon
      <4>2. jLoop[l] \in LoopState
        BY Zenon DEF JTypes
      <4>3. [jLoop[l] EXCEPT !.backoff = d] \in LoopState
        BY <4>2, Zenon DEF LoopState
      <4>4. jLoop' = [jLoop EXCEPT ![l] = [jLoop[l] EXCEPT !.backoff = d]]
        BY <4>1, Zenon
      <4> QED
        BY <4>3, <4>4, LoopTyped, Zenon
    <3> QED
      BY <2>1, <3>1, <3>2, Zenon
  <2> QED
    BY <1>9, <2>2, Zenon DEF J!FetchFails, JTypes
<1>10. ASSUME NEW l \in Loop, J!HandleDurableMessage(l) PROVE JTypes'
  <2>1. jLoop[l].step = "handle" /\ jLoop[l].batch # <<>>
    BY <1>10, Zenon DEF J!HandleDurableMessage, J!At, JBatchAt
  <2>2. J!Current(l) \in J!Message
    BY <2>1, FirstOfBatch, Zenon
  <2>3. jOrder' \in Seq(J!Message)
    BY <1>10, <2>2 DEF J!HandleDurableMessage, JTypes
  <2>4. jAcks' \subseteq J!Message
    BY <1>10, <2>2, Zenon DEF J!HandleDurableMessage, JTypes
  <2>5. \/ \E how \in {"acked", "again"} : J!Resolve(l, how)
        \/ J!Goto(l, "copy") /\ UNCHANGED jState
    BY <1>10, Zenon DEF J!HandleDurableMessage
  <2>6. jState' \in [J!Message -> JPlace] /\ jLoop' \in [Loop -> LoopState]
    <3>1. CASE \E how \in {"acked", "again"} : J!Resolve(l, how)
      BY <2>1, <3>1, ResolveState, ContinueLoop, Zenon DEF J!Resolve
    <3>2. CASE J!Goto(l, "copy") /\ UNCHANGED jState
      BY <3>2, GotoLoop, Zenon DEF JTypes, JStep
    <3> QED
      BY <2>5, <3>1, <3>2, Zenon
  <2> QED
    BY <1>10, <2>3, <2>4, <2>6, Zenon DEF J!HandleDurableMessage, JTypes
<1>11. ASSUME NEW l \in Loop, J!DeadLetter(l) PROVE JTypes'
  <2>1. jLoop[l].step \in {"copy", "term"} /\ jLoop[l].batch # <<>>
    BY <1>11, Zenon DEF J!DeadLetter, J!At, JBatchAt
  <2>2. J!Current(l) \in J!Message
    BY <2>1, FirstOfBatch, Zenon
  <2>3. CASE J!At(l, "copy")
    <3>1. jCopies' \in [J!Message -> Nat]
      BY <1>11, <2>2, <2>3 DEF J!DeadLetter, J!At, JTypes
    <3>2. jLoop' \in [Loop -> LoopState]
      BY <1>11, <2>3, GotoLoop, Zenon DEF J!DeadLetter, J!At, JStep
    <3> QED
      BY <1>11, <2>3, <3>1, <3>2, Zenon DEF J!DeadLetter, J!At, JTypes
  <2>4. CASE J!At(l, "term")
    <3>1. J!Resolve(l, "termed")
      BY <1>11, <2>4, Zenon DEF J!DeadLetter, J!At
    <3>2. jState' \in [J!Message -> JPlace] /\ jLoop' \in [Loop -> LoopState]
      BY <2>1, <3>1, ResolveState, ContinueLoop, Zenon DEF J!Resolve
    <3> QED
      BY <1>11, <2>4, <3>2, Zenon DEF J!DeadLetter, J!At, JTypes
  <2> QED
    BY <2>1, <2>3, <2>4, Zenon DEF J!At
<1>12. ASSUME NEW l \in Loop, J!Crash(l) PROVE JTypes'
  <2>1. jLoop' \in [Loop -> LoopState]
    <3>1. jLoop[l] \in LoopState
      BY Zenon DEF JTypes
    <3>2. <<>> \in Seq(J!Message \X Nat) /\ "dead" \in JStep
      BY DEF JStep
    <3>3. [jLoop[l] EXCEPT !.step = "dead", !.batch = <<>>] \in LoopState
      BY <3>1, <3>2, Zenon DEF LoopState
    <3>4. jLoop' = [jLoop EXCEPT ![l] = [jLoop[l] EXCEPT !.step = "dead", !.batch = <<>>]]
      BY <1>12, Zenon DEF J!Crash
    <3> QED
      BY <3>3, <3>4, LoopTyped, Zenon
  <2> QED
    BY <1>12, <2>1, Zenon DEF J!Crash, JTypes
<1>13. CASE UNCHANGED J!vars
  BY <1>13, Zenon DEF J!vars, JTypes
<1> QED
  BY <1>1, <1>2, <1>3, <1>4, <1>5, <1>6, <1>7, <1>8, <1>9, <1>10, <1>11, <1>12, <1>13, Zenon
  DEF J!Next, J!Call, J!Turn

\* Every step only adds to what happened.
LEMMA JGrowsNext ==
  ASSUME JTypes, \A l \in Loop : JBatchAt(l), [J!Next]_J!vars PROVE JGrows
<1> USE DEF J!Calling, J!Looping, J!server, J!Fails, J!Works
<1> DEFINE Steady == UNCHANGED jCopies
<1>0. Steady => \A m \in J!Message : jCopies'[m] >= jCopies[m]
  BY DEF JTypes
<1>1. ASSUME NEW l \in Loop, J!DeadLetter(l) PROVE JGrows
  <2>1. UNCHANGED jCopies \/ jCopies' = [jCopies EXCEPT ![J!Current(l)] = @ + 1]
    BY <1>1, Zenon DEF J!DeadLetter
  <2>2. J!Current(l) \in J!Message \/ UNCHANGED jCopies
    BY <1>1, FirstOfBatch, Zenon DEF J!DeadLetter, J!At
  <2>3. \A m \in J!Message : jCopies'[m] >= jCopies[m]
    <3>1. jCopies \in [J!Message -> Nat]
      BY Zenon DEF JTypes
    <3>2. CASE J!Current(l) \in J!Message /\ jCopies' = [jCopies EXCEPT ![J!Current(l)] = @ + 1]
      BY <3>1, <3>2
    <3> QED
      BY <1>0, <2>1, <2>2, <3>2, Zenon
  <2> QED
    BY <1>1, <2>3, Zenon DEF J!DeadLetter, J!Resolve, JGrows
<1>2. ASSUME NEW l \in Loop, J!HandleDurableMessage(l) PROVE JGrows
  BY <1>0, <1>2, Zenon DEF J!HandleDurableMessage, J!Resolve, JGrows
<1>3. ASSUME NEW l \in Loop, J!Call(l) PROVE JGrows
  BY <1>0, <1>3, Zenon DEF J!Call, J!EnsureDurableConsumer, J!PullSubscribe, J!Register, JGrows
<1>4. ASSUME NEW l \in Loop, J!Stop(l) \/ J!Fetch(l) \/ J!FetchFails(l) PROVE JGrows
  BY <1>0, <1>4, Zenon DEF J!Stop, J!Fetch, J!FetchFails, JGrows
<1>5. ASSUME NEW l \in Loop, J!CallerCancels(l) \/ J!Crash(l) PROVE JGrows
  BY <1>0, <1>5, Zenon DEF J!CallerCancels, J!Crash, JGrows
<1>6. CASE \/ J!Publish \/ J!DeleteConsumer \/ J!CloseBegins \/ J!CloseReturns \/ UNCHANGED J!vars
           \/ \E m \in J!Message : J!AckWaitExpires(m)
  BY <1>0, <1>6, Zenon DEF J!Publish, J!DeleteConsumer, J!CloseBegins, J!CloseReturns, J!vars,
                    J!AckWaitExpires, JGrows
<1> QED
  BY <1>1, <1>2, <1>3, <1>4, <1>5, <1>6, Zenon DEF J!Next, J!Turn

-----------------------------------------------------------------------------
(***************************************************************************)
(* Batches and messages.                                                   *)
(***************************************************************************)
\* The deliveries of a message are only counted up.
LEMMA CountGrows ==
  ASSUME JTypes, JTypes', JEffect, NEW m \in J!Message
  PROVE  jCount[m] \in Nat /\ jCount'[m] \in Nat /\ jCount[m] <= jCount'[m]
<1>1. jCount[m] \in Nat /\ jCount'[m] \in Nat
  BY StreamAssumption DEF JTypes
<1>2. ASSUME NEW l \in Loop, NEW n \in 1 .. BatchSize, NEW b \in [1 .. n -> J!Message], Fetches(l, b)
      PROVE  jCount'[m] \in {jCount[m], jCount[m] + 1}
  BY <1>2, Zenon DEF Fetches
<1> QED
  BY <1>1, <1>2 DEF JEffect, JStill, Expires, Calls, Handles, Republishes, Terms, Crashes

\* A copy stays made.
LEMMA CopiedStays == ASSUME JTypes, JTypes', JGrows, NEW m \in J!Message, Copied(m) PROVE Copied(m)'
<1>1. jCopies[m] \in Nat /\ jCopies'[m] \in Nat /\ jCopies'[m] >= jCopies[m]
  BY Zenon DEF JTypes, JGrows
<1> QED
  BY <1>1 DEF JGrows, Copied

\* What the server counted for a delivery in a batch it does not forget.
LEMMA EntryKept ==
  ASSUME JTypes, JTypes', JEffect, NEW k \in Loop, JBatchAt(k), NEW i \in 1 .. Len(jLoop[k].batch)
  PROVE  /\ jLoop[k].batch[i] \in J!Message \X Nat
         /\ 1 <= jLoop[k].batch[i][2] /\ jLoop[k].batch[i][2] <= jCount'[jLoop[k].batch[i][1]]
<1> DEFINE e == jLoop[k].batch[i]
<1>1. e \in J!Message \X Nat
  BY DEF JTypes, LoopState
<1>2. 1 <= e[2] /\ e[2] <= jCount[e[1]]
  BY Zenon DEF JBatchAt
<1> HIDE DEF e
<1>3. e[1] \in J!Message /\ e[2] \in Nat
  BY <1>1, Zenon
<1>4. jCount[e[1]] \in Nat /\ jCount'[e[1]] \in Nat /\ jCount[e[1]] <= jCount'[e[1]]
  BY <1>3, CountGrows, Zenon
<1>5. 1 <= e[2] /\ e[2] <= jCount'[e[1]]
  BY <1>2, <1>3, <1>4
<1> QED
  BY <1>1, <1>5, Zenon DEF e

\* A loop that keeps its batch keeps what is known of it.
LEMMA BatchKept ==
  ASSUME JTypes, JTypes', JEffect, NEW k \in Loop, JBatchAt(k),
         jLoop'[k].batch = jLoop[k].batch,
         jLoop'[k].step \in {"handle", "copy", "term"} <=> jLoop[k].step \in {"handle", "copy", "term"},
         jLoop'[k].step = "term" => Copied(First(k))'
  PROVE  JBatchAt(k)'
<1>1. \A i \in 1 .. Len(jLoop[k].batch) :
        1 <= jLoop[k].batch[i][2] /\ jLoop[k].batch[i][2] <= jCount'[jLoop[k].batch[i][1]]
  BY EntryKept, Zenon
<1>2. /\ Len(jLoop[k].batch) <= BatchSize
      /\ jLoop[k].batch = <<>> <=> jLoop'[k].step \notin {"handle", "copy", "term"}
  BY Zenon DEF JBatchAt
<1>3. jLoop'[k].step = "term" => Copied(jLoop[k].batch[1][1])'
  BY Zenon DEF First, Copied
<1> QED
  BY <1>1, <1>2, <1>3, Zenon DEF JBatchAt, Copied

\* The rest of a batch is as good as the batch.
LEMMA RestKept ==
  ASSUME JTypes, JTypes', JEffect, NEW l \in Loop, JBatchAt(l),
         jLoop[l].step \in {"handle", "copy", "term"}, Proceeds(l)
  PROVE  JBatchAt(l)'
<1> DEFINE b == jLoop[l].batch
           rest == Tail(b)
<1>1. CASE Leaps(l, "end", <<>>) \/ Leaps(l, "fetch", <<>>)
  BY <1>1, StreamAssumption DEF Leaps, JBatchAt
<1>2. CASE rest # <<>> /\ Leaps(l, "handle", rest)
  <2>1. b \in Seq(J!Message \X Nat) /\ b # <<>> /\ Len(b) <= BatchSize
    BY Zenon DEF JTypes, LoopState, JBatchAt
  <2>2. Len(rest) = Len(b) - 1 /\ \A i \in 1 .. Len(rest) : rest[i] = b[i + 1]
    BY <2>1
  <2>3. Len(b) \in Nat
    BY <2>1
  <2>4. ASSUME NEW i \in 1 .. Len(rest)
        PROVE  1 <= rest[i][2] /\ rest[i][2] <= jCount'[rest[i][1]]
    <3>1. i + 1 \in 1 .. Len(b) /\ rest[i] = b[i + 1]
      BY <2>2, <2>3
    <3> HIDE DEF rest
    <3> QED
      BY <3>1, EntryKept, Zenon
  <2>5. jLoop'[l].step = "handle" /\ jLoop'[l].batch = rest
    BY <1>2, Zenon DEF Leaps
  <2>6. Len(rest) <= BatchSize
    BY <2>1, <2>2, <2>3, StreamAssumption
  <2> HIDE DEF rest
  <2> QED
    BY <1>2, <2>4, <2>5, <2>6, Zenon DEF JBatchAt
<1> QED
  BY <1>1, <1>2, Zenon DEF Proceeds

\* A fetched batch holds deliveries that the server has just counted.
LEMMA FetchedBatch ==
  ASSUME JTypes, JTypes', NEW l \in Loop, NEW n \in 1 .. BatchSize, NEW b \in [1 .. n -> J!Message],
         Fetches(l, b)
  PROVE  JBatchAt(l)'
<1> DEFINE batch == [i \in DOMAIN b |-> <<b[i], jCount'[b[i]]>>]
<1>1. n \in Nat /\ DOMAIN b = 1 .. n
  BY StreamAssumption
<1>2. \A i \in 1 .. n : batch[i][1] = b[i] /\ batch[i][2] = jCount'[b[i]]
  BY <1>1, Zenon
<1>3. ASSUME NEW i \in 1 .. n PROVE 1 <= jCount'[b[i]] /\ jCount'[b[i]] \in Nat
  <2>1. b[i] \in J!Message /\ b[i] \in J!Range(b)
    BY <1>1, Zenon DEF J!Range
  <2>2. jCount'[b[i]] = jCount[b[i]] + 1
    BY <2>1, Zenon DEF Fetches
  <2>3. jCount[b[i]] \in Nat
    BY <2>1, StreamAssumption DEF JTypes
  <2> QED
    BY <2>2, <2>3
<1>4. jLoop'[l].step = "handle" /\ jLoop'[l].batch = batch
  BY Zenon DEF Fetches, Leaps
<1>5. DOMAIN batch = 1 .. n
  BY <1>1, Zenon
<1>6. jLoop'[l].batch \in Seq(J!Message \X Nat)
  BY Zenon DEF JTypes, LoopState
<1> HIDE DEF batch
<1>7. Len(batch) = n
  BY <1>1, <1>4, <1>5, <1>6
<1>8. batch # <<>> /\ n <= BatchSize
  BY <1>1, <1>7, StreamAssumption
<1>9. \A i \in 1 .. Len(batch) : 1 <= batch[i][2] /\ batch[i][2] <= jCount'[batch[i][1]]
  BY <1>1, <1>2, <1>3, <1>7
<1> QED
  BY <1>4, <1>7, <1>8, <1>9, Zenon DEF JBatchAt

\* Every step keeps what is known of the batches.
LEMMA JBatchNext ==
  ASSUME JTypes, JTypes', JEffect, JGrows, \A l \in Loop : JBatchAt(l), NEW k \in Loop
  PROVE  JBatchAt(k)'
<1>1. ASSUME jLoop'[k].step = jLoop[k].step, jLoop'[k].batch = jLoop[k].batch PROVE JBatchAt(k)'
  <2>1. jLoop[k].step = "term" => Copied(First(k)) /\ First(k) \in J!Message
    BY FirstOfBatch, Zenon DEF JBatchAt, First
  <2>2. First(k)' = First(k)
    BY <1>1, Zenon DEF First
  <2>3. jLoop'[k].step = "term" => Copied(First(k))'
    BY <1>1, <2>1, <2>2, CopiedStays, Zenon DEF Copied
  <2> QED
    BY <1>1, <2>3, BatchKept, Zenon
<1>2. CASE JStill \/ \E m \in J!Message : Expires(m)
  BY <1>1, <1>2, Zenon DEF JStill, Expires
<1>3. ASSUME NEW l \in Loop, l # k, NEW y, NEW b, Leaps(l, y, b) PROVE JBatchAt(k)'
  BY <1>1, <1>3, Zenon DEF Leaps
<1>4. ASSUME NEW l \in Loop, l # k, Proceeds(l) PROVE JBatchAt(k)'
  BY <1>3, <1>4, Zenon DEF Proceeds
<1>5. ASSUME NEW y, Leaps(k, y, jLoop[k].batch), y # "term",
             y \in {"handle", "copy", "term"} <=> jLoop[k].step \in {"handle", "copy", "term"}
      PROVE  JBatchAt(k)'
  BY <1>5, BatchKept, Zenon DEF Leaps
<1>6. ASSUME NEW l \in Loop, Calls(l) PROVE JBatchAt(k)'
  BY <1>3, <1>5, <1>6, Zenon DEF Calls, Walks
<1>7. ASSUME NEW l \in Loop, Handles(l) PROVE JBatchAt(k)'
  BY <1>3, <1>4, <1>5, <1>7, RestKept, Zenon DEF Handles
<1>8. ASSUME NEW l \in Loop, Republishes(l) PROVE JBatchAt(k)'
  <2>1. CASE l # k
    BY <1>3, <1>8, <2>1, Zenon DEF Republishes
  <2>2. CASE l = k
    BY <1>8, <2>2, BatchKept, Zenon DEF Republishes, Leaps
  <2> QED
    BY <2>1, <2>2, Zenon
<1>9. ASSUME NEW l \in Loop, Terms(l) PROVE JBatchAt(k)'
  BY <1>4, <1>9, RestKept, Zenon DEF Terms
<1>10. ASSUME NEW l \in Loop, Crashes(l) PROVE JBatchAt(k)'
  <2>1. CASE l # k
    BY <1>3, <1>10, <2>1, Zenon DEF Crashes
  <2>2. CASE l = k
    <3>1. jLoop'[k].step = "dead" /\ jLoop'[k].batch = <<>>
      BY <1>10, <2>2, Zenon DEF Crashes, Leaps
    <3>2. Len(<<>>) = 0 /\ 0 <= BatchSize
      BY StreamAssumption
    <3> QED
      BY <3>1, <3>2 DEF JBatchAt
  <2> QED
    BY <2>1, <2>2, Zenon
<1>11. ASSUME NEW l \in Loop, NEW n \in 1 .. BatchSize, NEW b \in [1 .. n -> J!Message], Fetches(l, b)
       PROVE  JBatchAt(k)'
  <2>1. CASE l # k
    BY <1>3, <1>11, <2>1, Zenon DEF Fetches
  <2>2. CASE l = k
    BY <1>11, <2>2, FetchedBatch, Zenon
  <2> QED
    BY <2>1, <2>2, Zenon
<1> QED
  BY <1>2, <1>6, <1>7, <1>8, <1>9, <1>10, <1>11, Zenon DEF JEffect

\* Every step keeps what is known of a message.
LEMMA JCountNext ==
  ASSUME JTypes, JTypes', JEffect, JGrows, \A l \in Loop : JBatchAt(l), NEW m \in J!Message, JCountAt(m)
  PROVE  JCountAt(m)'
<1>1. jCount[m] \in Nat /\ MaxDeliver \in Nat
  BY StreamAssumption DEF JTypes
<1>2. Copied(m) => Copied(m)'
  BY CopiedStays, Zenon
<1>3. ASSUME jState'[m] = jState[m], jCount'[m] = jCount[m] PROVE JCountAt(m)'
  BY <1>2, <1>3, Zenon DEF JCountAt, JGrows
<1>4. ASSUME NEW y, jState'[m] = y, jCount'[m] = jCount[m], jCount[m] # 0, y # "new",
             y = "again" => jCount[m] < MaxDeliver, y = "acked" => m \in jAcks',
             y = "exhausted" => m \in jLapsed', y = "termed" => Copied(m)'
      PROVE  JCountAt(m)'
  BY <1>4, Zenon DEF JCountAt
<1>5. ASSUME NEW l \in Loop, jLoop[l].step \in {"handle", "copy", "term"}, m = First(l)
      PROVE  jCount[m] # 0
  BY <1>5, FirstOfBatch
<1>6. CASE JStill
  BY <1>3, <1>6, Zenon DEF JStill
<1>7. ASSUME NEW n \in J!Message, Expires(n) PROVE JCountAt(m)'
  <2>1. CASE n # m
    BY <1>3, <1>7, <2>1, Zenon DEF Expires, Becomes
  <2>2. CASE n = m
    <3>1. jCount[m] # 0
      BY <1>7, <2>2, Zenon DEF Expires, JCountAt
    <3> QED
      BY <1>4, <1>7, <2>2, <3>1, Zenon DEF Expires, Becomes
  <2> QED
    BY <2>1, <2>2, Zenon
<1>8. ASSUME NEW l \in Loop, Calls(l) \/ Republishes(l) \/ Crashes(l) PROVE JCountAt(m)'
  BY <1>3, <1>8, Zenon DEF Calls, Republishes, Crashes
<1>9. ASSUME NEW l \in Loop, Handles(l) PROVE JCountAt(m)'
  <2>1. UNCHANGED jCount /\ jLoop[l].step = "handle"
    BY <1>9, Zenon DEF Handles
  <2>2. CASE jState'[m] = jState[m]
    BY <1>3, <2>1, <2>2, Zenon
  <2>3. CASE m = First(l) /\ First(l) \in jAcks' /\ Becomes(First(l), "acked")
    BY <1>4, <1>5, <2>1, <2>3, Zenon DEF Becomes
  <2>4. CASE m = First(l) /\ jCount[First(l)] < MaxDeliver /\ Becomes(First(l), "again")
    BY <1>4, <1>5, <2>1, <2>4, Zenon DEF Becomes
  <2> QED
    BY <1>9, <2>2, <2>3, <2>4, Zenon DEF Handles, Becomes
<1>10. ASSUME NEW l \in Loop, Terms(l) PROVE JCountAt(m)'
  <2>1. UNCHANGED jCount /\ jLoop[l].step = "term"
    BY <1>10, Zenon DEF Terms
  <2>2. CASE jState'[m] = jState[m]
    BY <1>3, <2>1, <2>2, Zenon
  <2>3. CASE m = First(l) /\ Becomes(First(l), "termed")
    <3>1. Copied(m)
      BY <2>1, <2>3, Zenon DEF JBatchAt, First
    <3> QED
      BY <1>2, <1>4, <1>5, <2>1, <2>3, <3>1, Zenon DEF Becomes
  <2> QED
    BY <1>10, <2>2, <2>3, Zenon DEF Terms, Becomes
<1>11. ASSUME NEW l \in Loop, NEW n \in 1 .. BatchSize, NEW b \in [1 .. n -> J!Message], Fetches(l, b)
       PROVE  JCountAt(m)'
  <2>1. CASE m \in J!Range(b)
    <3>1. jCount'[m] = jCount[m] + 1 /\ jState'[m] = "out"
      BY <1>11, <2>1, Zenon DEF Fetches
    <3> QED
      BY <1>1, <3>1 DEF JCountAt
  <2>2. CASE m \notin J!Range(b)
    BY <1>3, <1>11, <2>2, Zenon DEF Fetches
  <2> QED
    BY <2>1, <2>2, Zenon
<1> QED
  BY <1>6, <1>7, <1>8, <1>9, <1>10, <1>11, Zenon DEF JEffect

-----------------------------------------------------------------------------
(***************************************************************************)
(* The consumer, and Close.                                                *)
(***************************************************************************)
\* Nothing but its deletion takes the consumer away or moves its start.
LEMMA ConsumerStays ==
  ASSUME JTypes, [J!Next]_J!vars, jConsumer # J!NoConsumer
  PROVE  \/ /\ jConsumer' # J!NoConsumer
            /\ jConsumer'.policy = jConsumer.policy /\ jConsumer'.from = jConsumer.from
         \/ "delete" \in jFaults'
<1> USE DEF J!Calling, J!Looping, J!server
<1>1. ASSUME NEW l \in Loop, J!EnsureDurableConsumer(l) PROVE jConsumer' \in {jConsumer, J!Ensured(l)}
  BY <1>1, Zenon DEF J!EnsureDurableConsumer
<1>2. CASE J!DeleteConsumer
  BY <1>2, Zenon DEF J!DeleteConsumer, J!Fails
<1>3. ASSUME NEW l \in Loop, J!PullSubscribe(l) \/ J!Register(l) \/ J!CallerCancels(l) \/ J!Turn(l) \/ J!Crash(l)
      PROVE  UNCHANGED jConsumer
  BY <1>3, Zenon DEF J!PullSubscribe, J!Register, J!CallerCancels, J!Crash, J!Turn, J!Stop, J!Fetch,
              J!FetchFails, J!HandleDurableMessage, J!DeadLetter
<1>4. ASSUME \/ J!Publish \/ J!CloseBegins \/ J!CloseReturns \/ UNCHANGED J!vars
             \/ \E m \in J!Message : J!AckWaitExpires(m)
      PROVE  UNCHANGED jConsumer
  BY <1>4, Zenon DEF J!Publish, J!CloseBegins, J!CloseReturns, J!vars, J!AckWaitExpires
<1>5. ASSUME NEW l \in Loop, jConsumer' = J!Ensured(l)
      PROVE  /\ jConsumer' # J!NoConsumer
             /\ jConsumer'.policy = jConsumer.policy /\ jConsumer'.from = jConsumer.from
  BY <1>5, EnsuredConsumer, Zenon
<1> QED
  BY <1>1, <1>2, <1>3, <1>4, <1>5, Zenon DEF J!Next, J!Call

\* Only the two steps of Close change its state.
LEMMA CloserStays ==
  ASSUME [J!Next]_J!vars
  PROVE  UNCHANGED <<jClosed, jCloser>> \/ J!CloseBegins \/ J!CloseReturns
<1> USE DEF J!Calling, J!Looping
<1>1. ASSUME NEW l \in Loop, J!Call(l) \/ J!CallerCancels(l) \/ J!Turn(l) \/ J!Crash(l)
      PROVE  UNCHANGED <<jClosed, jCloser>>
  BY <1>1, Zenon DEF J!Call, J!EnsureDurableConsumer, J!PullSubscribe, J!Register, J!CallerCancels, J!Crash,
              J!Turn, J!Stop, J!Fetch, J!FetchFails, J!HandleDurableMessage, J!DeadLetter
<1>2. ASSUME \/ J!Publish \/ J!DeleteConsumer \/ UNCHANGED J!vars
             \/ \E m \in J!Message : J!AckWaitExpires(m)
      PROVE  UNCHANGED <<jClosed, jCloser>>
  BY <1>2, Zenon DEF J!Publish, J!DeleteConsumer, J!vars, J!AckWaitExpires
<1> QED
  BY <1>1, <1>2, Zenon DEF J!Next

\* The ways from one step of a loop to the next.
Going(k, from, to) == jLoop[k].step \in from /\ jLoop'[k].step \in to

Way(k) ==
  \/ jLoop'[k].step = jLoop[k].step /\ jLoop'[k].batch = jLoop[k].batch
  \/ Going(k, {"new"}, {"attach", "refused"})
  \/ Going(k, {"attach", "register"}, {"refused"})
  \/ Going(k, {"attach"}, {"register"}) /\ jConsumer # J!NoConsumer
  \/ Going(k, {"register"}, {"fetch"}) /\ ~jClosed
  \/ Going(k, {"fetch"}, {"end"}) /\ (k \in jDone \/ jConsumer = J!NoConsumer)
  \/ Going(k, {"fetch"}, {"handle"})
  \/ Going(k, {"handle", "term"}, {"fetch", "handle"})
  \/ Going(k, {"handle", "term"}, {"end"}) /\ k \in jDone
  \/ Going(k, {"handle"}, {"copy"}) \/ Going(k, {"copy"}, {"term"})
  \/ Going(k, {"fetch", "handle", "copy", "term"}, {"dead"})

\* Every loop goes one of them.
LEMMA Ways == ASSUME JEffect, NEW k \in Loop PROVE Way(k)
<1>1. ASSUME NEW l \in Loop, l # k, NEW y, NEW b, Leaps(l, y, b) PROVE Way(k)
  BY <1>1, Zenon DEF Leaps, Way
<1>2. ASSUME NEW l \in Loop, l # k, Proceeds(l) PROVE Way(k)
  BY <1>1, <1>2, Zenon DEF Proceeds
<1>3. CASE JStill \/ \E m \in J!Message : Expires(m)
  BY <1>3, Zenon DEF JStill, Expires, Way
<1>4. ASSUME NEW l \in Loop, Calls(l) PROVE Way(k)
  <2>1. CASE l # k
    BY <1>1, <1>4, <2>1, Zenon DEF Calls, Walks
  <2>2. CASE l = k
    BY <1>4, <2>2, Zenon DEF Calls, Walks, Leaps, Way, Going
  <2> QED
    BY <2>1, <2>2, Zenon
<1>5. ASSUME NEW l \in Loop, Handles(l) \/ Terms(l) PROVE Way(k)
  <2>1. CASE l # k
    BY <1>1, <1>2, <1>5, <2>1, Zenon DEF Handles, Terms
  <2>2. CASE l = k
    BY <1>5, <2>2, Zenon DEF Handles, Terms, Proceeds, Leaps, Way, Going
  <2> QED
    BY <2>1, <2>2, Zenon
<1>6. ASSUME NEW l \in Loop, Republishes(l) \/ Crashes(l) PROVE Way(k)
  <2>1. CASE l # k
    BY <1>1, <1>6, <2>1, Zenon DEF Republishes, Crashes
  <2>2. CASE l = k
    BY <1>6, <2>2, Zenon DEF Republishes, Crashes, Leaps, Way, Going
  <2> QED
    BY <2>1, <2>2, Zenon
<1>7. ASSUME NEW l \in Loop, NEW n \in 1 .. BatchSize, NEW b \in [1 .. n -> J!Message], Fetches(l, b)
      PROVE  Way(k)
  <2>1. CASE l # k
    BY <1>1, <1>7, <2>1, Zenon DEF Fetches
  <2>2. CASE l = k
    BY <1>7, <2>2, Zenon DEF Fetches, Leaps, Way, Going
  <2> QED
    BY <2>1, <2>2, Zenon
<1> QED
  BY <1>3, <1>4, <1>5, <1>6, <1>7, Zenon DEF JEffect

\* Every step keeps a loop's consumer, or its reason to end.
LEMMA JLiveNext ==
  ASSUME JTypes, JEffect, JGrows, [J!Next]_J!vars, NEW k \in Loop, JLiveAt(k) PROVE JLiveAt(k)'
<1>1. jConsumer # J!NoConsumer => jConsumer' # J!NoConsumer \/ "delete" \in jFaults'
  BY ConsumerStays, Zenon
<1>2. Way(k)
  BY Ways, Zenon
<1> QED
  BY <1>1, <1>2, Zenon DEF Way, Going, JLiveAt, JGrows, J!NoConsumer

\* No loop begins to run on a closed bus.
LEMMA RunningShrinks == ASSUME JEffect, jClosed PROVE J!Running' \subseteq J!Running
<1>1. ASSUME NEW k \in Loop, jLoop'[k].step \in {"fetch", "handle", "copy", "term"}
      PROVE  jLoop[k].step \in {"fetch", "handle", "copy", "term"}
  BY <1>1, Ways, Zenon DEF Way, Going
<1> QED
  BY <1>1, Zenon DEF J!Running

\* Every step keeps what Close waits for.
LEMMA JCloseNext ==
  ASSUME JTypes, JEffect, [J!Next]_J!vars, JCloseInv PROVE JCloseInv'
<1>1. CASE UNCHANGED <<jClosed, jCloser>>
  BY <1>1, RunningShrinks, Zenon DEF JCloseInv
<1>2. CASE J!CloseBegins
  BY <1>2, Zenon DEF J!CloseBegins, JCloseInv
<1>3. CASE J!CloseReturns
  BY <1>3, Zenon DEF J!CloseReturns, J!Running, JCloseInv
<1> QED
  BY <1>1, <1>2, <1>3, CloserStays, Zenon

\* JetStream keeps its invariant.
THEOREM JetInvariant == J!Spec => []JInv
<1>1. J!Init => JInv
  <2> SUFFICES ASSUME J!Init PROVE JInv
    BY Zenon
  <2>1. JTypes
    <3>1. [step |-> "new", batch |-> <<>>, backoff |-> 1] \in LoopState
      BY StreamAssumption DEF LoopState, JStep
    <3> QED
      <4>1. jLoop \in [Loop -> LoopState] /\ ConsumerOK(jConsumer)
        BY <3>1, Zenon DEF J!Init, ConsumerOK
      <4>2. jState \in [J!Message -> JPlace] /\ jCount \in [J!Message -> 0 .. MaxDeliver]
        BY StreamAssumption DEF J!Init, JPlace
      <4>3. jCopies \in [J!Message -> Nat] /\ jOrder \in Seq(J!Message) /\ jStored \in 0 .. N
        BY StreamAssumption DEF J!Init
      <4> QED
        BY <4>1, <4>2, <4>3, Zenon DEF J!Init, JTypes
  <2>2. JCloseInv
    BY Zenon DEF J!Init, JCloseInv
  <2>3. \A m \in J!Message : JCountAt(m)
    BY Zenon DEF J!Init, JCountAt
  <2>4. \A l \in Loop : JBatchAt(l) /\ JLiveAt(l)
    BY StreamAssumption DEF J!Init, JBatchAt, JLiveAt
  <2> QED
    BY <2>1, <2>2, <2>3, <2>4, Zenon DEF JInv
<1>2. JInv /\ [J!Next]_J!vars => JInv'
  <2> SUFFICES ASSUME JInv, [J!Next]_J!vars PROVE JInv'
    BY Zenon
  <2>1. JTypes /\ JTypes' /\ JEffect /\ JGrows
    BY JTypesNext, JEffects, JGrowsNext, Zenon DEF JInv
  <2>2. JCloseInv'
    BY <2>1, JCloseNext, Zenon DEF JInv
  <2>3. \A m \in J!Message : JCountAt(m)'
    BY <2>1, JCountNext, Zenon DEF JInv
  <2>4. \A l \in Loop : JBatchAt(l)' /\ JLiveAt(l)'
    BY <2>1, JBatchNext, JLiveNext, Zenon DEF JInv
  <2> QED
    BY <2>1, <2>2, <2>3, <2>4, Zenon DEF JInv, J!Message
<1> QED
  BY <1>1, <1>2, PTL DEF J!Spec

\* The durable consumer outlives Close and later deployments, its start unchanged.
THEOREM ConsumerKeptCorrect == J!Spec => J!JetConsumerKept
<1>1. JInv /\ [J!Next]_J!vars =>
        [jConsumer # J!NoConsumer =>
           \/ jConsumer'.policy = jConsumer.policy /\ jConsumer'.from = jConsumer.from
           \/ J!Happened("delete")']_J!vars
  BY ConsumerStays, Zenon DEF JInv, J!Happened
<1> QED
  BY <1>1, JetInvariant, PTL DEF J!Spec, J!JetConsumerKept

\* JetStream's Close keeps the contract: a fetched batch starts a loop's handlers, which
\* end with the batch.
THEOREM JetImplementsContract == J!Spec => J!JetCloseSettles
<1> DEFINE Handling == {l \in Loop : jLoop[l].step \in {"handle", "copy", "term"}}
           Step == J!Contract!Next \/ UNCHANGED J!Contract!busVars
<1>1. J!Init => J!Contract!Init
  BY DEF J!Init, J!Contract!Init
<1>2. ASSUME JInv, [J!Next]_J!vars PROVE Step
  <2>1. JEffect
    BY <1>2, JEffects, Zenon DEF JInv
  <2>2. CASE J!CloseBegins \/ J!CloseReturns
    <3>1. Handling' = Handling
      BY <2>2, Zenon DEF J!CloseBegins, J!CloseReturns
    <3>2. CASE jCloser' = "nil"
      <4>1. J!Running = {}
        BY <2>2, <3>2, Zenon DEF J!CloseBegins, J!CloseReturns
      <4>2. Handling = {}
        BY <4>1, Zenon DEF J!Running
      <4> QED
        BY <3>1, <3>2, <4>2, Zenon DEF J!Contract!Next, J!Contract!Return
    <3>3. CASE jCloser' # "nil"
      <4>1. jCloser # "nil"
        BY <2>2, Zenon DEF J!CloseBegins, J!CloseReturns
      <4> QED
        BY <3>1, <3>3, <4>1, Zenon DEF J!Contract!busVars
    <3> QED
      BY <3>2, <3>3, Zenon
  <2>3. CASE UNCHANGED <<jClosed, jCloser>>
    <3>1. ASSUME Handling' = Handling PROVE Step
      BY <2>3, <3>1, Zenon DEF J!Contract!busVars
    <3>2. ASSUME NEW l \in Loop, l \in Handling, Handling' = Handling \ {l} PROVE Step
      BY <2>3, <3>2, Zenon DEF J!Contract!Next, J!Contract!End
    <3>3. ASSUME NEW l \in Loop, l \notin Handling, jCloser # "nil", Handling' = Handling \cup {l}
          PROVE  Step
      BY <2>3, <3>3, Zenon DEF J!Contract!Next, J!Contract!Start
    <3>4. ASSUME NEW l \in Loop, NEW y, NEW b, Leaps(l, y, b)
          PROVE  Handling' = IF y \in {"handle", "copy", "term"} THEN Handling \cup {l} ELSE Handling \ {l}
      BY <3>4, Zenon DEF Leaps
    <3> HIDE DEF Handling, Step
    <3>5. ASSUME NEW l \in Loop, l \in Handling, NEW y, NEW b, Leaps(l, y, b) PROVE Step
      BY <3>1, <3>2, <3>4, <3>5
    <3>6. ASSUME NEW l \in Loop, l \in Handling, Proceeds(l) PROVE Step
      BY <3>5, <3>6, Zenon DEF Proceeds
    <3>7. ASSUME NEW l \in Loop, l \notin Handling, NEW y, NEW b, Leaps(l, y, b),
                 y \notin {"handle", "copy", "term"}
          PROVE  Step
      BY <3>1, <3>4, <3>7, Zenon
    <3>8. CASE JStill \/ \E m \in J!Message : Expires(m)
      BY <3>1, <3>8, Zenon DEF JStill, Expires, Handling
    <3>9. ASSUME NEW l \in Loop, Calls(l) PROVE Step
      BY <3>7, <3>9 DEF Calls, Walks, Handling
    <3>10. ASSUME NEW l \in Loop, Handles(l) \/ Republishes(l) \/ Terms(l) PROVE Step
      <4>1. l \in Handling
        BY <3>10, Zenon DEF Handles, Republishes, Terms, Handling
      <4> QED
        BY <3>5, <3>6, <3>10, <4>1, Zenon DEF Handles, Republishes, Terms
    <3>11. ASSUME NEW l \in Loop, Crashes(l) PROVE Step
      BY <3>5, <3>7, <3>11, Zenon DEF Crashes
    <3>12. ASSUME NEW l \in Loop, NEW n \in 1 .. BatchSize, NEW b \in [1 .. n -> J!Message], Fetches(l, b)
           PROVE  Step
      <4>1. jLoop[l].step = "fetch" /\ \E e : Leaps(l, "handle", e)
        BY <3>12, Zenon DEF Fetches
      <4>2. jCloser # "nil"
        BY <1>2, <4>1, Zenon DEF JInv, JCloseInv, J!Running
      <4>3. l \notin Handling /\ Handling' = Handling \cup {l}
        BY <3>4, <4>1, Zenon DEF Handling
      <4> QED
        BY <3>3, <4>2, <4>3, Zenon
    <3> QED
      BY <2>1, <3>8, <3>9, <3>10, <3>11, <3>12, Zenon DEF JEffect
  <2> HIDE DEF Step
  <2> QED
    BY <1>2, <2>2, <2>3, CloserStays, Zenon
<1> QED
  BY <1>1, <1>2, JetInvariant, PTL DEF J!Spec, J!JetCloseSettles, J!Contract!Spec

-----------------------------------------------------------------------------
(***************************************************************************)
(* The order of first runs.                                                *)
(***************************************************************************)
\* The messages whose handler ran are messages of the stream.
LEMMA RanMessages == ASSUME JTypes PROVE Ran \subseteq J!Message
  BY DEF JTypes, Ran, J!Range

\* One more first run.
LEMMA RanGrows ==
  ASSUME JTypes, NEW m \in J!Message, jOrder' = Append(jOrder, m) PROVE Ran' = Ran \cup {m}
<1>1. /\ Len(jOrder) \in Nat /\ DOMAIN jOrder = 1 .. Len(jOrder)
      /\ DOMAIN jOrder' = 1 .. Len(jOrder) + 1
      /\ \A i \in 1 .. Len(jOrder) : jOrder'[i] = jOrder[i]
      /\ jOrder'[Len(jOrder) + 1] = m
  BY DEF JTypes
<1>2. Ran = {jOrder[i] : i \in 1 .. Len(jOrder)} /\ Ran' = {jOrder'[i] : i \in 1 .. Len(jOrder) + 1}
  BY <1>1, Zenon DEF Ran, J!Range
<1>3. 1 .. Len(jOrder) + 1 = 1 .. Len(jOrder) \cup {Len(jOrder) + 1}
  BY <1>1
<1> QED
  BY <1>1, <1>2, <1>3

\* The rest of a batch ascends once its first message was handled.
LEMMA RestAscends ==
  ASSUME NEW b \in Seq(J!Message \X Nat), b # <<>>, NEW ran \in SUBSET J!Message, Ascends(b, ran)
  PROVE  Ascends(Tail(b), ran \cup {b[1][1]})
<1> DEFINE n == Len(b)
           rest == Tail(b)
           now == ran \cup {b[1][1]}
<1>1. n \in Nat /\ n >= 1 /\ Len(rest) = n - 1 /\ \A i \in 1 .. n - 1 : rest[i] = b[i + 1]
  OBVIOUS
<1>2. ASSUME NEW i \in 1 .. n - 1, b[i + 1][1] \notin now
      PROVE  /\ \A m \in now : m < b[i + 1][1]
             /\ \A j \in i + 1 .. n - 1 : b[i + 1][1] < b[j + 1][1]
  <2>1. i + 1 \in 1 .. n /\ 1 \in 1 .. n /\ i + 1 \in 1 + 1 .. n
    BY <1>1
  <2>2. /\ \A m \in ran : m < b[i + 1][1]
        /\ \A j \in i + 1 + 1 .. n : b[i + 1][1] < b[j][1]
    BY <1>2, <2>1, Zenon DEF Ascends
  <2>3. b[1][1] \notin ran => b[1][1] < b[i + 1][1]
    BY <2>1, Zenon DEF Ascends
  <2>4. \A j \in i + 1 .. n - 1 : j + 1 \in i + 1 + 1 .. n
    BY <1>1
  <2> QED
    BY <2>2, <2>3, <2>4, Zenon
<1>3. ASSUME NEW i \in 1 .. Len(rest), rest[i][1] \notin now
      PROVE  /\ \A m \in now : m < rest[i][1]
             /\ \A j \in i + 1 .. Len(rest) : rest[i][1] < rest[j][1]
  <2>1. i \in 1 .. n - 1 /\ rest[i] = b[i + 1] /\ \A j \in i + 1 .. n - 1 : rest[j] = b[j + 1]
    BY <1>1
  <2> HIDE DEF rest, now
  <2> QED
    BY <1>1, <1>2, <1>3, <2>1, Zenon
<1> HIDE DEF rest, now
<1>4. Ascends(rest, now)
  BY <1>3, Zenon DEF Ascends
<1> QED
  BY <1>4, Zenon DEF rest, now

\* Nor does handling it leave a message out.
LEMMA RestCovers ==
  ASSUME NEW b \in Seq(J!Message \X Nat), b # <<>>, NEW ran, NEW count, Covers(count, b, ran)
  PROVE  Covers(count, Tail(b), ran \cup {b[1][1]})
<1> DEFINE n == Len(b)
           rest == Tail(b)
<1>1. n \in Nat /\ n >= 1 /\ Len(rest) = n - 1 /\ \A i \in 1 .. n - 1 : rest[i] = b[i + 1]
  OBVIOUS
<1>2. ASSUME NEW m \in J!Message, count[m] > 0
      PROVE  m \in ran \cup {b[1][1]} \/ \E i \in 1 .. Len(rest) : rest[i][1] = m
  <2>1. CASE m \in ran
    BY <2>1, Zenon
  <2>2. ASSUME NEW i \in 1 .. n, b[i][1] = m, i # 1 PROVE \E j \in 1 .. Len(rest) : rest[j][1] = m
    <3>1. i - 1 \in 1 .. n - 1 /\ rest[i - 1] = b[i]
      BY <1>1, <2>2
    <3> HIDE DEF rest
    <3> QED
      BY <1>1, <2>2, <3>1, Zenon
  <2> QED
    BY <1>2, <2>1, <2>2, Zenon DEF Covers
<1> QED
  BY <1>2, Zenon DEF Covers

\* A loop that proceeds stays in step: its first message is among those handled.
LEMMA ProceedsInStep ==
  ASSUME JInv, NEW l \in Loop, jLoop[l].step \in {"handle", "term"}, JOrderAt(l), Proceeds(l),
         UNCHANGED jCount, Ran' = Ran \cup {First(l)}
  PROVE  JOrderAt(l)'
<1> DEFINE b == jLoop[l].batch
<1>1. b \in Seq(J!Message \X Nat) /\ b # <<>>
  BY Zenon DEF JInv, JTypes, LoopState, JBatchAt
<1>2. Ascends(Tail(b), Ran') /\ Covers(jCount', Tail(b), Ran')
  BY <1>1, RestAscends, RestCovers, RanMessages, Zenon DEF JInv, JOrderAt, First
<1>3. CASE Leaps(l, "end", <<>>)
  BY <1>3 DEF Leaps, JOrderAt, Ascends
<1>4. CASE Tail(b) = <<>> /\ Leaps(l, "fetch", <<>>)
  BY <1>2, <1>4, Zenon DEF Leaps, JOrderAt
<1>5. CASE Leaps(l, "handle", Tail(b))
  BY <1>2, <1>5, Zenon DEF Leaps, JOrderAt
<1> QED
  BY <1>3, <1>4, <1>5, Zenon DEF Proceeds

\* A loop whose batch stays, like the messages, stays in step.
LEMMA OrderKept ==
  ASSUME NEW k \in Loop, JOrderAt(k), UNCHANGED <<jCount, jOrder>>,
         jLoop'[k].batch = jLoop[k].batch,
         jLoop'[k].step \in {"copy", "term"} => jLoop[k].step \in {"copy", "term"},
         \/ jLoop'[k].step \in {"fetch", "handle", "copy", "term"} =>
              jLoop[k].step \in {"fetch", "handle", "copy", "term"}
         \/ \A m \in J!Message : jCount[m] = 0
  PROVE  JOrderAt(k)'
<1>1. Ran' = Ran /\ First(k)' = First(k)
  BY Zenon DEF Ran, First
<1>2. (\A m \in J!Message : jCount[m] = 0) => Covers(jCount, jLoop[k].batch, Ran)
  BY DEF Covers
<1> QED
  BY <1>1, <1>2, Zenon DEF JOrderAt

\* A message in a fetched batch that was not handled before is new to the consumer and
\* younger than all that were.
LEMMA FetchedIsYounger ==
  ASSUME JInv, InStep, NEW l \in Loop, NEW n \in 1 .. BatchSize, NEW b \in [1 .. n -> J!Message],
         Fetches(l, b), NEW i \in 1 .. n, b[i] \notin Ran
  PROVE  /\ jCount[b[i]] = 0 /\ jState[b[i]] = "new" /\ b[i] \in J!Waiting
         /\ \A m \in Ran : m < b[i]
<1>1. jLoop[l].step = "fetch" /\ jLoop[l].batch = <<>> /\ jConsumer # J!NoConsumer
  BY Zenon DEF Fetches, JInv, JBatchAt
<1>2. Covers(jCount, <<>>, Ran)
  BY <1>1, Zenon DEF InStep, JOrderAt
<1>3. b[i] \in J!Message /\ jCount[b[i]] \in Nat
  BY StreamAssumption DEF JInv, JTypes
<1>4. jCount[b[i]] = 0
  BY <1>2, <1>3 DEF Covers
<1>5. jState[b[i]] = "new"
  BY <1>3, <1>4, Zenon DEF JInv, JCountAt
<1>6. b[i] \in J!Waiting
  <2>1. i \in DOMAIN b
    BY Zenon
  <2>2. b[i] \in J!Waiting \/ jState[b[i]] = "again"
    BY <2>1, Zenon DEF Fetches, J!IsBatch
  <2> QED
    BY <1>5, <2>2, Zenon
<1>7. ASSUME NEW m \in Ran PROVE m < b[i]
  <2>1. m \in J!Message /\ jCount[m] > 0
    BY RanMessages, Zenon DEF JInv, InStep
  <2>2. jConsumer.from \in Nat \ {0} /\ m \in Nat /\ b[i] \in Nat /\ b[i] >= jConsumer.from
    BY <1>1, <1>6, <2>1, StreamAssumption DEF JInv, JTypes, ConsumerOK, J!Waiting, J!Message
  <2>3. \A k \in jConsumer.from .. m : jCount[k] > 0
    BY <1>1, <2>1, Zenon DEF InStep, NoGaps
  <2>4. ~(b[i] <= m)
    <3> SUFFICES ASSUME b[i] <= m PROVE FALSE
      BY Zenon
    <3>1. b[i] \in jConsumer.from .. m
      BY <2>2
    <3> QED
      BY <1>4, <2>3, <3>1
  <2> QED
    BY <2>2, <2>4
<1> QED
  BY <1>4, <1>5, <1>6, <1>7, Zenon

\* A fetch leaves no gap: what is older and was not delivered is in the batch.
LEMMA FetchLeavesNoGap ==
  ASSUME JInv, InStep, NEW l \in Loop, NEW n \in 1 .. BatchSize, NEW b \in [1 .. n -> J!Message],
         Fetches(l, b)
  PROVE  NoGaps'
<1>1. jConsumer # J!NoConsumer /\ UNCHANGED jConsumer
  BY Zenon DEF Fetches
<1>2. jConsumer.from \in Nat \ {0}
  BY <1>1, Zenon DEF JInv, JTypes, ConsumerOK
<1>3. ASSUME NEW m \in J!Message
      PROVE  /\ jCount[m] \in Nat /\ m \in Nat
             /\ m \in J!Range(b) => jCount'[m] = jCount[m] + 1
             /\ m \notin J!Range(b) => jCount'[m] = jCount[m]
  <2>1. jCount[m] \in 0 .. MaxDeliver
    BY Zenon DEF JInv, JTypes
  <2>2. jCount'[m] = IF m \in J!Range(b) THEN jCount[m] + 1 ELSE jCount[m]
    BY Zenon DEF Fetches
  <2>3. m \in Nat /\ jCount[m] \in Nat
    BY <2>1, StreamAssumption DEF J!Message
  <2> QED
    BY <2>2, <2>3, Zenon
<1>4. ASSUME NEW m \in J!Message, jCount[m] > 0
      PROVE  m >= jConsumer.from /\ \A k \in jConsumer.from .. m : jCount'[k] > 0
  <2>1. m >= jConsumer.from /\ \A k \in jConsumer.from .. m : jCount[k] > 0
    BY <1>1, <1>4, Zenon DEF InStep, NoGaps
  <2>2. ASSUME NEW k \in jConsumer.from .. m PROVE jCount'[k] > 0
    <3>1. k \in J!Message
      BY <1>2, StreamAssumption DEF J!Message
    <3>2. jCount[k] > 0
      BY <2>1, Zenon
    <3> QED
      BY <1>3, <3>1, <3>2
  <2> QED
    BY <2>1, <2>2, Zenon
<1>5. ASSUME NEW m \in J!Message, jCount'[m] > 0, jCount[m] = 0
      PROVE  m >= jConsumer.from /\ \A k \in jConsumer.from .. m : jCount'[k] > 0
  <2>1. m \in J!Range(b)
    BY <1>3, <1>5
  <2>2. PICK i \in 1 .. n : b[i] = m
    BY <2>1, Zenon DEF J!Range
  <2>3. jState[m] = "new"
    BY <1>5, Zenon DEF JInv, JCountAt
  <2>4. m \in J!Waiting /\ \A k \in J!Waiting : k < m => k \in J!Range(b)
    <3>1. i \in DOMAIN b
      BY Zenon
    <3>2. b[i] \in J!Waiting \/ jState[b[i]] = "again"
      BY <3>1, Zenon DEF Fetches, J!IsBatch
    <3>3. \A k \in J!Waiting : k < b[i] => \E j \in DOMAIN b : b[j] = k
      BY <2>2, <2>3, <3>1, Zenon DEF Fetches, J!IsBatch
    <3> QED
      BY <2>2, <2>3, <3>2, <3>3, Zenon DEF J!Range
  <2>5. m \in jConsumer.from .. jStored /\ jStored \in Nat
    BY <2>4, StreamAssumption DEF J!Waiting, JInv, JTypes
  <2>6. ASSUME NEW k \in jConsumer.from .. m PROVE jCount'[k] > 0
    <3>1. k \in J!Message /\ k \in jConsumer.from .. jStored /\ m \in Nat
      BY <1>2, <2>5, StreamAssumption DEF J!Message
    <3>2. CASE jCount[k] > 0
      BY <1>3, <3>1, <3>2
    <3>3. CASE jCount[k] = 0
      <4>1. k \in J!Waiting
        BY <3>1, <3>3, Zenon DEF JInv, JCountAt, J!Waiting
      <4>2. k \in J!Range(b)
        BY <1>2, <2>1, <2>4, <3>1, <4>1
      <4> QED
        BY <1>3, <3>1, <4>2
    <3> QED
      BY <1>3, <3>1, <3>2, <3>3
  <2> QED
    BY <1>2, <2>5, <2>6
<1>6. ASSUME NEW m \in J!Message, jCount'[m] > 0
      PROVE  m >= jConsumer.from /\ \A k \in jConsumer.from .. m : jCount'[k] > 0
  BY <1>3, <1>4, <1>5, <1>6
<1> QED
  BY <1>1, <1>6, Zenon DEF NoGaps

\* The loop that fetched is in step.
LEMMA FetchedInStep ==
  ASSUME JInv, JInv', InStep, NEW l \in Loop, NEW n \in 1 .. BatchSize,
         NEW b \in [1 .. n -> J!Message], Fetches(l, b)
  PROVE  JOrderAt(l)'
<1> DEFINE batch == [i \in DOMAIN b |-> <<b[i], jCount'[b[i]]>>]
<1>1. n \in Nat /\ DOMAIN b = 1 .. n
  BY StreamAssumption
<1>2. \A i \in 1 .. n : batch[i][1] = b[i]
  BY <1>1, Zenon
<1>3. jLoop'[l].step = "handle" /\ jLoop'[l].batch = batch
  BY Zenon DEF Fetches, Leaps
<1>4. Len(batch) = n
  <2>1. DOMAIN batch = 1 .. n
    BY <1>1, Zenon
  <2>2. jLoop'[l].batch \in Seq(J!Message \X Nat)
    BY Zenon DEF JInv, JTypes, LoopState
  <2> HIDE DEF batch
  <2> QED
    BY <1>1, <1>3, <2>1, <2>2
<1> HIDE DEF batch
<1>5. Ran' = Ran
  BY Zenon DEF Fetches, Ran
<1>6. ASSUME NEW i \in 1 .. n, b[i] \notin Ran, NEW j \in i + 1 .. n PROVE b[i] < b[j]
  <2>1. jState[b[i]] = "new"
    BY <1>6, FetchedIsYounger, Zenon
  <2>2. i \in DOMAIN b /\ j \in DOMAIN b /\ i < j
    BY <1>1
  <2> QED
    BY <2>1, <2>2, Zenon DEF Fetches, J!IsBatch
<1>7. Ascends(batch, Ran)
  <2>1. ASSUME NEW i \in 1 .. n, batch[i][1] \notin Ran
        PROVE  (\A m \in Ran : m < batch[i][1]) /\ \A j \in i + 1 .. n : batch[i][1] < batch[j][1]
    <3>1. b[i] \notin Ran /\ batch[i][1] = b[i]
      BY <1>2, <2>1, Zenon
    <3>2. \A j \in i + 1 .. n : batch[j][1] = b[j]
      BY <1>1, <1>2
    <3> QED
      BY <1>6, <3>1, <3>2, FetchedIsYounger, Zenon
  <2> QED
    BY <1>4, <2>1, Zenon DEF Ascends
<1>8. Covers(jCount', batch, Ran)
  <2>1. Covers(jCount, <<>>, Ran)
    BY Zenon DEF Fetches, JInv, JBatchAt, InStep, JOrderAt
  <2>2. ASSUME NEW m \in J!Message, jCount'[m] > 0, m \notin Ran
        PROVE  \E i \in 1 .. n : batch[i][1] = m
    <3>1. ~(jCount[m] > 0)
      BY <2>1, <2>2 DEF Covers
    <3>2. m \in J!Range(b)
      BY <2>2, <3>1, Zenon DEF Fetches
    <3> QED
      BY <1>1, <1>2, <3>2, Zenon DEF J!Range
  <2> QED
    BY <1>4, <2>2, Zenon DEF Covers
<1> QED
  BY <1>3, <1>5, <1>7, <1>8, Zenon DEF JOrderAt

\* A loop that has begun has begun for good, and so has one that called.
LEMMA BeginsOnce ==
  ASSUME JEffect, JGrows
  PROVE  (NotBegun' => NotBegun) /\ (Alone' => Alone)
<1>1. ASSUME NEW k \in Loop
      PROVE  /\ jLoop'[k].step \in {"new", "attach", "register", "refused"} =>
                  jLoop[k].step \in {"new", "attach", "register", "refused"}
             /\ jLoop'[k].step = "new" => jLoop[k].step = "new"
  BY Ways, Zenon DEF Way, Going
<1> QED
  BY <1>1, Zenon DEF NotBegun, Alone, JGrows

\* Alone, a loop that comes from a call finds the others not begun.
LEMMA OthersNew ==
  ASSUME JEffect, Alone', NEW l \in Loop, jLoop'[l].step # "new", NEW k \in Loop, k # l
  PROVE  jLoop[k].step = "new" /\ jLoop'[k].step = "new"
<1>1. jLoop'[k].step = "new"
  BY Zenon DEF Alone
<1> QED
  BY <1>1, Ways, Zenon DEF Way, Going

\* They are in step.
LEMMA OthersInStep ==
  ASSUME JInv', JEffect, Alone', NEW l \in Loop, jLoop'[l].step # "new", NEW k \in Loop, k # l
  PROVE  JOrderAt(k)'
<1>1. jLoop'[k].step = "new"
  BY OthersNew, Zenon
<1>2. jLoop'[k].batch = <<>>
  BY <1>1, Zenon DEF JInv, JBatchAt
<1>3. Ascends(<<>>, Ran')
  BY DEF Ascends
<1> QED
  BY <1>1, <1>2, <1>3, Zenon DEF JOrderAt

\* Handling the first message of a batch keeps the batch ascending.
LEMMA FirstAscends ==
  ASSUME NEW b \in Seq(J!Message \X Nat), b # <<>>, NEW ran, Ascends(b, ran)
  PROVE  Ascends(b, ran \cup {b[1][1]})
<1>1. Len(b) \in Nat /\ 1 \in 1 .. Len(b) /\ \A i \in 1 .. Len(b) : i # 1 => i \in 1 + 1 .. Len(b)
  OBVIOUS
<1>2. ASSUME NEW i \in 1 .. Len(b), b[i][1] \notin ran \cup {b[1][1]}
      PROVE  /\ \A m \in ran \cup {b[1][1]} : m < b[i][1]
             /\ \A j \in i + 1 .. Len(b) : b[i][1] < b[j][1]
  <2>1. b[1][1] \notin ran => b[1][1] < b[i][1]
    BY <1>1, <1>2, Zenon DEF Ascends
  <2> QED
    BY <1>2, <2>1, Zenon DEF Ascends
<1> QED
  BY <1>2, Zenon DEF Ascends

\* While none has begun nothing is delivered.
LEMMA NoneOutNext == ASSUME JEffect, JGrows, NotBegun => NoneOut PROVE NotBegun' => NoneOut'
<1> SUFFICES ASSUME NotBegun' PROVE NoneOut'
  BY Zenon
<1>1. NoneOut
  BY BeginsOnce, Zenon
<1>2. ASSUME NEW l \in Loop, NEW n \in 1 .. BatchSize, NEW b \in [1 .. n -> J!Message], Fetches(l, b)
      PROVE  FALSE
  BY <1>2, Zenon DEF Fetches, Leaps, NotBegun
<1>3. UNCHANGED jCount
  BY <1>2, Zenon DEF JEffect, JStill, Expires, Calls, Handles, Republishes, Terms, Crashes
<1> QED
  BY <1>1, <1>3, Zenon DEF NoneOut

\* A batch without messages ascends.
LEMMA EmptyAscends == ASSUME NEW ran PROVE Ascends(<<>>, ran)
  BY DEF Ascends

\* A handler that runs for the first time runs for the youngest message so far.
LEMMA HandlesInStep ==
  ASSUME JInv, JInv', InStep, Alone', JEffect, NEW l \in Loop, Handles(l) PROVE InStep'
<1> DEFINE f == First(l)
<1>1. /\ f \in J!Message /\ 1 <= Len(jLoop[l].batch) /\ Len(jLoop[l].batch) \in Nat
      /\ jCount[f] > 0 /\ jLoop[l].step = "handle"
  <2>1. JTypes /\ JBatchAt(l) /\ jLoop[l].step = "handle"
    BY Zenon DEF JInv, Handles
  <2>2. /\ f \in J!Message /\ 1 <= Len(jLoop[l].batch) /\ Len(jLoop[l].batch) \in Nat
        /\ jCount[f] \in 1 .. MaxDeliver
    BY <2>1, FirstOfBatch, Zenon
  <2>3. jCount[f] > 0
    BY <2>2, StreamAssumption
  <2> QED
    BY <2>1, <2>2, <2>3, Zenon
<1>2. Ran' = Ran \cup {f}
  <2>1. CASE f \in Ran
    BY <2>1, Zenon DEF Handles, Ran
  <2>2. CASE f \notin Ran
    BY <1>1, <2>2, RanGrows, Zenon DEF JInv, Handles
  <2> QED
    BY <2>1, <2>2, Zenon
<1>3. f \notin Ran => \A m \in Ran : m < f
  <2>1. 1 \in 1 .. Len(jLoop[l].batch)
    BY <1>1
  <2> QED
    BY <2>1, Zenon DEF InStep, JOrderAt, Ascends, First
<1>4. \A i, j \in 1 .. Len(jOrder') : i < j => jOrder'[i] < jOrder'[j]
  <2>1. CASE f \in Ran
    BY <2>1, Zenon DEF Handles, InStep
  <2>2. CASE f \notin Ran
    <3>1. jOrder' = Append(jOrder, f)
      BY <2>2, Zenon DEF Handles
    <3>2. /\ Len(jOrder) \in Nat /\ Len(jOrder') = Len(jOrder) + 1
          /\ \A i \in 1 .. Len(jOrder) : jOrder'[i] = jOrder[i] /\ jOrder[i] \in Ran
          /\ jOrder'[Len(jOrder) + 1] = f
      <4>1. jOrder \in Seq(J!Message)
        BY Zenon DEF JInv, JTypes
      <4>2. \A i \in 1 .. Len(jOrder) : jOrder[i] \in Ran
        BY <4>1 DEF Ran, J!Range
      <4>3. /\ Len(jOrder) \in Nat /\ Len(jOrder') = Len(jOrder) + 1
            /\ \A i \in 1 .. Len(jOrder) : jOrder'[i] = jOrder[i]
            /\ jOrder'[Len(jOrder) + 1] = f
        BY <1>1, <3>1, <4>1
      <4> QED
        BY <4>2, <4>3, Zenon
    <3>3. ASSUME NEW i \in 1 .. Len(jOrder'), NEW j \in 1 .. Len(jOrder'), i < j
          PROVE  jOrder'[i] < jOrder'[j]
      <4>1. i \in 1 .. Len(jOrder)
        BY <3>2, <3>3
      <4>2. CASE j \in 1 .. Len(jOrder)
        BY <3>2, <3>3, <4>1, <4>2, Zenon DEF InStep
      <4>3. CASE j = Len(jOrder) + 1
        BY <1>3, <2>2, <3>2, <4>1, <4>3, Zenon
      <4> QED
        BY <3>2, <4>2, <4>3
    <3> QED
      BY <3>3, Zenon
  <2> QED
    BY <2>1, <2>2, Zenon
<1>5. UNCHANGED <<jCount, jConsumer>>
  BY Zenon DEF Handles
<1>6. (\A m \in Ran' : jCount'[m] > 0) /\ NoGaps'
  BY <1>1, <1>2, <1>5, Zenon DEF InStep, NoGaps
<1>7. JOrderAt(l)'
  <2>1. CASE Proceeds(l)
    BY <1>1, <1>2, <1>5, <2>1, ProceedsInStep, Zenon DEF InStep
  <2>2. CASE Leaps(l, "copy", jLoop[l].batch)
    <3>1. jLoop'[l].step = "copy" /\ jLoop'[l].batch = jLoop[l].batch /\ First(l)' = f
      BY <2>2, Zenon DEF Leaps, First
    <3>2. Covers(jCount, jLoop[l].batch, Ran')
      BY <1>1, <1>2, Zenon DEF InStep, JOrderAt, Covers
    <3>3. Ascends(jLoop[l].batch, Ran')
      <4>1. jLoop[l].batch \in Seq(J!Message \X Nat) /\ jLoop[l].batch # <<>>
        BY <1>1, Zenon DEF JInv, JTypes, LoopState, JBatchAt
      <4> QED
        BY <1>2, <4>1, FirstAscends, Zenon DEF InStep, JOrderAt, First
    <3> QED
      BY <1>2, <1>5, <3>1, <3>2, <3>3, Zenon DEF JOrderAt
  <2> QED
    BY <2>1, <2>2, Zenon DEF Handles
<1>8. jLoop'[l].step # "new"
  BY Zenon DEF Handles, Proceeds, Leaps
<1>9. ASSUME NEW k \in Loop, k # l PROVE JOrderAt(k)'
  BY <1>8, <1>9, OthersInStep, Zenon
<1> QED
  BY <1>4, <1>6, <1>7, <1>9, Zenon DEF InStep

\* A fetch, with one loop alone.
LEMMA FetchesInStep ==
  ASSUME JInv, JInv', InStep, Alone', JEffect, NEW l \in Loop, NEW n \in 1 .. BatchSize,
         NEW b \in [1 .. n -> J!Message], Fetches(l, b)
  PROVE  InStep'
<1>1. UNCHANGED jOrder /\ Ran' = Ran
  BY Zenon DEF Fetches, Ran
<1>2. ASSUME NEW m \in Ran PROVE jCount'[m] > 0
  <2>1. m \in J!Message /\ jCount[m] > 0
    BY RanMessages, Zenon DEF JInv, InStep
  <2>2. jCount[m] \in Nat /\ jCount'[m] \in Nat /\ jCount[m] <= jCount'[m]
    BY <2>1, CountGrows, Zenon DEF JInv
  <2> QED
    BY <2>1, <2>2
<1>3. jLoop'[l].step # "new"
  BY Zenon DEF Fetches, Leaps
<1>4. ASSUME NEW k \in Loop PROVE JOrderAt(k)'
  BY <1>3, FetchedInStep, OthersInStep, Zenon
<1> QED
  BY <1>1, <1>2, <1>4, FetchLeavesNoGap, Zenon DEF InStep

\* The steps that deliver nothing and run no handler.
LEMMA OthersKeepStep ==
  ASSUME JInv, JInv', InStep, Alone', JEffect, NotBegun => NoneOut, UNCHANGED <<jCount, jOrder>>,
         NEW l \in Loop, Calls(l) \/ Republishes(l) \/ Terms(l) \/ Crashes(l)
  PROVE  InStep'
<1>1. Ran' = Ran
  BY Zenon DEF Ran
<1>2. jLoop'[l].step # "new"
  BY Zenon DEF Calls, Walks, Republishes, Terms, Crashes, Proceeds, Leaps
<1>3. \A k \in Loop : k # l => jLoop[k].step = "new" /\ JOrderAt(k)'
  BY <1>2, OthersNew, OthersInStep, Zenon
<1>4. ASSUME jLoop[l].step \in {"new", "register"} PROVE NoneOut
  BY <1>3, <1>4, Zenon DEF NotBegun
<1>5. NoGaps'
  <2>1. CASE UNCHANGED jConsumer
    BY <2>1, Zenon DEF InStep, NoGaps
  <2>2. CASE jLoop[l].step = "new"
    <3>1. \A m \in J!Message : jCount'[m] = 0
      BY <1>4, <2>2, Zenon DEF NoneOut
    <3> QED
      BY <3>1 DEF NoGaps
  <2> QED
    BY <2>1, <2>2, Zenon DEF Calls, Walks, Republishes, Terms, Crashes
<1>6. JOrderAt(l)'
  <2>1. CASE Calls(l)
    <3>1. jLoop[l].step = "register" => \A m \in J!Message : jCount[m] = 0
      BY <1>4, Zenon DEF NoneOut
    <3> QED
      BY <2>1, <3>1, OrderKept, Zenon DEF Calls, Walks, Leaps, InStep
  <2>2. CASE Republishes(l)
    BY <2>2, OrderKept, Zenon DEF Republishes, Leaps, InStep
  <2>3. CASE Terms(l)
    <3>1. First(l) \in Ran
      BY <2>3, Zenon DEF Terms, InStep, JOrderAt
    <3> QED
      BY <1>1, <2>3, <3>1, ProceedsInStep, Zenon DEF Terms, InStep
  <2>4. CASE Crashes(l)
    <3>1. jLoop'[l].step = "dead" /\ jLoop'[l].batch = <<>>
      BY <2>4, Zenon DEF Crashes, Leaps
    <3> QED
      BY <3>1, EmptyAscends, Zenon DEF JOrderAt
  <2> QED
    BY <2>1, <2>2, <2>3, <2>4, Zenon
<1> QED
  BY <1>1, <1>3, <1>5, <1>6, Zenon DEF InStep

\* Every step keeps the order.
LEMMA JOrderNext ==
  ASSUME JInv, JInv', JEffect, JGrows, JOrderInv PROVE JOrderInv'
<1>1. NotBegun' => NoneOut'
  BY NoneOutNext, Zenon DEF JOrderInv
<1>2. ASSUME Alone' PROVE InStep'
  <2>1. InStep /\ jLapsed' = {}
    BY <1>2, BeginsOnce, Zenon DEF JOrderInv, Alone
  <2>2. CASE JStill
    <3>1. ASSUME NEW k \in Loop PROVE JOrderAt(k)'
      BY <2>1, <2>2, OrderKept, Zenon DEF JStill, InStep
    <3> QED
      BY <2>1, <2>2, <3>1, Zenon DEF JStill, InStep, NoGaps, Ran
  <2>3. \A m \in J!Message : ~Expires(m)
    BY <2>1, Zenon DEF Expires
  <2>4. ASSUME NEW l \in Loop, Handles(l) PROVE InStep'
    BY <1>2, <2>1, <2>4, HandlesInStep, Zenon
  <2>5. ASSUME NEW l \in Loop, NEW n \in 1 .. BatchSize, NEW b \in [1 .. n -> J!Message], Fetches(l, b)
        PROVE  InStep'
    BY <1>2, <2>1, <2>5, FetchesInStep, Zenon
  <2>6. ASSUME NEW l \in Loop, Calls(l) \/ Republishes(l) \/ Terms(l) \/ Crashes(l) PROVE InStep'
    <3>1. UNCHANGED <<jCount, jOrder>>
      BY <2>6, Zenon DEF Calls, Republishes, Terms, Crashes
    <3> QED
      BY <1>2, <2>1, <2>6, <3>1, OthersKeepStep, Zenon DEF JOrderInv
  <2> QED
    BY <2>2, <2>3, <2>4, <2>5, <2>6, Zenon DEF JEffect
<1> QED
  BY <1>1, <1>2, Zenon DEF JOrderInv

\* JetStream keeps account of its messages: what is acknowledged was handled, what is
\* used up lapsed, what is terminated was copied, first runs are in order, and a loop
\* ends only when it is cancelled or its consumer deleted.
THEOREM JetAccountsCorrect == J!Spec => []JetAccounts
<1>1. J!Init => JOrderInv
  <2> SUFFICES ASSUME J!Init PROVE JOrderInv
    BY Zenon
  <2>1. NoneOut
    BY Zenon DEF J!Init, NoneOut
  <2>2. Ran = {} /\ Len(jOrder) = 0
    BY DEF J!Init, Ran, J!Range
  <2>3. \A l \in Loop : jLoop[l].step = "new" /\ jLoop[l].batch = <<>>
    BY Zenon DEF J!Init
  <2>4. \A l \in Loop : JOrderAt(l)
    BY <2>3, EmptyAscends, Zenon DEF JOrderAt
  <2>5. NoGaps
    BY Zenon DEF J!Init, NoGaps
  <2> QED
    BY <2>1, <2>2, <2>4, <2>5 DEF JOrderInv, InStep
<1>2. JInv /\ JInv' /\ JOrderInv /\ [J!Next]_J!vars => JOrderInv'
  BY JOrderNext, JEffects, JGrowsNext, Zenon DEF JInv
<1>3. JInv /\ JOrderInv => JetAccounts
  <2> SUFFICES ASSUME JInv, JOrderInv PROVE JetAccounts
    BY Zenon
  <2>1. J!JetTypeOK
    <3>1. \A m \in J!Message : jCount[m] \in 0 .. MaxDeliver /\ (jCount[m] = 0) = (jState[m] = "new")
      BY Zenon DEF JInv, JTypes, JCountAt
    <3>2. ASSUME NEW l \in Loop
          PROVE  /\ jLoop[l].backoff \in 1 .. MaxBackoff /\ Len(jLoop[l].batch) <= BatchSize
                 /\ (jLoop[l].batch = <<>>) = (jLoop[l].step \notin {"handle", "copy", "term"})
      BY Zenon DEF JInv, JTypes, LoopState, JBatchAt
    <3> QED
      BY <3>1, <3>2, Zenon DEF J!JetTypeOK, JInv, JTypes, JPlace
  <2>2. J!JetLoopSurvives
    BY Zenon DEF JInv, JLiveAt, J!JetLoopSurvives, J!At, J!Happened
  <2>3. J!JetAcksHandled /\ J!JetNeverVanishes /\ J!JetTermedIsCopied
    BY Zenon
    DEF JInv, JCountAt, Copied, J!JetAcksHandled, J!JetNeverVanishes, J!JetTermedIsCopied, J!Happened
  <2>4. J!JetInOrder
    BY Zenon DEF JOrderInv, Alone, InStep, J!JetInOrder, J!At
  <2> QED
    BY <2>1, <2>2, <2>3, <2>4, Zenon DEF JetAccounts
<1> QED
  BY <1>1, <1>2, <1>3, JetInvariant, PTL DEF J!Spec

\* A durable subscription keeps the contract of modulex.EventBus.Close, and its consumer
\* the start it was given.
THEOREM JetKeepsContractCorrect == J!Spec => JetKeepsContract
  BY JetImplementsContract, ConsumerKeptCorrect, PTL DEF JetKeepsContract
===============================================================================
