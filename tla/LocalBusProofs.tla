------------------------------ MODULE LocalBusProofs ------------------------------
(***************************************************************************)
(* Proofs about NatsBus and WatermillBus, for any subscriptions, messages,  *)
(* callers of Close and pools: both implement BusContract, and both keep    *)
(* what they promise of the messages they deliver.                          *)
(***************************************************************************)
EXTENDS LocalBuses, Sequences, TLAPS

-----------------------------------------------------------------------------
(***************************************************************************)
(* NatsBus.                                                                *)
(***************************************************************************)
NatsTypes ==
  /\ nClosed \in BOOLEAN /\ nLive \subseteq Sub
  /\ nCallback \in [Sub -> {"idle", "lock", "run"}]
  /\ nClosers \in [Closer -> {"idle", "stop", "wait", "nil", "again", "late"}]
  /\ nFeed \in [Sub -> Seq(Msg)] /\ nPending \in [Sub -> Seq(Msg)] /\ nHandled \in [Sub -> Seq(Msg)]

\* Every Close call has marked the bus, and the one that returned nil has seen
\* the last handler leave.
NatsCloseInv ==
  /\ \A c \in Closer : nClosers[c] # "idle" => nClosed
  /\ \A c \in Closer : nClosers[c] = "nil" => Nats!InFlight = {}

\* f is h followed by p.
Splits(f, h, p) ==
  /\ Len(f) = Len(h) + Len(p)
  /\ \A i \in 1 .. Len(h) : h[i] = f[i]
  /\ \A i \in 1 .. Len(p) : p[i] = f[Len(h) + i]

\* What was handled is the first part of what was published; on an open bus the
\* rest is what the connection holds, and a callback waits with its message.
NatsOrderInv ==
  \A s \in Sub :
    /\ Nats!Begins(nHandled[s], nFeed[s])
    /\ ~nClosed => Splits(nFeed[s], nHandled[s], nPending[s])
    /\ nCallback[s] = "lock" => nPending[s] # <<>>

-----------------------------------------------------------------------------
\* A sequence with one more element.
LEMMA AppendFacts ==
  ASSUME NEW S, NEW q \in Seq(S), NEW e \in S
  PROVE  /\ Append(q, e) \in Seq(S) /\ Append(q, e) # <<>> /\ Len(Append(q, e)) = Len(q) + 1
         /\ (\A i \in 1 .. Len(q) : Append(q, e)[i] = q[i]) /\ Append(q, e)[Len(q) + 1] = e
  OBVIOUS

\* A sequence without its first element.
LEMMA TailFacts ==
  ASSUME NEW S, NEW q \in Seq(S), q # <<>>
  PROVE  /\ Head(q) = q[1] /\ Head(q) \in S /\ Tail(q) \in Seq(S) /\ Len(Tail(q)) = Len(q) - 1
         /\ \A i \in 1 .. Len(Tail(q)) : Tail(q)[i] = q[i + 1]
  OBVIOUS

\* A message that is published goes to the end of both sequences.
LEMMA SplitsAppend ==
  ASSUME NEW f \in Seq(Msg), NEW h \in Seq(Msg), NEW p \in Seq(Msg), NEW m \in Msg, Splits(f, h, p)
  PROVE  Splits(Append(f, m), h, Append(p, m))
<1>1. Len(f) \in Nat /\ Len(h) \in Nat /\ Len(p) \in Nat
  OBVIOUS
<1>2. /\ Len(Append(f, m)) = Len(f) + 1
      /\ \A i \in 1 .. Len(f) : Append(f, m)[i] = f[i]
      /\ Append(f, m)[Len(f) + 1] = m
  BY AppendFacts
<1>3. /\ Len(Append(p, m)) = Len(p) + 1
      /\ \A i \in 1 .. Len(p) : Append(p, m)[i] = p[i]
      /\ Append(p, m)[Len(p) + 1] = m
  BY AppendFacts
<1>4. Len(f) = Len(h) + Len(p)
  BY Zenon DEF Splits
<1>5. ASSUME NEW i \in 1 .. Len(h) PROVE h[i] = Append(f, m)[i]
  BY <1>1, <1>2, <1>4 DEF Splits
<1>6. ASSUME NEW i \in 1 .. Len(p) + 1 PROVE Append(p, m)[i] = Append(f, m)[Len(h) + i]
  <2>1. CASE i \in 1 .. Len(p)
    BY <1>1, <1>2, <1>3, <1>4, <2>1 DEF Splits
  <2>2. CASE i = Len(p) + 1
    BY <1>1, <1>2, <1>3, <1>4, <2>2
  <2>3. i \in 1 .. Len(p) \/ i = Len(p) + 1
    BY <1>1
  <2> QED
    BY <2>1, <2>2, <2>3, Zenon
<1>7. /\ Len(Append(f, m)) = Len(h) + Len(Append(p, m))
      /\ \A i \in 1 .. Len(Append(p, m)) : Append(p, m)[i] = Append(f, m)[Len(h) + i]
  BY <1>1, <1>2, <1>3, <1>4, <1>6
<1> QED
  BY <1>5, <1>7, Zenon DEF Splits

\* A message that is handled goes from the head of the one to the end of the other.
LEMMA SplitsMove ==
  ASSUME NEW f \in Seq(Msg), NEW h \in Seq(Msg), NEW p \in Seq(Msg), p # <<>>, Splits(f, h, p)
  PROVE  Splits(f, Append(h, Head(p)), Tail(p))
<1>1. Len(f) \in Nat /\ Len(h) \in Nat /\ Len(p) \in Nat /\ Len(p) > 0
  OBVIOUS
<1>2. /\ Tail(p) \in Seq(Msg) /\ Len(Tail(p)) = Len(p) - 1
      /\ \A i \in 1 .. Len(Tail(p)) : Tail(p)[i] = p[i + 1]
      /\ Head(p) \in Msg /\ Head(p) = p[1]
  BY TailFacts, Zenon
<1>3. /\ Len(Append(h, Head(p))) = Len(h) + 1
      /\ \A i \in 1 .. Len(h) : Append(h, Head(p))[i] = h[i]
      /\ Append(h, Head(p))[Len(h) + 1] = Head(p)
  BY <1>2, AppendFacts
<1>4. ASSUME NEW i \in 1 .. Len(h) + 1 PROVE Append(h, Head(p))[i] = f[i]
  <2>1. CASE i \in 1 .. Len(h)
    BY <1>3, <2>1, Zenon DEF Splits
  <2>2. CASE i = Len(h) + 1
    BY <1>1, <1>2, <1>3, <2>2 DEF Splits
  <2> QED
    BY <1>1, <2>1, <2>2
<1>5. ASSUME NEW i \in 1 .. Len(Tail(p)) PROVE Tail(p)[i] = f[Len(h) + 1 + i]
  <2>1. i + 1 \in 1 .. Len(p) /\ Len(h) + (i + 1) = Len(h) + 1 + i
    BY <1>1, <1>2
  <2> QED
    BY <1>2, <2>1, Zenon DEF Splits
<1> QED
  BY <1>1, <1>2, <1>3, <1>4, <1>5 DEF Splits

\* The first part is where a sequence begins.
LEMMA SplitsBegins ==
  ASSUME NEW f, NEW h, NEW p, Len(h) \in Nat, Len(p) \in Nat, Splits(f, h, p)
  PROVE  Nats!Begins(h, f)
  BY DEF Splits, Nats!Begins

\* Every step of the bus keeps the types.
LEMMA NatsTypesNext == NatsTypes /\ NatsOrderInv /\ [Nats!Next]_Nats!vars => NatsTypes'
<1> SUFFICES ASSUME NatsTypes, NatsOrderInv, [Nats!Next]_Nats!vars PROVE NatsTypes'
  BY Zenon
<1>1. ASSUME NEW m \in Msg, Nats!Publish(m) PROVE NatsTypes'
  BY <1>1 DEF Nats!Publish, NatsTypes
<1>2. ASSUME NEW s \in Sub, Nats!Subscribe(s) PROVE NatsTypes'
  BY <1>2, Zenon DEF Nats!Subscribe, NatsTypes
<1>3. ASSUME NEW s \in Sub, Nats!CallerCancels(s) PROVE NatsTypes'
  BY <1>3, Zenon DEF Nats!CallerCancels, NatsTypes
<1>4. ASSUME NEW s \in Sub, Nats!Deliver(s) PROVE NatsTypes'
  BY <1>4, Zenon DEF Nats!Deliver, NatsTypes
<1>5. ASSUME NEW s \in Sub, Nats!Enter(s) PROVE NatsTypes'
  <2>1. Tail(nPending[s]) \in Seq(Msg) /\ Append(nHandled[s], Head(nPending[s])) \in Seq(Msg)
    BY <1>5, nPending[s] # <<>>, nPending[s] \in Seq(Msg), nHandled[s] \in Seq(Msg)
    DEF Nats!Enter, NatsTypes, NatsOrderInv
  <2> QED
    BY <1>5, <2>1, Zenon DEF Nats!Enter, NatsTypes
<1>6. ASSUME NEW s \in Sub, Nats!HandlerEnds(s) PROVE NatsTypes'
  BY <1>6, Zenon DEF Nats!HandlerEnds, NatsTypes
<1>7. ASSUME NEW c \in Closer, Nats!CloseBegins(c) PROVE NatsTypes'
  BY <1>7, Zenon DEF Nats!CloseBegins, NatsTypes
<1>8. ASSUME NEW c \in Closer, Nats!CloseStops(c) PROVE NatsTypes'
  BY <1>8, Zenon DEF Nats!CloseStops, NatsTypes
<1>9. ASSUME NEW c \in Closer, Nats!CloseReturns(c) PROVE NatsTypes'
  BY <1>9, Zenon DEF Nats!CloseReturns, NatsTypes
<1>10. CASE UNCHANGED Nats!vars
  BY <1>10, Zenon DEF Nats!vars, NatsTypes
<1> QED
  BY <1>1, <1>2, <1>3, <1>4, <1>5, <1>6, <1>7, <1>8, <1>9, <1>10, Zenon
  DEF Nats!Next, Nats!Callback, Nats!Close

\* Every step keeps what Close promises: a callback enters its handler only while
\* the bus is open, so before any Close call has returned.
LEMMA NatsCloseNext == NatsTypes /\ NatsCloseInv /\ [Nats!Next]_Nats!vars => NatsCloseInv'
<1> SUFFICES ASSUME NatsTypes, NatsCloseInv, [Nats!Next]_Nats!vars PROVE NatsCloseInv'
  BY Zenon
<1> USE DEF NatsCloseInv, Nats!InFlight
<1>1. ASSUME NEW m \in Msg, Nats!Publish(m) PROVE NatsCloseInv'
  BY <1>1, Zenon DEF Nats!Publish, NatsTypes
<1>2. ASSUME NEW s \in Sub, Nats!Subscribe(s) PROVE NatsCloseInv'
  BY <1>2, Zenon DEF Nats!Subscribe, NatsTypes
<1>3. ASSUME NEW s \in Sub, Nats!CallerCancels(s) PROVE NatsCloseInv'
  BY <1>3, Zenon DEF Nats!CallerCancels, NatsTypes
<1>4. ASSUME NEW s \in Sub, Nats!Deliver(s) PROVE NatsCloseInv'
  BY <1>4, Zenon DEF Nats!Deliver, NatsTypes
<1>5. ASSUME NEW s \in Sub, Nats!Enter(s) PROVE NatsCloseInv'
  BY <1>5, Zenon DEF Nats!Enter, NatsTypes
<1>6. ASSUME NEW s \in Sub, Nats!HandlerEnds(s) PROVE NatsCloseInv'
  BY <1>6, Zenon DEF Nats!HandlerEnds, NatsTypes
<1>7. ASSUME NEW c \in Closer, Nats!CloseBegins(c) PROVE NatsCloseInv'
  BY <1>7, Zenon DEF Nats!CloseBegins, NatsTypes
<1>8. ASSUME NEW c \in Closer, Nats!CloseStops(c) PROVE NatsCloseInv'
  BY <1>8, Zenon DEF Nats!CloseStops, NatsTypes
<1>9. ASSUME NEW c \in Closer, Nats!CloseReturns(c) PROVE NatsCloseInv'
  BY <1>9, Zenon DEF Nats!CloseReturns, NatsTypes
<1>10. CASE UNCHANGED Nats!vars
  BY <1>10, Zenon DEF Nats!vars, NatsTypes
<1> QED
  BY <1>1, <1>2, <1>3, <1>4, <1>5, <1>6, <1>7, <1>8, <1>9, <1>10, Zenon
  DEF Nats!Next, Nats!Callback, Nats!Close

\* Every step keeps the order.
LEMMA NatsOrderNext == NatsTypes /\ NatsOrderInv /\ [Nats!Next]_Nats!vars => NatsOrderInv'
<1> SUFFICES ASSUME NatsTypes, NatsOrderInv, [Nats!Next]_Nats!vars PROVE NatsOrderInv'
  BY Zenon
<1>1. ASSUME NEW m \in Msg, Nats!Publish(m) PROVE NatsOrderInv'
  <2> SUFFICES ASSUME NEW s \in Sub PROVE NatsOrderInv!(s)'
    BY Zenon DEF NatsOrderInv
  <2>1. nHandled[s] \in Seq(Msg) /\ nFeed[s] \in Seq(Msg) /\ nPending[s] \in Seq(Msg)
    BY Zenon DEF NatsTypes
  <2>2. nClosed' = nClosed /\ nCallback' = nCallback /\ nHandled' = nHandled
    BY <1>1, Zenon DEF Nats!Publish
  <2>3. CASE s \in nLive
    <3>1. nFeed'[s] = Append(nFeed[s], m) /\ nPending'[s] = Append(nPending[s], m)
      BY <1>1, <2>3, Zenon DEF Nats!Publish
    <3>2. Nats!Begins(nHandled[s], nFeed'[s])
      <4>1. Nats!Begins(nHandled[s], nFeed[s])
        BY Zenon DEF NatsOrderInv
      <4>2. /\ Len(nFeed'[s]) = Len(nFeed[s]) + 1
            /\ \A i \in 1 .. Len(nFeed[s]) : nFeed'[s][i] = nFeed[s][i]
        BY <2>1, <3>1, AppendFacts
      <4>3. Len(nFeed[s]) \in Nat /\ Len(nHandled[s]) \in Nat
        BY <2>1
      <4> QED
        BY <4>1, <4>2, <4>3 DEF Nats!Begins
    <3>3. ~nClosed => Splits(nFeed'[s], nHandled[s], nPending'[s])
      BY <2>1, <3>1, SplitsAppend, Zenon DEF NatsOrderInv
    <3>4. nPending'[s] # <<>>
      BY <2>1, <3>1, AppendFacts
    <3> QED
      BY <2>2, <3>2, <3>3, <3>4, Zenon DEF Nats!Begins, Splits
  <2>4. CASE s \notin nLive
    <3>1. nFeed'[s] = nFeed[s] /\ nPending'[s] = nPending[s]
      BY <1>1, <2>4, Zenon DEF Nats!Publish
    <3> QED
      BY <2>2, <3>1, Zenon DEF NatsOrderInv, Nats!Begins, Splits
  <2> QED
    BY <2>3, <2>4, Zenon
<1>2. ASSUME NEW s \in Sub, Nats!Subscribe(s) PROVE NatsOrderInv'
  BY <1>2 DEF Nats!Subscribe, NatsTypes, NatsOrderInv, Nats!Begins, Splits
<1>3. ASSUME NEW s \in Sub, Nats!CallerCancels(s) PROVE NatsOrderInv'
  BY <1>3 DEF Nats!CallerCancels, NatsTypes, NatsOrderInv, Nats!Begins, Splits
<1>4. ASSUME NEW s \in Sub, Nats!Deliver(s) PROVE NatsOrderInv'
  BY <1>4, Zenon DEF Nats!Deliver, NatsTypes, NatsOrderInv, Nats!Begins, Splits
<1>5. ASSUME NEW r \in Sub, Nats!Enter(r) PROVE NatsOrderInv'
  <2> SUFFICES ASSUME NEW s \in Sub PROVE NatsOrderInv!(s)'
    BY Zenon DEF NatsOrderInv
  <2>1. nClosed' = nClosed /\ nFeed' = nFeed
    BY <1>5, Zenon DEF Nats!Enter
  <2>2. CASE s # r
    <3>1. /\ nPending'[s] = nPending[s] /\ nCallback'[s] = nCallback[s]
          /\ nHandled'[s] = nHandled[s]
      BY <1>5, <2>2, Zenon DEF Nats!Enter, NatsTypes
    <3>2. Nats!Begins(nHandled[s], nFeed[s])'
      BY <2>1, <3>1, Zenon DEF NatsOrderInv, Nats!Begins
    <3>3. (~nClosed => Splits(nFeed[s], nHandled[s], nPending[s]))'
      <4>1. ~nClosed => Splits(nFeed[s], nHandled[s], nPending[s])
        BY Zenon DEF NatsOrderInv
      <4> QED
        BY <2>1, <3>1, <4>1, Zenon DEF Splits
    <3>4. (nCallback[s] = "lock" => nPending[s] # <<>>)'
      BY <3>1, Zenon DEF NatsOrderInv
    <3> QED
      BY <3>2, <3>3, <3>4, Zenon
  <2>3. CASE s = r /\ nClosed
    <3>1. nHandled' = nHandled /\ nCallback'[s] = "idle"
      BY <1>5, <2>3, Zenon DEF Nats!Enter, NatsTypes
    <3>2. Nats!Begins(nHandled[s], nFeed[s])'
      BY <2>1, <3>1, Zenon DEF NatsOrderInv, Nats!Begins
    <3>3. (~nClosed => Splits(nFeed[s], nHandled[s], nPending[s]))'
      BY <2>1, <2>3, Zenon
    <3>4. (nCallback[s] = "lock" => nPending[s] # <<>>)'
      BY <3>1, Zenon
    <3> QED
      BY <3>2, <3>3, <3>4, Zenon
  <2>4. CASE s = r /\ ~nClosed
    <3>1. /\ nCallback'[s] = "run" /\ nPending'[s] = Tail(nPending[s])
          /\ nHandled'[s] = Append(nHandled[s], Head(nPending[s]))
      BY <1>5, <2>4, Zenon DEF Nats!Enter, NatsTypes
    <3>2. /\ nHandled[s] \in Seq(Msg) /\ nPending[s] \in Seq(Msg) /\ nFeed[s] \in Seq(Msg)
          /\ nPending[s] # <<>> /\ Splits(nFeed[s], nHandled[s], nPending[s])
      BY <1>5, <2>4, Zenon DEF NatsTypes, NatsOrderInv, Nats!Enter
    <3>3. Splits(nFeed[s], nHandled'[s], nPending'[s])
      BY <3>1, <3>2, SplitsMove, Zenon
    <3>4. Len(nHandled'[s]) \in Nat /\ Len(nPending'[s]) \in Nat
      BY <3>1, <3>2, TailFacts, AppendFacts
    <3>5. Nats!Begins(nHandled'[s], nFeed[s])
      BY <3>3, <3>4, SplitsBegins, Zenon
    <3> QED
      BY <2>1, <3>1, <3>3, <3>5, Zenon DEF Splits, Nats!Begins
  <2> QED
    BY <2>2, <2>3, <2>4, Zenon
<1>6. ASSUME NEW s \in Sub, Nats!HandlerEnds(s) PROVE NatsOrderInv'
  BY <1>6, Zenon DEF Nats!HandlerEnds, NatsTypes, NatsOrderInv, Nats!Begins, Splits
<1>7. ASSUME NEW c \in Closer, Nats!CloseBegins(c) PROVE NatsOrderInv'
  BY <1>7, Zenon DEF Nats!CloseBegins, NatsTypes, NatsOrderInv, Nats!Begins, Splits
<1>8. ASSUME NEW c \in Closer, Nats!CloseStops(c) PROVE NatsOrderInv'
  BY <1>8, Zenon DEF Nats!CloseStops, NatsTypes, NatsOrderInv, Nats!Begins, Splits
<1>9. ASSUME NEW c \in Closer, Nats!CloseReturns(c) PROVE NatsOrderInv'
  BY <1>9, Zenon DEF Nats!CloseReturns, NatsTypes, NatsOrderInv, Nats!Begins, Splits
<1>10. CASE UNCHANGED Nats!vars
  BY <1>10, Zenon DEF Nats!vars, NatsTypes, NatsOrderInv, Nats!Begins, Splits
<1> QED
  BY <1>1, <1>2, <1>3, <1>4, <1>5, <1>6, <1>7, <1>8, <1>9, <1>10, Zenon
  DEF Nats!Next, Nats!Callback, Nats!Close

NatsInv == NatsTypes /\ NatsCloseInv /\ NatsOrderInv

\* The inductive invariant holds at all times.
THEOREM NatsInvariant == Nats!Spec => []NatsInv
<1>1. Nats!Init => NatsInv
  <2> SUFFICES ASSUME Nats!Init PROVE NatsInv
    BY Zenon
  <2>1. NatsTypes
    <3>1. \A S : <<>> \in Seq(S)
      OBVIOUS
    <3> QED
      BY <3>1, Zenon DEF Nats!Init, NatsTypes
  <2>2. NatsCloseInv
    BY Zenon DEF Nats!Init, NatsCloseInv
  <2>3. NatsOrderInv
    <3>1. \A s \in Sub : nHandled[s] = <<>> /\ nFeed[s] = <<>> /\ nPending[s] = <<>> /\ nCallback[s] = "idle"
      BY Zenon DEF Nats!Init
    <3>2. Nats!Begins(<<>>, <<>>) /\ Splits(<<>>, <<>>, <<>>)
      BY DEF Nats!Begins, Splits
    <3> QED
      BY <3>1, <3>2, Zenon DEF NatsOrderInv
  <2> QED
    BY <2>1, <2>2, <2>3, Zenon DEF NatsInv
<1>2. NatsInv /\ [Nats!Next]_Nats!vars => NatsInv'
  BY NatsTypesNext, NatsCloseNext, NatsOrderNext, Zenon DEF NatsInv
<1> QED
  BY <1>1, <1>2, PTL DEF Nats!Spec

\* Handlers run for the messages of their subscription in the order of publication,
\* each once and none skipped, whatever callbacks race with Close.
THEOREM NatsInOrderCorrect == Nats!Spec => []Nats!NatsInOrder
<1>1. NatsInv => Nats!NatsInOrder
  BY Zenon DEF NatsInv, NatsTypes, NatsOrderInv, Nats!Begins, Nats!NatsInOrder
<1> QED
  BY <1>1, NatsInvariant, PTL

\* nats.go keeps what an event bus promises of Close: after the Close call that closed
\* the bus has returned nil no handler runs and none is started.
THEOREM NatsImplementsContract == Nats!Spec => Nats!NatsCloseSettles
<1>1. Nats!Init => Nats!Contract!Init
  BY Zenon DEF Nats!Init, Nats!InFlight, Nats!Contract!Init
<1>2. NatsInv /\ [Nats!Next]_Nats!vars => [Nats!Contract!Next]_Nats!Contract!busVars
  <2> SUFFICES ASSUME NatsInv, [Nats!Next]_Nats!vars PROVE [Nats!Contract!Next]_Nats!Contract!busVars
    BY Zenon
  <2> USE DEF Nats!InFlight
  <2>1. ASSUME NEW s \in Sub, Nats!Enter(s) PROVE Nats!Contract!Start(s) \/ UNCHANGED Nats!Contract!busVars
    BY <2>1 DEF NatsInv, NatsTypes, NatsCloseInv, Nats!Enter, Nats!Contract!Start, Nats!Contract!busVars
  <2>2. ASSUME NEW s \in Sub, Nats!HandlerEnds(s) PROVE Nats!Contract!End(s)
    BY <2>2, Zenon DEF NatsInv, NatsTypes, Nats!HandlerEnds, Nats!Contract!End
  <2>3. ASSUME NEW c \in Closer, Nats!CloseReturns(c)
        PROVE  Nats!Contract!Return \/ UNCHANGED Nats!Contract!busVars
    BY <2>3, Zenon DEF NatsInv, NatsTypes, Nats!CloseReturns, Nats!Contract!Return, Nats!Contract!busVars
  <2>4. ASSUME NEW s \in Sub, Nats!Deliver(s) PROVE UNCHANGED Nats!Contract!busVars
    BY <2>4, Zenon DEF NatsInv, NatsTypes, Nats!Deliver, Nats!Contract!busVars
  <2>5. ASSUME NEW c \in Closer, Nats!CloseBegins(c) \/ Nats!CloseStops(c) PROVE UNCHANGED Nats!Contract!busVars
    BY <2>5, Zenon DEF NatsInv, NatsTypes, Nats!CloseBegins, Nats!CloseStops, Nats!Contract!busVars
  <2>6. ASSUME UNCHANGED <<nCallback, nClosers>> PROVE UNCHANGED Nats!Contract!busVars
    BY <2>6, Zenon DEF Nats!Contract!busVars
  <2>7. ASSUME NEW m \in Msg, Nats!Publish(m) PROVE UNCHANGED <<nCallback, nClosers>>
    BY <2>7, Zenon DEF Nats!Publish
  <2>8. ASSUME NEW s \in Sub, Nats!Subscribe(s) \/ Nats!CallerCancels(s)
        PROVE  UNCHANGED <<nCallback, nClosers>>
    BY <2>8, Zenon DEF Nats!Subscribe, Nats!CallerCancels
  <2> QED
    BY <2>1, <2>2, <2>3, <2>4, <2>5, <2>6, <2>7, <2>8, Zenon
    DEF Nats!Next, Nats!Callback, Nats!Close, Nats!vars, Nats!Contract!Next
<1> QED
  BY <1>1, <1>2, NatsInvariant, PTL DEF Nats!Spec, Nats!NatsCloseSettles, Nats!Contract!Spec

\* What the connection holds of a subscription is the last part of what was published
\* to it, and a subscription is registered as long as the connection delivers to it.
NatsRegInv ==
  /\ nCancelled \subseteq Sub /\ nLive = nSubs
  /\ \A s \in Sub : Nats!Ends(nPending[s], nFeed[s])
  /\ nClosed => (\E c \in Closer : nClosers[c] = "stop") \/ nLive = {}

\* A message that is published goes to the end of both.
LEMMA EndsAppend ==
  ASSUME NEW f \in Seq(Msg), NEW p \in Seq(Msg), NEW m \in Msg, Nats!Ends(p, f)
  PROVE  Nats!Ends(Append(p, m), Append(f, m))
<1> DEFINE q == Append(p, m)
           g == Append(f, m)
<1>1. Len(f) \in Nat /\ Len(p) \in Nat /\ Len(p) <= Len(f)
  BY DEF Nats!Ends
<1>2. /\ Len(g) = Len(f) + 1
      /\ \A i \in 1 .. Len(f) : g[i] = f[i]
      /\ g[Len(f) + 1] = m
  BY AppendFacts
<1>3. /\ Len(q) = Len(p) + 1
      /\ \A i \in 1 .. Len(p) : q[i] = p[i]
      /\ q[Len(p) + 1] = m
  BY AppendFacts
<1> HIDE DEF q, g
<1>4. ASSUME NEW i \in 1 .. Len(p) + 1
      PROVE  q[i] = g[Len(f) + 1 - (Len(p) + 1) + i]
  <2>1. CASE i \in 1 .. Len(p)
    <3>1. /\ Len(f) + 1 - (Len(p) + 1) + i = Len(f) - Len(p) + i
          /\ Len(f) - Len(p) + i \in 1 .. Len(f)
      BY <1>1, <2>1
    <3>2. p[i] = f[Len(f) - Len(p) + i]
      BY <2>1, Zenon DEF Nats!Ends
    <3> QED
      BY <1>2, <1>3, <2>1, <3>1, <3>2, Zenon
  <2>2. CASE i = Len(p) + 1
    <3>1. Len(f) + 1 - (Len(p) + 1) + i = Len(f) + 1
      BY <1>1, <2>2
    <3> QED
      BY <1>2, <1>3, <2>2, <3>1, Zenon
  <2> QED
    BY <1>1, <2>1, <2>2
<1> SUFFICES Nats!Ends(q, g)
  BY Zenon DEF q, g
<1>5. Len(g) - Len(q) = Len(f) + 1 - (Len(p) + 1) /\ Len(q) <= Len(g)
  BY <1>1, <1>2, <1>3
<1> QED
  BY <1>3, <1>4, <1>5, Zenon DEF Nats!Ends

\* A message that is handed over is the first of those held.
LEMMA EndsTail ==
  ASSUME NEW f \in Seq(Msg), NEW p \in Seq(Msg), p # <<>>, Nats!Ends(p, f)
  PROVE  Nats!Ends(Tail(p), f)
<1>1. Len(f) \in Nat /\ Len(p) \in Nat /\ Len(p) > 0 /\ Len(p) <= Len(f)
  BY DEF Nats!Ends
<1>2. /\ Len(Tail(p)) = Len(p) - 1
      /\ \A i \in 1 .. Len(Tail(p)) : Tail(p)[i] = p[i + 1]
  BY TailFacts, Zenon
<1>3. ASSUME NEW i \in 1 .. Len(Tail(p)) PROVE Tail(p)[i] = f[Len(f) - Len(Tail(p)) + i]
  <2>1. i + 1 \in 1 .. Len(p) /\ Len(f) - Len(Tail(p)) + i = Len(f) - Len(p) + (i + 1)
    BY <1>1, <1>2
  <2> QED
    BY <1>2, <2>1, Zenon DEF Nats!Ends
<1> QED
  BY <1>1, <1>2, <1>3 DEF Nats!Ends

\* Every step keeps the subscriptions and what the connection holds for them.
LEMMA NatsRegNext == NatsInv /\ NatsRegInv /\ [Nats!Next]_Nats!vars => NatsRegInv'
<1> SUFFICES ASSUME NatsInv, NatsRegInv, [Nats!Next]_Nats!vars PROVE NatsRegInv'
  BY Zenon
<1>1. ASSUME NEW m \in Msg, Nats!Publish(m) PROVE NatsRegInv'
  <2>1. /\ nFeed' = [s \in Sub |-> IF s \in nLive THEN Append(nFeed[s], m) ELSE nFeed[s]]
        /\ nPending' = [s \in Sub |-> IF s \in nLive THEN Append(nPending[s], m) ELSE nPending[s]]
        /\ UNCHANGED <<nClosed, nSubs, nLive, nCancelled, nClosers>>
    BY <1>1, Zenon DEF Nats!Publish
  <2>2. ASSUME NEW s \in Sub PROVE Nats!Ends(nPending'[s], nFeed'[s])
    <3>1. nFeed[s] \in Seq(Msg) /\ nPending[s] \in Seq(Msg) /\ Nats!Ends(nPending[s], nFeed[s])
      BY Zenon DEF NatsInv, NatsTypes, NatsRegInv
    <3>2. Nats!Ends(Append(nPending[s], m), Append(nFeed[s], m))
      BY <3>1, EndsAppend, Zenon
    <3> QED
      BY <2>1, <3>1, <3>2, Zenon
  <2> QED
    BY <2>1, <2>2, Zenon DEF NatsRegInv, Nats!Ends
<1>2. ASSUME NEW s \in Sub, Nats!Enter(s) PROVE NatsRegInv'
  <2>1. /\ nPending' = [nPending EXCEPT ![s] = Tail(@)]
        /\ UNCHANGED <<nClosed, nSubs, nLive, nCancelled, nFeed, nClosers>>
    BY <1>2, Zenon DEF Nats!Enter
  <2>2. Nats!Ends(Tail(nPending[s]), nFeed[s])
    BY <1>2, EndsTail, Zenon DEF Nats!Enter, NatsInv, NatsTypes, NatsOrderInv, NatsRegInv
  <2>3. \A t \in Sub : Nats!Ends(nPending'[t], nFeed'[t])
    BY <2>1, <2>2, Zenon DEF NatsInv, NatsTypes, NatsRegInv
  <2> QED
    BY <2>1, <2>3, Zenon DEF NatsRegInv, Nats!Ends
<1>3. ASSUME NEW s \in Sub, Nats!Subscribe(s) PROVE NatsRegInv'
  BY <1>3, Zenon DEF Nats!Subscribe, NatsRegInv, Nats!Ends
<1>4. ASSUME NEW s \in Sub, Nats!CallerCancels(s) \/ Nats!Deliver(s) \/ Nats!HandlerEnds(s)
      PROVE  NatsRegInv'
  <2>1. /\ nCancelled' \subseteq nCancelled \cup {s}
        /\ UNCHANGED <<nClosed, nSubs, nLive, nFeed, nPending, nClosers>>
    BY <1>4, Zenon DEF Nats!CallerCancels, Nats!Deliver, Nats!HandlerEnds
  <2> QED
    BY <2>1, Zenon DEF NatsRegInv, Nats!Ends
<1>5. ASSUME NEW c \in Closer, Nats!CloseBegins(c) PROVE NatsRegInv'
  <2>1. /\ nClosers' = [nClosers EXCEPT ![c] = IF nClosed THEN "again" ELSE "stop"]
        /\ nClosers[c] = "idle" /\ UNCHANGED <<nSubs, nLive, nCancelled, nFeed, nPending>>
    BY <1>5, Zenon DEF Nats!CloseBegins
  <2>2. \A b \in Closer : nClosers[b] = "stop" => nClosers'[b] = "stop"
    BY <2>1, Zenon DEF NatsInv, NatsTypes
  <2>3. (\E b \in Closer : nClosers'[b] = "stop") \/ nLive = {}
    <3>1. CASE nClosed
      BY <2>2, <3>1, Zenon DEF NatsRegInv
    <3>2. CASE ~nClosed
      BY <2>1, <3>2, Zenon DEF NatsInv, NatsTypes
    <3> QED
      BY <3>1, <3>2, Zenon
  <2> QED
    BY <2>1, <2>3, Zenon DEF NatsRegInv, Nats!Ends
<1>6. ASSUME NEW c \in Closer, Nats!CloseStops(c) PROVE NatsRegInv'
  BY <1>6, Zenon DEF Nats!CloseStops, NatsInv, NatsTypes, NatsRegInv, Nats!Ends
<1>7. ASSUME NEW c \in Closer, Nats!CloseReturns(c) PROVE NatsRegInv'
  BY <1>7 DEF Nats!CloseReturns, NatsInv, NatsTypes, NatsRegInv, Nats!Ends
<1>8. CASE UNCHANGED Nats!vars
  BY <1>8, Zenon DEF Nats!vars, NatsRegInv, Nats!Ends
<1> QED
  BY <1>1, <1>2, <1>3, <1>4, <1>5, <1>6, <1>7, <1>8, Zenon DEF Nats!Next, Nats!Callback, Nats!Close

\* The types of NatsBus, with what ties its sequences and sets together.
THEOREM NatsTypesCorrect == Nats!Spec => []Nats!NatsTypeOK
<1>1. Nats!Init => NatsRegInv
  <2> SUFFICES ASSUME Nats!Init PROVE NatsRegInv
    BY Zenon
  <2>1. Nats!Ends(<<>>, <<>>)
    BY DEF Nats!Ends
  <2> QED
    BY <2>1, Zenon DEF Nats!Init, NatsRegInv
<1>2. NatsInv /\ NatsRegInv => Nats!NatsTypeOK
  BY Zenon DEF NatsInv, NatsTypes, NatsRegInv, Nats!NatsTypeOK
<1> QED
  BY <1>1, <1>2, NatsRegNext, NatsInvariant, PTL DEF Nats!Spec

-----------------------------------------------------------------------------
(***************************************************************************)
(* WatermillBus.                                                           *)
(***************************************************************************)
Looping == {"loop", "handle", "submit", "leave", "drain"}
Places == {"none", "sent", "out", "held", "pool", "run", "acked", "lost"}

WTypes ==
  /\ wPub \in {"open", "closing", "closed"} /\ wOnce \in {"new", "running", "done"}
  /\ wStep \in [Sub -> {"new", "refused", "attached", "registered", "end"} \cup Looping]
  /\ wSubs \subseteq W!Attached /\ wStopped \subseteq W!Attached
  /\ wOutClosed \subseteq W!Attached /\ wTaken \subseteq W!Attached
  /\ wPlace \in [Sub -> [Msg -> Places]] /\ wRuns \in [Sub -> [Msg -> Nat]]
  /\ wClosers \in [Closer -> {"idle", "cancel", "pub", "drop", "wait", "nil", "late"}]

\* Where a message is says whether its handler ran, and where the loop of its
\* subscription stands.
WPlaceAt(s, m) ==
  /\ wRuns[s][m] = IF wPlace[s][m] \in {"run", "acked"} THEN 1 ELSE 0
  /\ m \notin wPublished => wPlace[s][m] = "none"
  /\ wPlace[s][m] = "held" => wStep[s] = "submit"
  /\ wPlace[s][m] = "pool" => s \in Pooled /\ wStep[s] \in Looping
  /\ wPlace[s][m] = "run" => wStep[s] \in Looping
  /\ wPlace[s][m] = "run" /\ s \notin Pooled => wStep[s] = "handle"

WPlaceInv == \A s \in Sub, m \in Msg : WPlaceAt(s, m)

\* The loop has one message in hand at most, and a pool no more than it has room for.
WHandAt(s) ==
  /\ wStep[s] = "handle" => s \notin Pooled
  /\ wStep[s] = "submit" => s \in Pooled /\ \E m \in Msg : wPlace[s][m] = "held"
  /\ \A m, n \in Msg : wPlace[s][m] = "held" /\ wPlace[s][n] = "held" => m = n
  /\ s \notin Pooled => \A m, n \in Msg : wPlace[s][m] = "run" /\ wPlace[s][n] = "run" => m = n

WHandInv == \A s \in Sub : WHandAt(s)

\* One Close call at a time takes the bus down, and the others wait for it; after one
\* returned nil only subscriptions that it overtook are left.
WCloseInv ==
  /\ \A c \in Closer : wClosers[c] \in {"cancel", "pub", "drop"} => wOnce = "running"
  /\ \A c, b \in Closer : wClosers[c] \in {"cancel", "pub", "drop"} /\ wClosers[b] \in {"cancel", "pub", "drop"}
                          => c = b
  /\ \A c \in Closer : wClosers[c] \in {"wait", "nil", "late"} => wOnce = "done"
  /\ wOnce = "done" => wPub = "closed"
  /\ (\E c \in Closer : wClosers[c] = "nil") =>
       \A s \in Sub : wStep[s] \in {"new", "refused", "end"} \/ s \in wOvertaken

WInv == WTypes /\ WPlaceInv /\ WHandInv /\ WCloseInv

-----------------------------------------------------------------------------
(***************************************************************************)
(* What a step does to the loops and the messages.                         *)
(***************************************************************************)
Went(s, y) == \A t \in Sub : wStep'[t] = IF t = s THEN y ELSE wStep[t]
Moved(s, m, y) ==
  \A t \in Sub, n \in Msg : wPlace'[t][n] = IF t = s /\ n = m THEN y ELSE wPlace[t][n]
Ran(s, m) ==
  \A t \in Sub, n \in Msg : wRuns'[t][n] = IF t = s /\ n = m THEN wRuns[t][n] + 1 ELSE wRuns[t][n]

Still == UNCHANGED <<wStep, wPlace, wRuns, wPublished>>

Publishes(m) ==
  /\ m \notin wPublished /\ wPublished' = wPublished \cup {m} /\ UNCHANGED <<wStep, wRuns>>
  /\ \A t \in Sub, n \in Msg : wPlace'[t][n] = wPlace[t][n] \/ (n = m /\ wPlace'[t][n] = "sent")

Drops(s) ==
  /\ UNCHANGED <<wStep, wRuns, wPublished>>
  /\ \A t \in Sub, n \in Msg :
       wPlace'[t][n] = IF t = s /\ wPlace[t][n] = "sent" THEN "lost" ELSE wPlace[t][n]

\* A loop goes on without touching a message.
Advances(s) ==
  /\ UNCHANGED <<wPlace, wRuns, wPublished>>
  /\ \/ wStep[s] = "new" /\ (Went(s, "refused") \/ (wPub = "open" /\ Went(s, "attached")))
     \/ wStep[s] = "attached" /\ Went(s, "registered")
     \/ wStep[s] = "registered" /\ Went(s, "loop")
     \/ wStep[s] = "loop" /\ Went(s, "leave")
     \/ wStep[s] = "leave" /\ Went(s, "drain")
     \/ /\ wStep[s] = "drain" /\ Went(s, "end")
        /\ \A m \in Msg : wPlace[s][m] \notin {"pool", "run"}

Passes(s, m, from, to, next) ==
  /\ wPlace[s][m] = from /\ Moved(s, m, to) /\ Went(s, next) /\ UNCHANGED wPublished

Free(s, where, room) == W!Cardinality(W!In(s, where)) < room

\* A message that starts no handler goes on.
Hands(s, m) ==
  /\ UNCHANGED wRuns
  /\ \/ Passes(s, m, "sent", "out", wStep[s])
     \/ wStep[s] = "loop" /\ s \in Pooled /\ Passes(s, m, "out", "held", "submit")
     \/ wStep[s] = "handle" /\ Passes(s, m, "run", "acked", "loop")
     \/ s \in Pooled /\ Passes(s, m, "run", "acked", wStep[s])
     \/ wStep[s] = "submit" /\ Free(s, "pool", QueueCapacity) /\ Passes(s, m, "held", "pool", "loop")
     \/ wStep[s] = "submit" /\ \E to \in {"lost", "sent"} : Passes(s, m, "held", to, "loop")

\* A handler starts.
Starts(s, m) ==
  /\ Ran(s, m)
  /\ \/ wStep[s] = "loop" /\ s \notin Pooled /\ Passes(s, m, "out", "run", "handle")
     \/ wStep[s] = "submit" /\ Free(s, "run", Workers) /\ Passes(s, m, "held", "run", "loop")
     \/ Free(s, "run", Workers) /\ Passes(s, m, "pool", "run", wStep[s])

WEffect ==
  \/ Still
  \/ \E m \in Msg : Publishes(m)
  \/ \E s \in Sub : Drops(s) \/ Advances(s)
  \/ \E s \in Sub, m \in Msg : Hands(s, m) \/ Starts(s, m)

\* A loop that goes to a step is there, and no other loop goes anywhere.
LEMMA GotoWent == ASSUME WTypes, NEW s \in Sub, NEW y, W!Goto(s, y) PROVE Went(s, y)
  BY Zenon DEF WTypes, W!Goto, Went

\* A step that leaves the loops leaves each where it was.
LEMMA SameWent == ASSUME WTypes, NEW s \in Sub, UNCHANGED wStep PROVE Went(s, wStep[s])
  BY Zenon DEF Went

\* One message of one subscription moves.
LEMMA MoveMoved ==
  ASSUME WTypes, NEW s \in Sub, NEW m \in Msg, NEW y, W!Move(s, m, y)
  PROVE  Moved(s, m, y)
  BY Zenon DEF WTypes, W!Move, Moved

\* One handler starts once more.
LEMMA RunsRan == ASSUME WTypes, NEW s \in Sub, NEW m \in Msg, W!Runs(s, m) PROVE Ran(s, m)
  BY Zenon DEF WTypes, W!Runs, Ran

\* Consume: the loop leaves or takes a message from its channel.
LEMMA ConsumeEffect ==
  ASSUME WTypes, NEW s \in Sub, W!Consume(s)
  PROVE  Advances(s) \/ \E m \in Msg : Hands(s, m) \/ Starts(s, m)
<1> USE DEF W!At, W!Frame, W!msgVars
<1>1. CASE W!Goto(s, "leave") /\ UNCHANGED W!msgVars
  BY <1>1, GotoWent, Zenon DEF W!Consume, Advances
<1>2. ASSUME NEW m \in W!In(s, "out"), s \in Pooled, W!Move(s, m, "held"), W!Goto(s, "submit"),
             UNCHANGED wRuns
      PROVE  \E n \in Msg : Hands(s, n)
  BY <1>2, GotoWent, MoveMoved, Zenon DEF W!Consume, Hands, Passes, W!In
<1>3. ASSUME NEW m \in W!In(s, "out"), s \notin Pooled, W!Move(s, m, "run"), W!Runs(s, m),
             W!Goto(s, "handle")
      PROVE  \E n \in Msg : Starts(s, n)
  BY <1>3, GotoWent, MoveMoved, RunsRan, Zenon DEF W!Consume, Starts, Passes, W!In
<1> QED
  BY <1>1, <1>2, <1>3, Zenon DEF W!Consume

\* SubmitMessage: the message goes to the pool, to a worker, or back.
LEMMA SubmitEffect ==
  ASSUME WTypes, NEW s \in Sub, W!SubmitMessage(s)
  PROVE  \E m \in Msg : Hands(s, m) \/ Starts(s, m)
<1> USE DEF W!At, W!Frame
<1>1. Went(s, "loop") /\ wStep[s] = "submit" /\ UNCHANGED wPublished
  BY GotoWent, Zenon DEF W!SubmitMessage
<1>2. PICK m \in W!In(s, "held") :
        \/ Free(s, "pool", QueueCapacity) /\ W!Move(s, m, "pool") /\ UNCHANGED wRuns
        \/ Free(s, "run", Workers) /\ W!Move(s, m, "run") /\ W!Runs(s, m)
        \/ W!Nack(s, m) /\ UNCHANGED wRuns
  BY Zenon DEF W!SubmitMessage, Free
<1>3. m \in Msg /\ wPlace[s][m] = "held"
  BY Zenon DEF W!In
<1>4. CASE Free(s, "pool", QueueCapacity) /\ W!Move(s, m, "pool") /\ UNCHANGED wRuns
  BY <1>1, <1>3, <1>4, MoveMoved, Zenon DEF Hands, Passes
<1>5. CASE Free(s, "run", Workers) /\ W!Move(s, m, "run") /\ W!Runs(s, m)
  BY <1>1, <1>3, <1>5, MoveMoved, RunsRan, Zenon DEF Starts, Passes
<1>6. CASE W!Nack(s, m) /\ UNCHANGED wRuns
  <2>1. W!Move(s, m, "lost") \/ W!Move(s, m, "sent")
    BY <1>6, Zenon DEF W!Nack
  <2>2. \E to \in {"lost", "sent"} : Passes(s, m, "held", to, "loop")
    BY <1>1, <1>3, <2>1, MoveMoved, Zenon DEF Passes
  <2> QED
    BY <1>1, <1>3, <1>6, <2>2, Zenon DEF Hands
<1> QED
  BY <1>2, <1>4, <1>5, <1>6, Zenon

\* Every step is one of these.
LEMMA WEffects == WTypes /\ [W!Next]_W!vars => WEffect
<1> SUFFICES ASSUME WTypes, [W!Next]_W!vars PROVE WEffect
  BY Zenon
<1> USE DEF W!At, W!Frame, W!loopVars, W!msgVars, W!closeVars
<1>1. ASSUME NEW m \in Msg, W!Publish(m) PROVE Publishes(m)
  BY <1>1, Zenon DEF W!Publish, Publishes, WTypes
<1>2. ASSUME NEW s \in Sub, NEW m \in Msg, W!Send(s, m) PROVE Hands(s, m)
  BY <1>2, SameWent, MoveMoved, Zenon DEF W!Send, Hands, Passes
<1>3. ASSUME NEW s \in Sub, W!CloseChannel(s) PROVE Drops(s)
  BY <1>3, Zenon DEF W!CloseChannel, Drops, WTypes
<1>4. ASSUME NEW s \in Sub, W!Subscribe(s) PROVE Advances(s)
  BY <1>4, GotoWent, Zenon DEF W!Subscribe, Advances
<1>5. ASSUME NEW s \in Sub, W!Register(s) PROVE Advances(s)
  BY <1>5, GotoWent, Zenon DEF W!Register, Advances
<1>6. ASSUME NEW s \in Sub, W!StartLoop(s) PROVE Advances(s)
  BY <1>6, GotoWent, Zenon DEF W!StartLoop, Advances
<1>7. ASSUME NEW s \in Sub, W!HandleMessage(s) PROVE \E m \in Msg : Hands(s, m)
  <2>1. PICK m \in W!In(s, "run") : W!Move(s, m, "acked")
    BY <1>7, Zenon DEF W!HandleMessage
  <2> QED
    BY <1>7, <2>1, GotoWent, MoveMoved, Zenon DEF W!HandleMessage, Hands, Passes, W!In
<1>8. ASSUME NEW s \in Sub, NEW m \in Msg, W!WorkerStarts(s, m) PROVE Starts(s, m)
  BY <1>8, SameWent, MoveMoved, RunsRan, Zenon DEF W!WorkerStarts, Starts, Passes, Free
<1>9. ASSUME NEW s \in Sub, NEW m \in Msg, W!WorkerEnds(s, m) PROVE Hands(s, m)
  BY <1>9, SameWent, MoveMoved, Zenon DEF W!WorkerEnds, Hands, Passes
<1>10. ASSUME NEW s \in Sub, W!Leave(s) PROVE Advances(s)
  BY <1>10, GotoWent, Zenon DEF W!Leave, Advances
<1>11. ASSUME NEW s \in Sub, W!Drain(s) PROVE Advances(s)
  BY <1>11, GotoWent, Zenon DEF W!Drain, Advances, W!In
<1>12. ASSUME NEW s \in Sub, W!CallerCancels(s) PROVE Still
  BY <1>12, Zenon DEF W!CallerCancels, Still
<1>13. ASSUME NEW c \in Closer, W!CloseBegins(c) \/ W!Close(c) PROVE Still
  BY <1>13, Zenon DEF W!CloseBegins, W!Close, W!CloseCancels, W!ClosePub, W!CloseReturns, Still
<1>14. CASE UNCHANGED W!vars
  BY <1>14, Zenon DEF W!vars, Still, WEffect
<1>15. CASE W!Next
  <2>1. CASE \E m \in Msg : W!Publish(m)
    BY <1>1, <2>1, Zenon DEF WEffect
  <2>2. ASSUME NEW s \in Sub, W!Sending(s) \/ W!Work(s) PROVE WEffect
    BY <1>2, <1>8, <1>9, <2>2, Zenon DEF W!Sending, W!Work, WEffect
  <2>3. ASSUME NEW s \in Sub, W!ConsumeLoop(s) PROVE WEffect
    BY <1>5, <1>6, <1>7, <1>10, <1>11, <2>3, ConsumeEffect, SubmitEffect, Zenon DEF W!ConsumeLoop, WEffect
  <2>4. ASSUME NEW s \in Sub, W!Subscribe(s) \/ W!CallerCancels(s) \/ W!CloseChannel(s) PROVE WEffect
    BY <1>3, <1>4, <1>12, <2>4, Zenon DEF WEffect
  <2>5. CASE \E c \in Closer : W!CloseBegins(c) \/ W!Close(c)
    BY <1>13, <2>5, Zenon DEF WEffect
  <2> QED
    BY <1>15, <2>1, <2>2, <2>3, <2>4, <2>5, Zenon DEF W!Next
<1> QED
  BY <1>14, <1>15, Zenon DEF WEffect

\* A message that goes on is of one subscription: no other subscription sees it.
LEMMA Apart ==
  ASSUME NEW s \in Sub, NEW m \in Msg, Hands(s, m) \/ Starts(s, m), NEW t \in Sub, t # s
  PROVE  /\ wStep'[t] = wStep[t] /\ wPublished' = wPublished
         /\ \A n \in Msg : wPlace'[t][n] = wPlace[t][n] /\ wRuns'[t][n] = wRuns[t][n]
<1>1. PICK y, z : Moved(s, m, y) /\ Went(s, z) /\ wPublished' = wPublished
  BY Zenon DEF Hands, Starts, Passes
<1>2. wStep'[t] = wStep[t] /\ \A n \in Msg : wPlace'[t][n] = wPlace[t][n]
  BY <1>1, Zenon DEF Moved, Went
<1>3. \A n \in Msg : wRuns'[t][n] = wRuns[t][n]
  BY Zenon DEF Hands, Starts, Ran
<1> QED
  BY <1>1, <1>2, <1>3, Zenon

\* Every step keeps the places and the loops true to one another.
LEMMA WPlaceNext ==
  ASSUME WTypes, WPlaceInv, WHandInv, WEffect
  PROVE  WPlaceInv'
<1> SUFFICES ASSUME NEW t \in Sub, NEW n \in Msg PROVE WPlaceAt(t, n)'
  BY Zenon DEF WPlaceInv
<1>1. WPlaceAt(t, n)
  BY Zenon DEF WPlaceInv
<1>2. /\ wStep[t] = "handle" => t \notin Pooled
      /\ wStep[t] = "submit" => t \in Pooled
      /\ \A m \in Msg : wPlace[t][m] = "held" /\ wPlace[t][n] = "held" => m = n
      /\ t \notin Pooled => \A m \in Msg : wPlace[t][m] = "run" /\ wPlace[t][n] = "run" => m = n
  BY Zenon DEF WHandInv, WHandAt
<1> USE DEF WPlaceAt
<1>3. CASE Still
  BY <1>1, <1>3, Zenon DEF Still, WPlaceAt
<1>4. ASSUME NEW m \in Msg, Publishes(m) PROVE WPlaceAt(t, n)'
  BY <1>1, <1>4, Zenon DEF Publishes, WPlaceAt
<1>5. ASSUME NEW s \in Sub, Drops(s) PROVE WPlaceAt(t, n)'
  BY <1>1, <1>5, Zenon DEF Drops, WPlaceAt
<1>6. ASSUME NEW s \in Sub, Advances(s) PROVE WPlaceAt(t, n)'
  BY <1>1, <1>6, Zenon DEF Advances, Went, WPlaceAt, Looping
<1>7. ASSUME NEW s \in Sub, NEW m \in Msg, Hands(s, m) PROVE WPlaceAt(t, n)'
  <2>1. CASE s # t
    BY <1>1, <1>7, <2>1, Apart, Zenon DEF WPlaceAt
  <2>2. CASE s = t
    <3>1. UNCHANGED <<wRuns, wPublished>>
      BY <1>7, Zenon DEF Hands, Passes
    <3>2. CASE n = m
      <4>1. \/ wPlace[t][m] = "sent" /\ wPlace'[t][m] = "out" /\ wStep'[t] = wStep[t]
            \/ wPlace[t][m] = "out" /\ wPlace'[t][m] = "held" /\ wStep'[t] = "submit"
            \/ wPlace[t][m] = "run" /\ wPlace'[t][m] = "acked"
            \/ /\ wPlace[t][m] = "held" /\ wPlace'[t][m] \in {"pool", "lost", "sent"}
               /\ wStep[t] = "submit" /\ wStep'[t] = "loop"
        BY <1>7, <2>2, Zenon DEF Hands, Passes, Moved, Went
      <4> QED
        BY <1>1, <1>2, <3>1, <3>2, <4>1, Zenon DEF WPlaceAt, Looping
    <3>3. CASE n # m
      <4>1. wPlace'[t][n] = wPlace[t][n]
        BY <1>7, <2>2, <3>3, Zenon DEF Hands, Passes, Moved
      <4>2. \/ wStep'[t] = wStep[t]
            \/ wStep[t] = "loop" /\ t \in Pooled /\ wStep'[t] = "submit"
            \/ wStep[t] = "handle" /\ wPlace[t][m] = "run" /\ wStep'[t] = "loop"
            \/ wStep[t] = "submit" /\ wPlace[t][m] = "held" /\ wStep'[t] = "loop"
        BY <1>7, <2>2, Zenon DEF Hands, Passes, Went
      <4> QED
        BY <1>1, <1>2, <3>1, <3>3, <4>1, <4>2, Zenon DEF WPlaceAt, Looping
    <3> QED
      BY <3>2, <3>3, Zenon
  <2> QED
    BY <2>1, <2>2, Zenon
<1>8. ASSUME NEW s \in Sub, NEW m \in Msg, Starts(s, m) PROVE WPlaceAt(t, n)'
  <2>1. CASE s # t
    BY <1>1, <1>8, <2>1, Apart, Zenon DEF WPlaceAt
  <2>2. CASE s = t
    <3>1. /\ wPublished' = wPublished
          /\ wRuns'[t][n] = IF n = m THEN wRuns[t][n] + 1 ELSE wRuns[t][n]
          /\ wPlace'[t][n] = IF n = m THEN "run" ELSE wPlace[t][n]
      BY <1>8, <2>2, Zenon DEF Starts, Ran, Passes, Moved
    <3>2. \/ wStep[t] = "loop" /\ t \notin Pooled /\ wPlace[t][m] = "out" /\ wStep'[t] = "handle"
          \/ wStep[t] = "submit" /\ wPlace[t][m] = "held" /\ wStep'[t] = "loop"
          \/ wPlace[t][m] = "pool" /\ wStep'[t] = wStep[t]
      BY <1>8, <2>2, Zenon DEF Starts, Passes, Went
    <3>3. CASE n = m
      BY <1>1, <1>2, <3>1, <3>2, <3>3 DEF WPlaceAt, Looping
    <3>4. CASE n # m
      BY <1>1, <1>2, <3>1, <3>2, <3>4, Zenon DEF WPlaceAt, Looping
    <3> QED
      BY <3>3, <3>4, Zenon
  <2> QED
    BY <2>1, <2>2, Zenon
<1> QED
  BY <1>3, <1>4, <1>5, <1>6, <1>7, <1>8, Zenon DEF WEffect

\* Every step leaves a loop with one message in hand at most.
LEMMA WHandNext ==
  ASSUME WTypes, WPlaceInv, WHandInv, WEffect
  PROVE  WHandInv'
<1> SUFFICES ASSUME NEW t \in Sub PROVE WHandAt(t)'
  BY Zenon DEF WHandInv
<1>1. WHandAt(t)
  BY Zenon DEF WHandInv
<1>2. \A n \in Msg : /\ wPlace[t][n] = "held" => wStep[t] = "submit"
                     /\ wPlace[t][n] = "run" /\ t \notin Pooled => wStep[t] = "handle"
                     /\ n \notin wPublished => wPlace[t][n] = "none"
  BY Zenon DEF WPlaceInv, WPlaceAt
<1>0. ASSUME wStep'[t] = wStep[t], \A n \in Msg : wPlace'[t][n] = wPlace[t][n] PROVE WHandAt(t)'
  BY <1>0, <1>1, Zenon DEF WHandAt
<1> USE DEF WHandAt
<1>3. CASE Still
  BY <1>1, <1>3, Zenon DEF Still
<1>4. ASSUME NEW m \in Msg, Publishes(m) PROVE WHandAt(t)'
  BY <1>1, <1>2, <1>4 DEF Publishes
<1>5. ASSUME NEW s \in Sub, Drops(s) PROVE WHandAt(t)'
  BY <1>1, <1>5, Zenon DEF Drops
<1>6. ASSUME NEW s \in Sub, Advances(s) PROVE WHandAt(t)'
  BY <1>1, <1>6, Zenon DEF Advances, Went
<1>7. ASSUME NEW s \in Sub, NEW m \in Msg, Hands(s, m) PROVE WHandAt(t)'
  <2>1. CASE s # t
    <3>1. wStep'[t] = wStep[t] /\ \A n \in Msg : wPlace'[t][n] = wPlace[t][n]
      BY <1>7, <2>1, Apart, Zenon
    <3> HIDE DEF WHandAt
    <3> QED
      BY <1>0, <3>1, Zenon
  <2>2. CASE s = t
    <3>1. CASE wStep[t] = "loop" /\ t \in Pooled /\ Passes(t, m, "out", "held", "submit")
      BY <1>1, <1>2, <3>1 DEF Passes, Moved, Went
    <3>2. CASE Passes(t, m, "sent", "out", wStep[t])
      BY <1>1, <3>2 DEF Passes, Moved, Went
    <3>3. CASE wStep[t] = "handle" /\ Passes(t, m, "run", "acked", "loop")
      BY <1>1, <3>3 DEF Passes, Moved, Went
    <3>4. CASE t \in Pooled /\ Passes(t, m, "run", "acked", wStep[t])
      BY <1>1, <3>4 DEF Passes, Moved, Went
    <3>5. CASE wStep[t] = "submit" /\ \E to \in {"pool", "lost", "sent"} : Passes(t, m, "held", to, "loop")
      BY <1>1, <3>5 DEF Passes, Moved, Went
    <3> QED
      BY <1>7, <2>2, <3>1, <3>2, <3>3, <3>4, <3>5, Zenon DEF Hands
  <2> QED
    BY <2>1, <2>2, Zenon
<1>8. ASSUME NEW s \in Sub, NEW m \in Msg, Starts(s, m) PROVE WHandAt(t)'
  <2>1. CASE s # t
    <3>1. wStep'[t] = wStep[t] /\ \A n \in Msg : wPlace'[t][n] = wPlace[t][n]
      BY <1>8, <2>1, Apart, Zenon
    <3> HIDE DEF WHandAt
    <3> QED
      BY <1>0, <3>1, Zenon
  <2>2. CASE s = t
    <3>1. CASE wStep[t] = "loop" /\ t \notin Pooled /\ Passes(t, m, "out", "run", "handle")
      BY <1>1, <1>2, <3>1, Zenon DEF Passes, Moved, Went
    <3>2. CASE wStep[t] = "submit" /\ Passes(t, m, "held", "run", "loop")
      BY <1>1, <3>2 DEF Passes, Moved, Went
    <3>3. CASE Passes(t, m, "pool", "run", wStep[t])
      <4>1. t \in Pooled
        BY <3>3, Zenon DEF WPlaceInv, WPlaceAt, Passes
      <4> QED
        BY <1>1, <3>3, <4>1 DEF Passes, Moved, Went
    <3> QED
      BY <1>8, <2>2, <3>1, <3>2, <3>3, Zenon DEF Starts
  <2> QED
    BY <2>1, <2>2, Zenon
<1> QED
  BY <1>3, <1>4, <1>5, <1>6, <1>7, <1>8, Zenon DEF WEffect

\* A subscription that was attached stays it.
LEMMA AttachedStays == ASSUME WTypes, WEffect PROVE W!Attached \subseteq W!Attached'
<1> SUFFICES ASSUME NEW t \in Sub, wStep[t] \notin {"new", "refused"}
             PROVE  wStep'[t] \notin {"new", "refused"}
  BY Zenon DEF W!Attached
<1>1. CASE UNCHANGED wStep
  BY <1>1, Zenon
<1>2. ASSUME NEW s \in Sub, Advances(s) PROVE wStep'[t] \notin {"new", "refused"}
  BY <1>2, Zenon DEF Advances, Went
<1>3. ASSUME NEW s \in Sub, NEW m \in Msg, Hands(s, m) \/ Starts(s, m)
      PROVE  wStep'[t] \notin {"new", "refused"}
  BY <1>3, Zenon DEF Hands, Starts, Passes, Went
<1> QED
  BY <1>1, <1>2, <1>3, Zenon DEF WEffect, Still, Publishes, Drops

\* Only Close takes the bus down.
CloseStill == UNCHANGED <<wPub, wOnce, wTaken, wClosers, wOvertaken>>

\* A step is one of a Close call, which leaves the loops and messages, or keeps the
\* state of Close.
LEMMA OnlyClose ==
  [W!Next]_W!vars => CloseStill \/ \E c \in Closer : W!CloseBegins(c) \/ W!Close(c)
<1> SUFFICES ASSUME [W!Next]_W!vars PROVE CloseStill \/ \E c \in Closer : W!CloseBegins(c) \/ W!Close(c)
  BY Zenon
<1> USE DEF W!Frame, W!closeVars, CloseStill
<1>1. ASSUME NEW m \in Msg, W!Publish(m) PROVE CloseStill
  BY <1>1, Zenon DEF W!Publish
<1>2. ASSUME NEW s \in Sub, W!Sending(s) PROVE CloseStill
  BY <1>2, Zenon DEF W!Sending, W!Send
<1>3. ASSUME NEW s \in Sub, W!Work(s) PROVE CloseStill
  BY <1>3, Zenon DEF W!Work, W!WorkerStarts, W!WorkerEnds
<1>4. ASSUME NEW s \in Sub, W!ConsumeLoop(s) PROVE CloseStill
  BY <1>4, Zenon
  DEF W!ConsumeLoop, W!Register, W!StartLoop, W!Consume, W!HandleMessage, W!SubmitMessage, W!Leave, W!Drain
<1>5. ASSUME NEW s \in Sub, W!Subscribe(s) \/ W!CallerCancels(s) \/ W!CloseChannel(s) PROVE CloseStill
  BY <1>5, Zenon DEF W!Subscribe, W!CallerCancels, W!CloseChannel
<1>6. CASE UNCHANGED W!vars
  BY <1>6, Zenon DEF W!vars
<1> QED
  BY <1>1, <1>2, <1>3, <1>4, <1>5, <1>6, Zenon DEF W!Next

\* Every step keeps the types of the sets of subscriptions.
LEMMA WSetsNext ==
  ASSUME WTypes, [W!Next]_W!vars
  PROVE  /\ wSubs' \subseteq W!Attached' /\ wStopped' \subseteq W!Attached'
         /\ wOutClosed' \subseteq W!Attached' /\ wTaken' \subseteq W!Attached'
<1> USE DEF W!Frame, W!closeVars, W!loopVars
<1>1. W!Attached \subseteq W!Attached'
  BY WEffects, AttachedStays, Zenon
<1>2. /\ wSubs \subseteq W!Attached /\ wStopped \subseteq W!Attached
      /\ wOutClosed \subseteq W!Attached /\ wTaken \subseteq W!Attached
  BY Zenon DEF WTypes
<1>3. CASE UNCHANGED <<wSubs, wStopped, wOutClosed, wTaken>>
  BY <1>1, <1>2, <1>3, Zenon
<1>4. ASSUME NEW s \in Sub, W!CloseChannel(s)
      PROVE  wOutClosed' \subseteq W!Attached /\ UNCHANGED <<wSubs, wStopped, wTaken>>
  BY <1>2, <1>4, Zenon DEF W!CloseChannel
<1>5. ASSUME NEW s \in Sub, W!Register(s)
      PROVE  wSubs' \subseteq W!Attached /\ UNCHANGED <<wOutClosed, wStopped, wTaken>>
  BY <1>2, <1>5, Zenon DEF W!Register, W!At, W!Attached
<1>6. ASSUME NEW s \in Sub, W!Leave(s)
      PROVE  wSubs' \subseteq W!Attached /\ wStopped' \subseteq W!Attached /\ UNCHANGED <<wOutClosed, wTaken>>
  BY <1>2, <1>6, Zenon DEF W!Leave, W!At, W!Attached
<1>7. ASSUME NEW c \in Closer, W!CloseBegins(c) \/ W!Close(c)
      PROVE  /\ wSubs' \subseteq W!Attached /\ wStopped' \subseteq W!Attached
             /\ wTaken' \subseteq W!Attached /\ UNCHANGED wOutClosed
  BY <1>2, <1>7, Zenon DEF W!CloseBegins, W!Close, W!CloseCancels, W!ClosePub, W!CloseReturns
<1>8. ASSUME NEW m \in Msg, W!Publish(m) PROVE UNCHANGED <<wSubs, wStopped, wOutClosed, wTaken>>
  BY <1>8, Zenon DEF W!Publish
<1>9. ASSUME NEW s \in Sub, W!Sending(s) \/ W!Work(s) PROVE UNCHANGED <<wSubs, wStopped, wOutClosed, wTaken>>
  BY <1>9, Zenon DEF W!Sending, W!Send, W!Work, W!WorkerStarts, W!WorkerEnds
<1>10. ASSUME NEW s \in Sub, W!StartLoop(s) \/ W!Consume(s) \/ W!HandleMessage(s) \/ W!SubmitMessage(s)
                             \/ W!Drain(s) \/ W!Subscribe(s) \/ W!CallerCancels(s)
      PROVE  UNCHANGED <<wSubs, wStopped, wOutClosed, wTaken>>
  BY <1>10, Zenon
  DEF W!StartLoop, W!Consume, W!HandleMessage, W!SubmitMessage, W!Drain, W!Subscribe, W!CallerCancels
<1>11. CASE UNCHANGED W!vars
  BY <1>3, <1>11, Zenon DEF W!vars
<1>12. CASE W!Next
  <2>1. ASSUME NEW s \in Sub, W!ConsumeLoop(s)
        PROVE  \/ UNCHANGED <<wSubs, wStopped, wOutClosed, wTaken>>
               \/ /\ wSubs' \subseteq W!Attached /\ wStopped' \subseteq W!Attached
                  /\ UNCHANGED <<wOutClosed, wTaken>>
    BY <1>2, <1>5, <1>6, <1>10, <2>1, Zenon DEF W!ConsumeLoop
  <2> QED
    BY <1>1, <1>2, <1>3, <1>4, <1>7, <1>8, <1>9, <1>10, <1>12, <2>1, Zenon DEF W!Next
<1> QED
  BY <1>11, <1>12, Zenon

Steps == {"new", "refused", "attached", "registered", "end"} \cup Looping

\* A message that moves has a place.
LEMMA MoveTyped ==
  ASSUME WTypes, NEW s \in Sub, NEW m \in Msg, NEW y \in Places, W!Move(s, m, y)
  PROVE  wPlace' \in [Sub -> [Msg -> Places]]
  BY Zenon DEF WTypes, W!Move

\* A handler that runs is counted.
LEMMA RunsTyped ==
  ASSUME WTypes, NEW s \in Sub, NEW m \in Msg, W!Runs(s, m)
  PROVE  wRuns' \in [Sub -> [Msg -> Nat]]
  BY DEF WTypes, W!Runs

\* A loop that goes on is at a step.
LEMMA GotoTyped ==
  ASSUME WTypes, NEW s \in Sub, NEW y \in Steps, W!Goto(s, y)
  PROVE  wStep' \in [Sub -> Steps]
  BY Zenon DEF WTypes, W!Goto, Steps

\* Every step keeps the types of the loops and the messages.
LEMMA WMapsNext ==
  ASSUME WTypes, [W!Next]_W!vars
  PROVE  /\ wStep' \in [Sub -> Steps] /\ wPlace' \in [Sub -> [Msg -> Places]]
         /\ wRuns' \in [Sub -> [Msg -> Nat]]
<1> DEFINE Goal == /\ wStep' \in [Sub -> Steps] /\ wPlace' \in [Sub -> [Msg -> Places]]
                   /\ wRuns' \in [Sub -> [Msg -> Nat]]
<1> SUFFICES Goal
  BY Zenon
<1> USE DEF W!Frame, W!loopVars, W!msgVars
<1>0. /\ wStep \in [Sub -> Steps] /\ wPlace \in [Sub -> [Msg -> Places]]
      /\ wRuns \in [Sub -> [Msg -> Nat]]
      /\ Steps = {"new", "refused", "attached", "registered", "end", "loop", "handle", "submit",
                  "leave", "drain"}
  BY Zenon DEF WTypes, Steps, Looping
<1>1. ASSUME NEW m \in Msg, W!Publish(m) PROVE Goal
  BY <1>0, <1>1, Zenon DEF W!Publish, Places
<1>2. ASSUME NEW s \in Sub, NEW m \in Msg, W!Send(s, m) PROVE Goal
  BY <1>0, <1>2, MoveTyped, Zenon DEF W!Send, Places
<1>3. ASSUME NEW s \in Sub, W!CloseChannel(s) PROVE Goal
  BY <1>0, <1>3, Zenon DEF W!CloseChannel, Places
<1>4. ASSUME NEW s \in Sub, W!Subscribe(s) \/ W!Register(s) \/ W!StartLoop(s) \/ W!Leave(s) \/ W!Drain(s)
      PROVE  Goal
  BY <1>0, <1>4, GotoTyped, Zenon DEF W!Subscribe, W!Register, W!StartLoop, W!Leave, W!Drain
<1>5. ASSUME NEW s \in Sub, W!Consume(s) PROVE Goal
  <2>1. CASE W!Goto(s, "leave") /\ UNCHANGED W!msgVars
    BY <1>0, <2>1, GotoTyped, Zenon
  <2>2. ASSUME NEW m \in W!In(s, "out"), W!Move(s, m, "held"), W!Goto(s, "submit"), UNCHANGED wRuns PROVE Goal
    BY <1>0, <2>2, GotoTyped, MoveTyped, Zenon DEF W!In, Places
  <2>3. ASSUME NEW m \in W!In(s, "out"), W!Move(s, m, "run"), W!Runs(s, m), W!Goto(s, "handle") PROVE Goal
    BY <1>0, <2>3, GotoTyped, MoveTyped, RunsTyped, Zenon DEF W!In, Places
  <2> QED
    BY <1>5, <2>1, <2>2, <2>3, Zenon DEF W!Consume
<1>6. ASSUME NEW s \in Sub, W!HandleMessage(s) PROVE Goal
  <2>1. PICK m \in W!In(s, "run") : W!Move(s, m, "acked")
    BY <1>6, Zenon DEF W!HandleMessage
  <2> QED
    BY <1>0, <1>6, <2>1, GotoTyped, MoveTyped, Zenon DEF W!HandleMessage, W!In, Places
<1>7. ASSUME NEW s \in Sub, W!SubmitMessage(s) PROVE Goal
  <2>1. PICK m \in W!In(s, "held") :
          \/ \E y \in {"pool", "lost", "sent"} : W!Move(s, m, y) /\ UNCHANGED wRuns
          \/ W!Move(s, m, "run") /\ W!Runs(s, m)
    BY <1>7, Zenon DEF W!SubmitMessage, W!Nack
  <2>2. m \in Msg /\ wStep' \in [Sub -> Steps]
    BY <1>0, <1>7, GotoTyped, Zenon DEF W!SubmitMessage, W!In
  <2> QED
    BY <1>0, <2>1, <2>2, MoveTyped, RunsTyped DEF Places
<1>8. ASSUME NEW s \in Sub, NEW m \in Msg, W!WorkerStarts(s, m) \/ W!WorkerEnds(s, m) PROVE Goal
  BY <1>0, <1>8, MoveTyped, RunsTyped, Zenon DEF W!WorkerStarts, W!WorkerEnds, Places
<1>9. CASE UNCHANGED <<wStep, wPlace, wRuns>>
  BY <1>0, <1>9, Zenon
<1>10. ASSUME NEW s \in Sub, W!CallerCancels(s) PROVE UNCHANGED <<wStep, wPlace, wRuns>>
  BY <1>10, Zenon DEF W!CallerCancels
<1>11. ASSUME NEW c \in Closer, W!CloseBegins(c) \/ W!Close(c) PROVE UNCHANGED <<wStep, wPlace, wRuns>>
  BY <1>11, Zenon DEF W!CloseBegins, W!Close, W!CloseCancels, W!ClosePub, W!CloseReturns
<1>12. CASE UNCHANGED W!vars
  BY <1>12, <1>9, Zenon DEF W!vars
<1> HIDE DEF Goal
<1>13. ASSUME NEW s \in Sub, W!ConsumeLoop(s) \/ W!Sending(s) \/ W!Work(s) PROVE Goal
  BY <1>2, <1>4, <1>5, <1>6, <1>7, <1>8, <1>13, Zenon DEF W!ConsumeLoop, W!Sending, W!Work
<1>14. CASE W!Next
  BY <1>1, <1>3, <1>4, <1>9, <1>10, <1>11, <1>13, <1>14, Zenon DEF W!Next
<1> QED
  BY <1>12, <1>14, Zenon

\* Every step keeps the types.
LEMMA WTypesNext == WTypes /\ [W!Next]_W!vars => WTypes'
<1> SUFFICES ASSUME WTypes, [W!Next]_W!vars PROVE WTypes'
  BY Zenon
<1> DEFINE Marks == /\ wPub' \in {"open", "closing", "closed"} /\ wOnce' \in {"new", "running", "done"}
                    /\ wClosers' \in [Closer -> {"idle", "cancel", "pub", "drop", "wait", "nil", "late"}]
<1>1. ASSUME CloseStill PROVE Marks
  BY <1>1, Zenon DEF CloseStill, WTypes
<1>2. ASSUME NEW c \in Closer, W!CloseBegins(c) \/ W!Close(c) PROVE Marks
  BY <1>2, Zenon
  DEF W!CloseBegins, W!Close, W!CloseCancels, W!ClosePub, W!CloseReturns, W!CloserGoto, WTypes
<1>3. Marks
  BY <1>1, <1>2, OnlyClose, Zenon
<1> QED
  BY <1>3, WSetsNext, WMapsNext, Zenon DEF WTypes, Steps

\* Cardinality is the same in the module of the bus and here.
LEMMA SameCardinality == ASSUME NEW S PROVE W!Cardinality(S) = Cardinality(S)
  BY Zenon DEF W!Cardinality, Cardinality

INSTANCE FiniteSetTheorems

\* Close waits for every loop: when the counter is zero none is left.
LEMMA NoLoopLeft ==
  ASSUME W!wg = 0
  PROVE  \A s \in Sub : wStep[s] \notin Looping
<1> DEFINE S == {s \in Sub : wStep[s] \in {"loop", "handle", "submit", "leave", "drain"}}
<1>1. Cardinality(S) = 0
  BY SameCardinality, Zenon DEF W!wg
<1>2. IsFiniteSet(S)
  BY FiniteAssumption, FS_Subset, Zenon
<1>3. S = {}
  BY <1>1, <1>2, FS_EmptySet, Zenon
<1> QED
  BY <1>3, Zenon DEF Looping

\* Every step keeps the order of Close, and no loop begins after it that it does not know.
LEMMA WCloseNext == WTypes /\ WCloseInv /\ [W!Next]_W!vars => WCloseInv'
<1> SUFFICES ASSUME WTypes, WCloseInv, [W!Next]_W!vars PROVE WCloseInv'
  BY Zenon
<1> DEFINE Over == \A s \in Sub : wStep[s] \in {"new", "refused", "end"} \/ s \in wOvertaken
<1>1. CASE CloseStill
  <2>1. ASSUME wPub = "closed", Over PROVE Over'
    <3> SUFFICES ASSUME NEW t \in Sub, wStep'[t] # wStep[t], t \notin wOvertaken
                 PROVE  wStep'[t] \in {"new", "refused", "end"}
      BY <1>1, <2>1, Zenon DEF CloseStill
    <3>1. wStep[t] \in {"new", "refused", "end"}
      BY <2>1, Zenon
    <3>2. ASSUME NEW s \in Sub, Advances(s) PROVE wStep'[t] \in {"new", "refused", "end"}
      BY <2>1, <3>1, <3>2, Zenon DEF Advances, Went
    <3>3. ASSUME NEW s \in Sub, NEW m \in Msg, Hands(s, m) \/ Starts(s, m)
          PROVE  wStep'[t] \in {"new", "refused", "end"}
      <4>1. s = t
        BY <3>3, Zenon DEF Hands, Starts, Passes, Went
      <4>2. wStep[t] \in {"loop", "handle", "submit"} \/ Went(t, wStep[t])
        BY <3>3, <4>1, Zenon DEF Hands, Starts, Passes
      <4> QED
        BY <3>1, <4>2, Zenon DEF Went
    <3> QED
      BY <3>2, <3>3, WEffects, Zenon DEF WEffect, Still, Publishes, Drops
  <2> QED
    BY <1>1, <2>1, Zenon DEF CloseStill, WCloseInv
<1>2. ASSUME NEW c \in Closer, W!CloseBegins(c) PROVE WCloseInv'
  BY <1>2 DEF W!CloseBegins, W!CloserGoto, WCloseInv, WTypes
<1>3. ASSUME NEW c \in Closer, W!CloseCancels(c) PROVE WCloseInv'
  BY <1>3, Zenon DEF W!CloseCancels, W!CloserGoto, WCloseInv, WTypes
<1>4. ASSUME NEW c \in Closer, W!ClosePub(c) PROVE WCloseInv'
  BY <1>4, Zenon DEF W!ClosePub, W!loopVars, W!CloserGoto, WCloseInv, WTypes
<1>5. ASSUME NEW c \in Closer, W!CloseReturns(c) PROVE WCloseInv'
  <2>1. CASE W!CloserGoto(c, "late") /\ UNCHANGED wOvertaken
    BY <1>5, <2>1, Zenon DEF W!CloseReturns, W!loopVars, W!CloserGoto, WCloseInv, WTypes
  <2>2. CASE /\ W!wg = 0 /\ W!CloserGoto(c, "nil")
             /\ wOvertaken' = wOvertaken \cup {s \in Sub : wStep[s] \in {"attached", "registered"}}
    <3>1. /\ wClosers[c] = "wait" /\ wClosers' = [wClosers EXCEPT ![c] = "nil"]
          /\ UNCHANGED <<wPub, wOnce, wStep>>
      BY <1>5, <2>2, Zenon DEF W!CloseReturns, W!loopVars, W!CloserGoto
    <3>2. Over'
      BY <2>2, <3>1, NoLoopLeft, Zenon DEF WTypes, Looping
    <3> QED
      BY <3>1, <3>2, Zenon DEF WCloseInv, WTypes
  <2> QED
    BY <1>5, <2>1, <2>2, Zenon DEF W!CloseReturns
<1> QED
  BY <1>1, <1>2, <1>3, <1>4, <1>5, OnlyClose, Zenon DEF W!Close

\* The inductive invariant of WatermillBus holds at all times.
THEOREM WatermillInvariant == W!Spec => []WInv
<1>1. W!Init => WInv
  <2> SUFFICES ASSUME W!Init PROVE WInv
    BY Zenon
  <2>1. WTypes
    BY Zenon DEF W!Init, WTypes, Places
  <2>2. WPlaceInv
    BY Zenon DEF W!Init, WPlaceInv, WPlaceAt
  <2>3. WHandInv
    BY Zenon DEF W!Init, WHandInv, WHandAt
  <2>4. WCloseInv
    BY Zenon DEF W!Init, WCloseInv
  <2> QED
    BY <2>1, <2>2, <2>3, <2>4, Zenon DEF WInv
<1>2. WInv /\ [W!Next]_W!vars => WInv'
  BY WEffects, WTypesNext, WPlaceNext, WHandNext, WCloseNext, Zenon DEF WInv
<1> QED
  BY <1>1, <1>2, PTL DEF W!Spec

-----------------------------------------------------------------------------
(***************************************************************************)
(* The pools.                                                              *)
(***************************************************************************)
\* No more handlers of a subscription run than it has workers, and no more messages
\* wait for one than its queue holds.
WRoomInv ==
  \A s \in Sub : /\ Cardinality(W!In(s, "run")) <= Workers
                 /\ Cardinality(W!In(s, "pool")) <= QueueCapacity

\* The messages at one place are finitely many.
LEMMA InFinite ==
  ASSUME NEW s \in Sub, NEW where
  PROVE  IsFiniteSet(W!In(s, where)) /\ Cardinality(W!In(s, where)) \in Nat
<1>1. IsFiniteSet(W!In(s, where))
  BY FiniteAssumption, FS_Subset, Zenon DEF W!In
<1> QED
  BY <1>1, FS_CardinalityType, Zenon

\* A set of messages with room for one more, or that loses some, keeps its bound.
LEMMA RoomKept ==
  ASSUME NEW S, IsFiniteSet(S), NEW T, NEW room \in Nat, NEW m,
         \/ T \subseteq S /\ Cardinality(S) <= room
         \/ T \subseteq S \cup {m} /\ Cardinality(S) < room
         \/ T \subseteq {m} /\ 1 <= room
  PROVE  Cardinality(T) <= room
<1>1. CASE T \subseteq S /\ Cardinality(S) <= room
  <2>1. IsFiniteSet(T) /\ Cardinality(T) <= Cardinality(S)
    BY <1>1, FS_Subset, Zenon
  <2>2. Cardinality(T) \in Nat /\ Cardinality(S) \in Nat
    BY <2>1, FS_CardinalityType, Zenon
  <2> QED
    BY <1>1, <2>1, <2>2
<1>2. CASE T \subseteq S \cup {m} /\ Cardinality(S) < room
  <2>1. IsFiniteSet(S \cup {m}) /\ Cardinality(S) \in Nat
        /\ (Cardinality(S \cup {m}) = Cardinality(S) \/ Cardinality(S \cup {m}) = Cardinality(S) + 1)
    BY FS_AddElement, FS_CardinalityType, Zenon
  <2>2. IsFiniteSet(T) /\ Cardinality(T) <= Cardinality(S \cup {m})
    BY <1>2, <2>1, FS_Subset, Zenon
  <2>3. Cardinality(T) \in Nat
    BY <2>2, FS_CardinalityType, Zenon
  <2> QED
    BY <1>2, <2>1, <2>2, <2>3
<1>3. CASE T \subseteq {m} /\ 1 <= room
  <2>1. IsFiniteSet({m}) /\ Cardinality({m}) = 1
    BY FS_Singleton, Zenon
  <2>2. IsFiniteSet(T) /\ Cardinality(T) <= Cardinality({m})
    BY <1>3, <2>1, FS_Subset, Zenon
  <2>3. Cardinality(T) \in Nat
    BY <2>2, FS_CardinalityType, Zenon
  <2> QED
    BY <1>3, <2>1, <2>2, <2>3
<1> QED
  BY <1>1, <1>2, <1>3, Zenon

\* Every step leaves the pools within their bounds.
LEMMA WRoomNext == WInv /\ WRoomInv /\ [W!Next]_W!vars => WRoomInv'
<1> SUFFICES ASSUME WInv, WRoomInv, [W!Next]_W!vars, NEW t \in Sub
             PROVE  /\ Cardinality(W!In(t, "run")') <= Workers
                    /\ Cardinality(W!In(t, "pool")') <= QueueCapacity
  BY Zenon DEF WRoomInv
<1> DEFINE R0 == W!In(t, "run")
           P0 == W!In(t, "pool")
<1>1. /\ IsFiniteSet(R0) /\ IsFiniteSet(P0) /\ Cardinality(R0) <= Workers
      /\ Cardinality(P0) <= QueueCapacity
      /\ Workers \in Nat /\ 1 <= Workers /\ QueueCapacity \in Nat
  BY InFinite, PoolAssumption DEF WRoomInv
<1>2. /\ \/ R0' \subseteq R0
         \/ \E m \in Msg : R0' \subseteq R0 \cup {m} /\ Cardinality(R0) < Workers
         \/ \E m \in Msg : R0' \subseteq {m}
      /\ \/ P0' \subseteq P0
         \/ \E m \in Msg : P0' \subseteq P0 \cup {m} /\ Cardinality(P0) < QueueCapacity
  <2> USE DEF W!In
  <2>1. CASE Still
    BY <2>1, Zenon DEF Still
  <2>2. ASSUME NEW m \in Msg, Publishes(m) PROVE R0' \subseteq R0 /\ P0' \subseteq P0
    BY <2>2, Zenon DEF Publishes
  <2>3. ASSUME NEW s \in Sub, Drops(s) \/ Advances(s) PROVE R0' \subseteq R0 /\ P0' \subseteq P0
    BY <2>3, Zenon DEF Drops, Advances
  <2>4. ASSUME NEW s \in Sub, NEW m \in Msg, Hands(s, m)
        PROVE  /\ R0' \subseteq R0
               /\ P0' \subseteq P0 \/ (P0' \subseteq P0 \cup {m} /\ Cardinality(P0) < QueueCapacity)
    <3>1. CASE s = t /\ Free(s, "pool", QueueCapacity) /\ Passes(s, m, "held", "pool", "loop")
      <4>1. Cardinality(P0) < QueueCapacity
        BY <3>1, SameCardinality, Zenon DEF Free
      <4> QED
        BY <3>1, <4>1, Zenon DEF Passes, Moved
    <3>2. CASE s # t
      BY <2>4, <3>2, Zenon DEF Hands, Passes, Moved
    <3>3. CASE s = t /\ \E to \in Places \ {"run", "pool"} : Moved(s, m, to)
      BY <3>3, Zenon DEF Moved
    <3>4. \/ Free(s, "pool", QueueCapacity) /\ Passes(s, m, "held", "pool", "loop")
          \/ \E to \in Places \ {"run", "pool"} : Moved(s, m, to)
      BY <2>4, Zenon DEF Hands, Passes, Places
    <3> QED
      BY <3>1, <3>2, <3>3, <3>4, Zenon
  <2>5. ASSUME NEW s \in Sub, NEW m \in Msg, Starts(s, m)
        PROVE  /\ \/ R0' \subseteq R0
                  \/ R0' \subseteq R0 \cup {m} /\ Cardinality(R0) < Workers
                  \/ R0' \subseteq {m}
               /\ P0' \subseteq P0
    <3>1. P0' \subseteq P0
      BY <2>5, Zenon DEF Starts, Passes, Moved
    <3>2. CASE s # t
      BY <2>5, <3>1, <3>2, Zenon DEF Starts, Passes, Moved
    <3>3. CASE s = t /\ s \notin Pooled /\ wStep[s] = "loop" /\ Moved(s, m, "run")
      <4>1. R0 = {}
        BY <3>3, Zenon DEF WInv, WPlaceInv, WPlaceAt
      <4>2. R0' \subseteq {m}
        BY <3>3, <4>1, Zenon DEF Moved
      <4> QED
        BY <3>1, <4>2, Zenon
    <3>4. CASE s = t /\ Free(s, "run", Workers) /\ Moved(s, m, "run")
      <4>1. Cardinality(R0) < Workers
        BY <3>4, SameCardinality, Zenon DEF Free
      <4> QED
        BY <3>1, <3>4, <4>1, Zenon DEF Moved
    <3> QED
      BY <2>5, <3>2, <3>3, <3>4, Zenon DEF Starts, Passes
  <2> HIDE DEF R0, P0
  <2> QED
    BY <2>1, <2>2, <2>3, <2>4, <2>5, WEffects, Zenon DEF WInv, WEffect
<1> HIDE DEF R0, P0
<1>3. Cardinality(R0') <= Workers
  BY <1>1, <1>2, RoomKept, Zenon
<1>4. Cardinality(P0') <= QueueCapacity
  BY <1>1, <1>2, RoomKept, Zenon
<1> QED
  BY <1>3, <1>4, Zenon DEF R0, P0

\* Watermill's pools and loops keep their types and bounds: a message in hand exactly
\* while the loop submits it, never more handlers than workers.
THEOREM WatermillTypesCorrect == W!Spec => []W!WatermillTypeOK
<1>1. W!Init => WRoomInv
  <2> SUFFICES ASSUME W!Init, NEW s \in Sub
               PROVE  /\ Cardinality(W!In(s, "run")) <= Workers
                      /\ Cardinality(W!In(s, "pool")) <= QueueCapacity
    BY Zenon DEF WRoomInv
  <2>1. W!In(s, "run") = {} /\ W!In(s, "pool") = {}
    BY Zenon DEF W!Init, W!In
  <2> QED
    BY <2>1, FS_EmptySet, PoolAssumption
<1>2. WInv /\ WRoomInv => W!WatermillTypeOK
  <2> SUFFICES ASSUME WInv, WRoomInv PROVE W!WatermillTypeOK
    BY Zenon
  <2>1. ASSUME NEW s \in Sub
        PROVE  W!Cardinality(W!In(s, "held")) = IF wStep[s] = "submit" THEN 1 ELSE 0
    <3>1. CASE wStep[s] = "submit"
      <4>1. PICK m \in Msg : wPlace[s][m] = "held"
        BY <3>1, Zenon DEF WInv, WHandInv, WHandAt
      <4>2. W!In(s, "held") = {m}
        BY <4>1, Zenon DEF WInv, WHandInv, WHandAt, W!In
      <4> QED
        BY <3>1, <4>2, FS_Singleton, SameCardinality, Zenon
    <3>2. CASE wStep[s] # "submit"
      <4>1. W!In(s, "held") = {}
        BY <3>2, Zenon DEF WInv, WPlaceInv, WPlaceAt, W!In
      <4> QED
        BY <3>2, <4>1, FS_EmptySet, SameCardinality, Zenon
    <3> QED
      BY <3>1, <3>2, Zenon
  <2>2. ASSUME NEW s \in Sub
        PROVE  /\ W!Cardinality(W!In(s, "run")) <= Workers
               /\ W!Cardinality(W!In(s, "pool")) <= QueueCapacity
    BY SameCardinality, Zenon DEF WRoomInv
  <2>3. \A s \in Sub, m \in Msg : wPlace[s][m] \in Places
    BY Zenon DEF WInv, WTypes
  <2>4. /\ wPub \in {"open", "closing", "closed"} /\ wOnce \in {"new", "running", "done"}
        /\ wStep \in [Sub -> {"new", "refused", "attached", "registered", "loop", "handle", "submit",
                              "leave", "drain", "end"}]
        /\ wSubs \subseteq W!Attached /\ wStopped \subseteq W!Attached
        /\ wOutClosed \subseteq W!Attached
        /\ wClosers \in [Closer -> {"idle", "cancel", "pub", "drop", "wait", "nil", "late"}]
    BY Zenon DEF WInv, WTypes, Looping
  <2> QED
    BY <2>1, <2>2, <2>3, <2>4, Zenon DEF W!WatermillTypeOK, Places
<1> QED
  BY <1>1, <1>2, WRoomNext, WatermillInvariant, PTL DEF W!Spec

\* Both buses deliver as they promise: NATS in the order of publication, Watermill no
\* message twice and none left behind by a loop that has ended.
THEOREM LocalBusesDeliverCorrect == Nats!Spec /\ W!Spec => []LocalBusesDeliver
<1>1. WInv => W!WatermillAtMostOnce
  BY DEF WInv, WPlaceInv, WPlaceAt, W!WatermillAtMostOnce
<1>2. WInv => W!WatermillResolves
  BY Zenon DEF WInv, WPlaceInv, WPlaceAt, Looping, W!WatermillResolves, W!At
<1>3. Nats!NatsTypeOK /\ Nats!NatsInOrder /\ W!WatermillTypeOK /\ WInv => LocalBusesDeliver
  BY <1>1, <1>2, Zenon DEF LocalBusesDeliver
<1> QED
  BY <1>3, NatsTypesCorrect, NatsInOrderCorrect, WatermillTypesCorrect, WatermillInvariant, PTL

-----------------------------------------------------------------------------
(***************************************************************************)
(* The contract of Close.                                                  *)
(***************************************************************************)
\* The invocations of handlers that the contract of Close is about.
Known == {i \in W!InFlight : i[1] \notin wOvertaken}
Closed == \E c \in Closer : wClosers[c] = "nil"

\* A step that starts and ends no handler is not seen.
LEMMA KnownStays ==
  ASSUME UNCHANGED wOvertaken,
         \A s \in Sub, m \in Msg : (wPlace[s][m] = "run") <=> (wPlace'[s][m] = "run")
  PROVE  Known' = Known
  BY DEF Known, W!InFlight

\* One that moves a message to a handler, or from it, starts or ends that invocation.
LEMMA KnownMoves ==
  ASSUME NEW s \in Sub, NEW m \in Msg, NEW y, Moved(s, m, y), UNCHANGED wOvertaken
  PROVE  /\ y = "run" /\ s \notin wOvertaken => Known' = Known \cup {<<s, m>>}
         /\ y # "run" /\ s \notin wOvertaken => Known' = Known \ {<<s, m>>}
         /\ s \in wOvertaken => Known' = Known
<1>1. \A i \in Sub \X Msg :
        /\ i = <<i[1], i[2]>> /\ i[1] \in Sub /\ i[2] \in Msg
        /\ i \in Known <=> wPlace[i[1]][i[2]] = "run" /\ i[1] \notin wOvertaken
        /\ i \in Known' <=> wPlace'[i[1]][i[2]] = "run" /\ i[1] \notin wOvertaken
  BY DEF Known, W!InFlight
<1>2. \A i \in Sub \X Msg :
        wPlace'[i[1]][i[2]] = IF i = <<s, m>> THEN y ELSE wPlace[i[1]][i[2]]
  BY <1>1 DEF Moved
<1>3. Known \subseteq Sub \X Msg /\ Known' \subseteq Sub \X Msg /\ <<s, m>> \in Sub \X Msg
  BY Zenon DEF Known, W!InFlight
<1>4. CASE s \in wOvertaken
  <2>1. \A i \in Sub \X Msg : i \in Known' <=> i \in Known
    BY <1>1, <1>2, <1>4, Zenon
  <2> QED
    BY <1>3, <1>4, <2>1, Zenon
<1>5. CASE s \notin wOvertaken /\ y = "run"
  BY <1>1, <1>2, <1>3, <1>5
<1>6. CASE s \notin wOvertaken /\ y # "run"
  BY <1>1, <1>2, <1>3, <1>6
<1> QED
  BY <1>4, <1>5, <1>6, Zenon

\* Watermill's Close keeps the contract: a step maps to one of the contract, or is
\* not seen.
THEOREM WatermillImplementsContract == W!Spec => W!WatermillCloseSettles
<1> DEFINE Step == W!Contract!Next \/ UNCHANGED W!Contract!busVars
<1>1. W!Init => W!Contract!Init
  BY DEF W!Init, W!Contract!Init, W!InFlight
<1>2. ASSUME WInv, [W!Next]_W!vars PROVE Step
  <2>1. ASSUME Known' = Known, Closed' = Closed PROVE UNCHANGED W!Contract!busVars
    BY <2>1, Zenon DEF Known, Closed, W!Contract!busVars
  <2>2. CASE CloseStill
    <3>1. Closed' = Closed
      BY <2>2, Zenon DEF CloseStill, Closed
    <3>2. ASSUME NEW s \in Sub, NEW m \in Msg, Starts(s, m) PROVE Step
      <4>1. Moved(s, m, "run") /\ wPlace[s][m] # "run" /\ wStep[s] \notin {"new", "refused", "end"}
        BY <1>2, <3>2, Zenon DEF Starts, Passes, WInv, WPlaceInv, WPlaceAt, Looping
      <4>2. CASE s \in wOvertaken
        BY <2>1, <2>2, <3>1, <4>1, <4>2, KnownMoves, Zenon DEF CloseStill
      <4>3. CASE s \notin wOvertaken
        <5>1. ~Closed
          BY <1>2, <4>1, <4>3, Zenon DEF Closed, WInv, WCloseInv
        <5>2. <<s, m>> \notin Known /\ Known' = Known \cup {<<s, m>>} /\ <<s, m>> \in Sub \X Msg
          BY <2>2, <4>1, <4>3, KnownMoves, Zenon DEF CloseStill, Known, W!InFlight
        <5>3. W!Contract!Start(<<s, m>>)
          BY <3>1, <5>1, <5>2, Zenon DEF W!Contract!Start, Known, Closed
        <5> QED
          BY <5>2, <5>3, Zenon DEF W!Contract!Next
      <4> QED
        BY <4>2, <4>3, Zenon
    <3>3. ASSUME NEW s \in Sub, NEW m \in Msg, Hands(s, m) PROVE Step
      <4>1. PICK y \in Places \ {"run"} : Moved(s, m, y)
        BY <3>3, Zenon DEF Hands, Passes, Places
      <4>2. Known' = Known \ {<<s, m>>}  \/  Known' = Known
        BY <2>2, <4>1, KnownMoves, Zenon DEF CloseStill
      <4>3. CASE <<s, m>> \in Known /\ Known' = Known \ {<<s, m>>}
        <5>1. W!Contract!End(<<s, m>>)
          BY <3>1, <4>3, Zenon DEF W!Contract!End, Known, Closed
        <5> QED
          BY <5>1, Zenon DEF W!Contract!Next
      <4>4. CASE Known' = Known
        BY <2>1, <3>1, <4>4, Zenon
      <4>5. <<s, m>> \notin Known => Known \ {<<s, m>>} = Known
        BY Zenon
      <4> QED
        BY <4>2, <4>3, <4>4, <4>5, Zenon
    <3>4. CASE UNCHANGED wPlace \/ \E m \in Msg : Publishes(m)
      <4>1. \A s \in Sub, m \in Msg : (wPlace[s][m] = "run") <=> (wPlace'[s][m] = "run")
        <5>1. \A s \in Sub, m \in Msg : m \notin wPublished => wPlace[s][m] = "none"
          BY <1>2, Zenon DEF WInv, WPlaceInv, WPlaceAt
        <5>2. CASE UNCHANGED wPlace
          BY <5>2, Zenon
        <5>3. ASSUME NEW n \in Msg, Publishes(n)
              PROVE  \A s \in Sub, m \in Msg : (wPlace[s][m] = "run") <=> (wPlace'[s][m] = "run")
          BY <5>1, <5>3 DEF Publishes
        <5> QED
          BY <3>4, <5>2, <5>3, Zenon
      <4> QED
        BY <2>1, <2>2, <3>1, <4>1, KnownStays, Zenon DEF CloseStill
    <3>5. ASSUME NEW s \in Sub, Drops(s) PROVE Step
      <4>1. \A t \in Sub, m \in Msg : (wPlace[t][m] = "run") <=> (wPlace'[t][m] = "run")
        BY <3>5, Zenon DEF Drops
      <4> QED
        BY <2>1, <2>2, <3>1, <4>1, KnownStays, Zenon DEF CloseStill
    <3> HIDE DEF Step
    <3> QED
      BY <1>2, <3>2, <3>3, <3>4, <3>5, WEffects, Zenon DEF WInv, WEffect, Still, Advances
  <2>3. ASSUME NEW c \in Closer, W!CloseBegins(c) \/ W!CloseCancels(c) \/ W!ClosePub(c)
        PROVE  Step
    <3>1. Closed' = Closed
      BY <1>2, <2>3, Zenon DEF W!CloseBegins, W!CloseCancels, W!ClosePub, W!CloserGoto, Closed, WInv, WTypes
    <3>2. UNCHANGED <<wPlace, wOvertaken>>
      BY <2>3, Zenon DEF W!CloseBegins, W!CloseCancels, W!ClosePub, W!msgVars
    <3> QED
      BY <2>1, <3>1, <3>2, KnownStays, Zenon
  <2>4. ASSUME NEW c \in Closer, W!CloseReturns(c) PROVE Step
    <3>1. UNCHANGED wPlace
      BY <2>4, Zenon DEF W!CloseReturns, W!msgVars
    <3>2. CASE W!CloserGoto(c, "late") /\ UNCHANGED wOvertaken
      <4>1. Closed' = Closed
        BY <1>2, <2>4, <3>2, Zenon DEF W!CloseReturns, W!CloserGoto, Closed, WInv, WTypes
      <4> QED
        BY <2>1, <3>1, <3>2, <4>1, KnownStays, Zenon
    <3>3. CASE W!wg = 0 /\ W!CloserGoto(c, "nil")
      <4>1. W!InFlight = {}
        <5>1. \A s \in Sub, m \in Msg : wPlace[s][m] # "run"
          BY <1>2, <3>3, NoLoopLeft, Zenon DEF WInv, WPlaceInv, WPlaceAt
        <5> QED
          BY <5>1, Zenon DEF W!InFlight
      <4>2. Known = {} /\ Known' = {}
        BY <3>1, <4>1, Zenon DEF Known, W!InFlight
      <4>3. Closed' = TRUE
        BY <1>2, <3>3, Zenon DEF W!CloserGoto, Closed, WInv, WTypes
      <4>4. W!Contract!Return
        BY <4>2, <4>3, Zenon DEF W!Contract!Return, Known, Closed
      <4> QED
        BY <4>4, Zenon DEF W!Contract!Next
    <3> QED
      BY <2>4, <3>2, <3>3, Zenon DEF W!CloseReturns
  <2> HIDE DEF Step
  <2> QED
    BY <1>2, <2>2, <2>3, <2>4, OnlyClose, Zenon DEF W!Close
<1> QED
  BY <1>1, <1>2, WatermillInvariant, PTL DEF W!Spec, W!WatermillCloseSettles, W!Contract!Spec

\* Both buses keep the contract of modulex.EventBus.Close.
THEOREM LocalBusesKeepContractCorrect == Nats!Spec /\ W!Spec => LocalBusesKeepContract
  BY NatsImplementsContract, WatermillImplementsContract, Zenon DEF LocalBusesKeepContract
===============================================================================
