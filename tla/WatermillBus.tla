------------------------------ MODULE WatermillBus ------------------------------
(***************************************************************************)
(* The in-process event bus (watermill/watermill.go): Subscribe calls and   *)
(* their consume loops, with and without a worker pool, against Close.      *)
(*                                                                         *)
(* Watermill's GoChannel is external.  It holds, for each subscription, the *)
(* messages it has still to hand over, a buffered channel, and the          *)
(* messages waiting for their Ack or Nack; it closes the channel when the   *)
(* subscriber's context ends or it is closed itself.                        *)
(***************************************************************************)
EXTENDS Naturals, FiniteSets

CONSTANTS
  Sub, Pooled,   \* Subscribe calls; those of SubscribeWithOptions
  Msg, Closer,
  Buffer,        \* OutputChannelBuffer
  Workers, QueueCapacity

VARIABLES
  pub,        \* external: "open", "closing" or "closed"
  step,       \* per subscription: where its call, then its loop, stands
  subs,       \* w.subs
  ctxDone,    \* subscriptions whose caller's context is done
  stopped,    \* subscriptions whose cancel function was called
  outClosed,  \* external: subscriptions whose channel is closed
  published,
  place,      \* per subscription and message: where the message is
  runs,       \* history: per subscription and message, how often its handler ran
  once,       \* closeOnce: "new", "running" or "done"
  taken,      \* the cancel functions that Close took
  closers,    \* per Close call
  overtaken   \* history: Subscribe calls under way when a Close call returned nil

loopVars == <<step, subs, stopped>>
msgVars == <<place, runs>>
closeVars == <<once, taken, closers, overtaken>>
vars == <<pub, ctxDone, outClosed, published, loopVars, msgVars, closeVars>>

Attached == {s \in Sub : step[s] \notin {"new", "refused"}}
wg == Cardinality({s \in Sub : step[s] \in {"loop", "handle", "submit", "leave", "drain"}})
In(s, where) == {m \in Msg : place[s][m] = where}
Done(s) == s \in ctxDone \cup stopped

WatermillTypeOK ==
  /\ pub \in {"open", "closing", "closed"} /\ once \in {"new", "running", "done"}
  /\ step \in [Sub -> {"new", "refused", "attached", "registered", "loop", "handle", "submit",
                       "leave", "drain", "end"}]
  /\ subs \subseteq Attached /\ stopped \subseteq Attached /\ outClosed \subseteq Attached
  /\ \A s \in Sub :
       /\ \A m \in Msg : place[s][m] \in {"none", "sent", "out", "held", "pool", "run", "acked", "lost"}
       /\ Cardinality(In(s, "run")) <= Workers
       /\ Cardinality(In(s, "pool")) <= QueueCapacity
       /\ Cardinality(In(s, "held")) = IF step[s] = "submit" THEN 1 ELSE 0
  /\ closers \in [Closer -> {"idle", "cancel", "pub", "drop", "wait", "nil", "late"}]

Init ==
  /\ pub = "open" /\ step = [s \in Sub |-> "new"] /\ subs = {} /\ ctxDone = {} /\ stopped = {}
  /\ outClosed = {} /\ published = {} /\ place = [s \in Sub |-> [m \in Msg |-> "none"]]
  /\ runs = [s \in Sub |-> [m \in Msg |-> 0]]
  /\ once = "new" /\ taken = {} /\ closers = [c \in Closer |-> "idle"] /\ overtaken = {}

At(s, where) == step[s] = where
Goto(s, where) == step' = [step EXCEPT ![s] = where]
Move(s, m, where) == place' = [place EXCEPT ![s][m] = where]
Runs(s, m) == runs' = [runs EXCEPT ![s][m] = @ + 1]

-----------------------------------------------------------------------------
(***************************************************************************)
(* GoChannel.                                                              *)
(***************************************************************************)
Publish(m) ==
  /\ pub = "open" /\ m \notin published /\ published' = published \cup {m}
  /\ place' = [s \in Sub |-> IF s \in Attached \ outClosed
                             THEN [place[s] EXCEPT ![m] = "sent"] ELSE place[s]]
  /\ UNCHANGED <<pub, ctxDone, outClosed, runs, loopVars, closeVars>>

Send(s, m) ==
  /\ place[s][m] = "sent" /\ Cardinality(In(s, "out")) < Buffer /\ Move(s, m, "out")
  /\ UNCHANGED <<pub, ctxDone, outClosed, published, runs, loopVars, closeVars>>

\* The channel is closed: what it buffers can still be received.
CloseChannel(s) ==
  /\ s \in Attached \ outClosed /\ (s \in ctxDone \/ pub = "closing")
  /\ outClosed' = outClosed \cup {s}
  /\ place' = [place EXCEPT ![s] = [m \in Msg |-> IF @[m] = "sent" THEN "lost" ELSE @[m]]]
  /\ UNCHANGED <<pub, ctxDone, published, runs, loopVars, closeVars>>

Nack(s, m) == Move(s, m, IF s \in outClosed THEN "lost" ELSE "sent")

-----------------------------------------------------------------------------
(***************************************************************************)
(* Subscribe and the consume loop.                                         *)
(***************************************************************************)
Frame == UNCHANGED <<pub, outClosed, published, closeVars>>

Subscribe(s) ==
  /\ At(s, "new") /\ Goto(s, IF pub = "open" THEN "attached" ELSE "refused")
  /\ UNCHANGED <<ctxDone, subs, stopped, msgVars>> /\ Frame

CallerCancels(s) ==
  /\ s \in Attached /\ ctxDone' = ctxDone \cup {s} /\ UNCHANGED <<loopVars, msgVars>> /\ Frame

Register(s) ==
  /\ At(s, "attached") /\ Goto(s, "registered") /\ subs' = subs \cup {s}
  /\ UNCHANGED <<ctxDone, stopped, msgVars>> /\ Frame

\* w.wg.Add and the goroutine.
StartLoop(s) ==
  /\ At(s, "registered") /\ Goto(s, "loop") /\ UNCHANGED <<ctxDone, subs, stopped, msgVars>> /\ Frame

Consume(s) ==
  /\ At(s, "loop")
  /\ \/ Done(s) /\ Goto(s, "leave") /\ UNCHANGED msgVars
     \/ /\ s \in outClosed /\ In(s, "out") = {} /\ Goto(s, "leave") /\ UNCHANGED msgVars
     \/ \E m \in In(s, "out") :
          \/ s \in Pooled /\ Move(s, m, "held") /\ Goto(s, "submit") /\ UNCHANGED runs
          \/ s \notin Pooled /\ Move(s, m, "run") /\ Runs(s, m) /\ Goto(s, "handle")
  /\ UNCHANGED <<ctxDone, subs, stopped>> /\ Frame

\* handleMessage: acknowledged whether the handler succeeded, failed or panicked.
HandleMessage(s) ==
  /\ At(s, "handle") /\ Goto(s, "loop")
  /\ \E m \in In(s, "run") : Move(s, m, "acked")
  /\ UNCHANGED <<ctxDone, subs, stopped, runs>> /\ Frame

\* submitMessage: the pool takes the message, a free worker at once when it has no
\* queue, or the context ends and the message is nacked.
SubmitMessage(s) ==
  /\ At(s, "submit") /\ Goto(s, "loop")
  /\ \E m \in In(s, "held") :
       \/ Cardinality(In(s, "pool")) < QueueCapacity /\ Move(s, m, "pool") /\ UNCHANGED runs
       \/ /\ QueueCapacity = 0 /\ Cardinality(In(s, "run")) < Workers
          /\ Move(s, m, "run") /\ Runs(s, m)
       \/ Done(s) /\ Nack(s, m) /\ UNCHANGED runs
  /\ UNCHANGED <<ctxDone, subs, stopped>> /\ Frame

WorkerStarts(s, m) ==
  /\ place[s][m] = "pool" /\ Cardinality(In(s, "run")) < Workers
  /\ Move(s, m, "run") /\ Runs(s, m) /\ UNCHANGED <<ctxDone, loopVars>> /\ Frame

WorkerEnds(s, m) ==
  /\ s \in Pooled /\ place[s][m] = "run" /\ Move(s, m, "acked")
  /\ UNCHANGED <<ctxDone, runs, loopVars>> /\ Frame

\* The deferred function, up to processor.Close.
Leave(s) ==
  /\ At(s, "leave") /\ Goto(s, "drain")
  /\ stopped' = stopped \cup {s} /\ subs' = subs \ {s}
  /\ UNCHANGED <<ctxDone, msgVars>> /\ Frame

\* Mutant: the loop ends without draining its pool.
DrainNot(s) ==
  /\ At(s, "drain") /\ Goto(s, "end") /\ UNCHANGED <<ctxDone, subs, stopped, msgVars>> /\ Frame

\* processor.Close has drained the pool: w.wg.Done.
Drain(s) ==
  /\ At(s, "drain") /\ In(s, "pool") \cup In(s, "run") = {} /\ Goto(s, "end")
  /\ UNCHANGED <<ctxDone, subs, stopped, msgVars>> /\ Frame

-----------------------------------------------------------------------------
(***************************************************************************)
(* Close.                                                                  *)
(***************************************************************************)
CloserGoto(c, where) == closers' = [closers EXCEPT ![c] = where]

CloseBegins(c) ==
  /\ closers[c] = "idle"
  /\ \/ /\ once = "new" /\ once' = "running" /\ taken' = subs /\ subs' = {} /\ CloserGoto(c, "cancel")
     \/ once = "done" /\ CloserGoto(c, "wait") /\ UNCHANGED <<once, taken, subs>>
  /\ UNCHANGED <<pub, ctxDone, stopped, step, outClosed, published, msgVars, overtaken>>

CloseCancels(c) ==
  /\ closers[c] = "cancel" /\ CloserGoto(c, "pub") /\ stopped' = stopped \cup taken
  /\ UNCHANGED <<pub, ctxDone, step, subs, outClosed, published, msgVars, once, taken, overtaken>>

\* pubSub.Close, which returns when every channel is closed.
ClosePub(c) ==
  /\ \/ closers[c] = "pub" /\ pub' = "closing" /\ CloserGoto(c, "drop") /\ UNCHANGED once
     \/ /\ closers[c] = "drop" /\ Attached \subseteq outClosed
        /\ pub' = "closed" /\ once' = "done" /\ CloserGoto(c, "wait")
  /\ UNCHANGED <<ctxDone, outClosed, published, loopVars, msgVars, taken, overtaken>>

CloseReturns(c) ==
  /\ closers[c] = "wait"
  /\ \/ /\ wg = 0 /\ CloserGoto(c, "nil")
        /\ overtaken' = overtaken \cup {s \in Sub : step[s] \in {"attached", "registered"}}
     \/ CloserGoto(c, "late") /\ UNCHANGED overtaken
  /\ UNCHANGED <<pub, ctxDone, outClosed, published, loopVars, msgVars, once, taken>>

ConsumeLoop(s) ==
  \/ Register(s) \/ StartLoop(s) \/ Consume(s) \/ HandleMessage(s) \/ SubmitMessage(s)
  \/ Leave(s) \/ Drain(s)
Sending(s) == \E m \in Msg : Send(s, m)
Work(s) == \E m \in Msg : WorkerStarts(s, m) \/ WorkerEnds(s, m)
Close(c) == CloseCancels(c) \/ ClosePub(c) \/ CloseReturns(c)

Next ==
  \/ \E m \in Msg : Publish(m)
  \/ \E s \in Sub : \/ Subscribe(s) \/ CallerCancels(s) \/ CloseChannel(s) \/ Sending(s)
                   \/ ConsumeLoop(s) \/ Work(s)
  \/ \E c \in Closer : CloseBegins(c) \/ Close(c)

\* Handlers return, goroutines run on, and GoChannel hands over what it holds.
Fairness ==
  /\ \A s \in Sub : /\ WF_vars(ConsumeLoop(s)) /\ WF_vars(Work(s)) /\ WF_vars(CloseChannel(s))
                    /\ WF_vars(Sending(s))
  /\ \A c \in Closer : WF_vars(Close(c))

Spec == Init /\ [][Next]_vars /\ Fairness

-----------------------------------------------------------------------------
(***************************************************************************)
(* Properties.                                                             *)
(***************************************************************************)
InFlight == {i \in Sub \X Msg : place[i[1]][i[2]] = "run"}

Contract == INSTANCE BusContract WITH
  Invocation <- Sub \X Msg,
  running <- {i \in InFlight : i[1] \notin overtaken},
  returned <- \E c \in Closer : closers[c] = "nil"

\* Once a Close call, any of them, has returned nil no handler runs or starts,
\* except for a Subscribe call that the Close overtook.
WatermillCloseSettles == Contract!Spec

\* No message is handled twice by a subscription: what is nacked never ran, and
\* what ran is acknowledged whatever its outcome.
WatermillAtMostOnce == \A s \in Sub, m \in Msg : runs[s][m] <= 1

\* A subscription that has ended has resolved every message it received, those
\* in its pool included.
WatermillResolves ==
  \A s \in Sub : At(s, "end") => \A m \in Msg : place[s][m] \notin {"held", "pool", "run"}

\* A cancelled or closed bus lets every loop end, a Submit call that waits for a
\* full pool included.
WatermillLoopsEnd ==
  \A s \in Sub : ((Done(s) \/ pub = "closed") /\ s \in Attached) ~> At(s, "end")

\* A message published to a subscription is handled unless the subscription ends.
WatermillDelivers ==
  \A s \in Sub, m \in Msg :
    (place[s][m] = "sent") ~> (runs[s][m] = 1 \/ Done(s) \/ s \in outClosed)
===============================================================================
