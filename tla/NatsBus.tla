-------------------------------- MODULE NatsBus --------------------------------
(***************************************************************************)
(* The core NATS event bus (nats/nats.go): subscriptions, the callback that *)
(* runs a handler, and Close.  The connection is external: it hands each    *)
(* subscription its messages one at a time, in the order of publication.    *)
(***************************************************************************)
EXTENDS Naturals, Sequences, Functions

CONSTANTS Sub, Msg, Closer

VARIABLES
  closed,
  subs,       \* n.subs with their cancel functions; empty once Close took them
  live,       \* external: subscriptions the connection delivers to
  cancelled,  \* subscriptions whose context is done
  feed,       \* history: per subscription the messages published to it
  pending,    \* external: those it has not been handed yet
  callback,   \* per subscription its callback: "idle", "lock" or "run"
  handled,    \* history: the messages its handler ran for
  closers     \* per Close call: "idle", "stop", "wait", "nil", "again" or "late"

vars == <<closed, subs, live, cancelled, feed, pending, callback, handled, closers>>

\* f begins with h, and f ends with p.
Begins(h, f) == Len(h) <= Len(f) /\ \A i \in 1..Len(h) : h[i] = f[i]
Ends(p, f) == Len(p) <= Len(f) /\ \A i \in 1..Len(p) : p[i] = f[Len(f) - Len(p) + i]

NatsTypeOK ==
  /\ closed \in BOOLEAN /\ subs \subseteq Sub /\ live \subseteq Sub /\ cancelled \subseteq Sub
  /\ \A s \in Sub : /\ callback[s] \in {"idle", "lock", "run"}
                    /\ Ends(pending[s], feed[s]) /\ handled[s] \in Seq(Msg)
  /\ \A c \in Closer : closers[c] \in {"idle", "stop", "wait", "nil", "again", "late"}
  /\ \/ ~closed /\ live = subs
     \/ closed /\ \E c \in Closer : closers[c] = "stop"
     \/ closed /\ live = {} /\ subs = {}

Init ==
  /\ closed = FALSE /\ subs = {} /\ live = {} /\ cancelled = {}
  /\ feed = [s \in Sub |-> <<>>] /\ pending = feed /\ handled = feed
  /\ callback = [s \in Sub |-> "idle"] /\ closers = [c \in Closer |-> "idle"]

Published == UNION {Range(feed[s]) : s \in Sub}

\* Publish takes no part in Close: the connection stays open.
Publish(m) ==
  /\ m \notin Published
  /\ feed' = [s \in Sub |-> IF s \in live THEN Append(feed[s], m) ELSE feed[s]]
  /\ pending' = [s \in Sub |-> IF s \in live THEN Append(pending[s], m) ELSE pending[s]]
  /\ UNCHANGED <<closed, subs, live, cancelled, callback, handled, closers>>

Subscribe(s) ==
  /\ ~closed /\ s \notin live \cup cancelled \cup subs /\ feed[s] = <<>>
  /\ live' = live \cup {s} /\ subs' = subs \cup {s}
  /\ UNCHANGED <<closed, cancelled, feed, pending, callback, handled, closers>>

\* The caller's context ends: the handlers see it, the subscription stays.
CallerCancels(s) ==
  /\ s \in live /\ cancelled' = cancelled \cup {s}
  /\ UNCHANGED <<closed, subs, live, feed, pending, callback, handled, closers>>

\* The connection calls the subscription's callback with its next message.
Deliver(s) ==
  /\ s \in live /\ callback[s] = "idle" /\ pending[s] # <<>>
  /\ callback' = [callback EXCEPT ![s] = "lock"]
  /\ UNCHANGED <<closed, subs, live, cancelled, feed, pending, handled, closers>>

\* Mutant: the callback does not look at closed.
EnterAnyway(s) ==
  /\ callback[s] = "lock"
  /\ pending' = [pending EXCEPT ![s] = Tail(@)]
  /\ callback' = [callback EXCEPT ![s] = "run"]
  /\ handled' = [handled EXCEPT ![s] = Append(@, Head(pending[s]))]
  /\ UNCHANGED <<closed, subs, live, cancelled, feed, closers>>

\* Under subsMu: drop the message, or count the handler and run it.
Enter(s) ==
  /\ callback[s] = "lock"
  /\ pending' = [pending EXCEPT ![s] = Tail(@)]
  /\ \/ /\ ~closed /\ callback' = [callback EXCEPT ![s] = "run"]
        /\ handled' = [handled EXCEPT ![s] = Append(@, Head(pending[s]))]
     \/ closed /\ callback' = [callback EXCEPT ![s] = "idle"] /\ UNCHANGED handled
  /\ UNCHANGED <<closed, subs, live, cancelled, feed, closers>>

\* The handler returns, fails or panics: all are logged at most.
HandlerEnds(s) ==
  /\ callback[s] = "run" /\ callback' = [callback EXCEPT ![s] = "idle"]
  /\ UNCHANGED <<closed, subs, live, cancelled, feed, pending, handled, closers>>

CloseBegins(c) ==
  /\ closers[c] = "idle" /\ closed' = TRUE
  /\ closers' = [closers EXCEPT ![c] = IF closed THEN "again" ELSE "stop"]
  /\ UNCHANGED <<subs, live, cancelled, feed, pending, callback, handled>>

\* Unsubscribe, which drops what the connection holds, and the cancel functions.
CloseStops(c) ==
  /\ closers[c] = "stop" /\ closers' = [closers EXCEPT ![c] = "wait"]
  /\ live' = live \ subs /\ cancelled' = cancelled \cup subs /\ subs' = {}
  /\ UNCHANGED <<closed, feed, pending, callback, handled>>

InFlight == {s \in Sub : callback[s] = "run"}

\* busshutdown.WaitGroup: the handlers are done, or the context is.
CloseReturns(c) ==
  /\ closers[c] = "wait"
  /\ \/ InFlight = {} /\ closers' = [closers EXCEPT ![c] = "nil"]
     \/ closers' = [closers EXCEPT ![c] = "late"]
  /\ UNCHANGED <<closed, subs, live, cancelled, feed, pending, callback, handled>>

Callback(s) == Deliver(s) \/ Enter(s) \/ HandlerEnds(s)
Close(c) == CloseStops(c) \/ CloseReturns(c)

Next ==
  \/ \E m \in Msg : Publish(m)
  \/ \E s \in Sub : Subscribe(s) \/ CallerCancels(s) \/ Callback(s)
  \/ \E c \in Closer : CloseBegins(c) \/ Close(c)

\* Handlers return, the connection delivers, and a Close call goes on.
Fairness ==
  /\ \A s \in Sub : WF_vars(Callback(s))
  /\ \A c \in Closer : WF_vars(Close(c))

Spec == Init /\ [][Next]_vars /\ Fairness

-----------------------------------------------------------------------------
(***************************************************************************)
(* Properties.                                                             *)
(***************************************************************************)
Contract == INSTANCE BusContract WITH
  Invocation <- Sub, running <- InFlight, returned <- \E c \in Closer : closers[c] = "nil"

\* A handler is never running, nor started, once the Close call that closed the
\* bus has returned nil, however callbacks and Subscribe calls race with it.  (A
\* second Close returns nil at once and promises nothing.)
NatsCloseSettles == Contract!Spec

\* A subscription's handler runs for the messages published to it in order, each
\* once and none skipped, until the bus closes.
NatsInOrder == \A s \in Sub : Begins(handled[s], feed[s])

\* On an open bus every message reaches the handler of every subscription, also
\* of one whose caller's context has ended; a closing bus goes quiet.
NatsDelivers ==
  \A s \in Sub : [](Len(handled[s]) < Len(feed[s]) => <>(closed \/ handled[s] = feed[s]))
===============================================================================
