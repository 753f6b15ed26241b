------------------------------ MODULE ReviewIntake ------------------------------
(***************************************************************************)
(* The webhook receiver (services/prreview/receiver): verification and     *)
(* parsing (webhook), the deduplication record, the per-installation quota *)
(* (ratelimit) and the hand-off to the queue, with GitHub, which delivers  *)
(* again until it is answered with a 2xx.                                  *)
(*                                                                         *)
(* A body is a model value with an installation; what the verdict on a     *)
(* request depends on are the flags of its record.                         *)
(***************************************************************************)
EXTENDS Integers, Sequences, FiniteSets, FiniteSetsExt

CONSTANTS
  Body,       \* webhook bodies: one for each pull_request event
  Reviewed,   \* those whose action is one of reviewedActions
  Inst,       \* installations
  InstOf,     \* the installation that a body names
  Webhook,       \* concurrent requests of one receiver process
  Limit, Window,  \* ratelimit.New; Limit > 0
  DedupTTL,
  Faults,     \* "store", "queue", "ghost", "crash", "answer", "overlap"
  MaxFaults,  \* bound: how often
  MaxTime     \* bound: the clock

Flags == {"post", "readable", "signed", "id", "event", "parses", "action", "complete"}

(***************************************************************************)
(* "ghost": the task is enqueued but the queue's answer is lost; "answer": *)
(* the receiver's answer is; "overlap": GitHub delivers again while an     *)
(* earlier request with the same body still runs.                          *)
(***************************************************************************)
Kinds == {"store", "queue", "ghost", "crash", "answer", "overlap"}

VARIABLES
  clock,
  dedup,      \* per body the expiry of its record, 0 for none
  counts,     \* Limiter.counts: per installation its window, or NoWindow
  lastSweep,  \* Limiter.lastSweep, -Window for the zero time
  calls,      \* per request: step, body, time of its Seen call
  acked,      \* bodies GitHub has a 2xx for
  tasks,      \* history: per body, the Seen times of the tasks enqueued for it
  granted,    \* history: per installation and time, the deliveries Allow accepted
  dropped,    \* history: bodies dropped over quota, with the time
  faults

vars == <<clock, dedup, counts, lastSweep, calls, acked, tasks, granted, dropped, faults>>

NoWindow == [start |-> -1, count |-> 0]
IdleCall == [pc |-> "idle", body |-> CHOOSE b \in Body : TRUE, at |-> 0]

IntakeTypeOK ==
  /\ clock \in 0..MaxTime /\ lastSweep \in -Window..MaxTime
  /\ \A b \in Body : dedup[b] \in 0..(MaxTime + DedupTTL) /\ tasks[b] \in Seq(0..MaxTime)
  /\ \A i \in Inst : counts[i].start \in -1..clock /\ counts[i].count \in 0..Limit
  /\ \A c \in Webhook : /\ calls[c].pc \in {"idle", "seen", "limit", "enqueue", "forget"}
                     /\ calls[c].body \in Body /\ calls[c].at \in 0..clock
  /\ acked \subseteq Body /\ dropped \subseteq Body \X (0..MaxTime)
  /\ faults \in [Kinds -> Nat]

Init ==
  /\ clock = 0 /\ dedup = [b \in Body |-> 0] /\ counts = [i \in Inst |-> NoWindow]
  /\ lastSweep = -Window /\ calls = [c \in Webhook |-> IdleCall]
  /\ acked = {} /\ tasks = [b \in Body |-> <<>>]
  /\ granted = [i \in Inst |-> [t \in 0..MaxTime |-> 0]] /\ dropped = {}
  /\ faults = [k \in Kinds |-> 0]

Fails(kind) == /\ kind \in Faults /\ MapThenSumSet(LAMBDA k : faults[k], Kinds) < MaxFaults
               /\ faults' = [faults EXCEPT ![kind] = @ + 1]
Works == UNCHANGED faults
Happened(kind) == faults[kind] > 0

At(c, step) == calls[c].pc = step
Goto(c, step) == calls' = [calls EXCEPT ![c].pc = step]
Limiter == <<counts, lastSweep, granted, dropped>>

\* The request ends; its answer counts for GitHub when it is a 2xx and arrives.
Answer(c, ok) ==
  /\ calls' = [calls EXCEPT ![c] = IdleCall]
  /\ acked' = IF ok THEN acked \cup {calls[c].body} ELSE acked

-----------------------------------------------------------------------------
(***************************************************************************)
(* webhook.VerifySignature and ParsePullRequestEvent, in ServeHTTP's order. *)
(***************************************************************************)
\* The answer to a request; 202 stands for one that goes on to be deduplicated.
Verdict(r) ==
  IF ~r.post THEN 405
  ELSE IF ~r.readable THEN 400
  ELSE IF ~r.signed THEN 401
  ELSE IF ~r.id THEN 400
  ELSE IF ~r.event THEN 200
  ELSE IF ~r.parses THEN 400
  ELSE IF ~r.action THEN 200
  ELSE IF ~r.complete THEN 400
  ELSE 202

\* What may arrive for b: the event as GitHub sent it, or damaged on the way.
Requests(b) ==
  LET sent == [f \in Flags |-> f # "action" \/ b \in Reviewed]
  IN {sent} \cup {[sent EXCEPT ![f] = FALSE] : f \in {"post", "readable", "signed", "id"}}

\* GitHub delivers b. A request that is refused changes nothing.
Receive(c, b, r) ==
  /\ At(c, "idle") /\ b \notin acked
  /\ IF \E d \in Webhook : ~At(d, "idle") /\ calls[d].body = b THEN Fails("overlap") ELSE Works
  /\ \/ /\ Verdict(r) = 202
        /\ calls' = [calls EXCEPT ![c] = [pc |-> "seen", body |-> b, at |-> clock]]
        /\ UNCHANGED acked
     \/ Verdict(r) = 200 /\ acked' = acked \cup {b} /\ UNCHANGED calls
  /\ UNCHANGED <<clock, dedup, tasks, Limiter>>

-----------------------------------------------------------------------------
(***************************************************************************)
(* ServeHTTP from the deduplication on.                                    *)
(***************************************************************************)
Recorded(b) == clock < dedup[b]

Seen(c) ==
  LET b == calls[c].body IN
  /\ At(c, "seen")
  /\ \/ /\ Works /\ ~Recorded(b)
        /\ dedup' = [dedup EXCEPT ![b] = clock + DedupTTL]
        /\ calls' = [calls EXCEPT ![c].pc = "limit", ![c].at = clock] /\ UNCHANGED acked
     \/ Works /\ Recorded(b) /\ Answer(c, TRUE) /\ UNCHANGED dedup
     \/ Fails("answer") /\ Recorded(b) /\ Answer(c, FALSE) /\ UNCHANGED dedup
     \/ /\ Fails("store") /\ Answer(c, FALSE)
        /\ dedup' \in {dedup, IF Recorded(b) THEN dedup
                              ELSE [dedup EXCEPT ![b] = clock + DedupTTL]}
  /\ UNCHANGED <<clock, tasks, Limiter>>

Expired(w) == clock - w.start >= Window

\* sweepLocked: at most once per window.
Sweep ==
  IF clock - lastSweep < Window THEN counts
  ELSE [i \in Inst |-> IF Expired(counts[i]) THEN NoWindow ELSE counts[i]]

Allows(w) == w.count < Limit

Opened(w) == IF w = NoWindow \/ Expired(w) THEN [start |-> clock, count |-> 0] ELSE w

Allow(c) ==
  LET b == calls[c].body
      i == InstOf[b]
      w == Opened(Sweep[i]) IN
  /\ At(c, "limit")
  /\ lastSweep' = IF clock - lastSweep < Window THEN lastSweep ELSE clock
  /\ \/ /\ Allows(w) /\ counts' = [Sweep EXCEPT ![i] = [w EXCEPT !.count = @ + 1]]
        /\ granted' = [granted EXCEPT ![i][clock] = @ + 1]
        /\ Goto(c, "enqueue") /\ UNCHANGED <<acked, dropped>>
     \/ /\ ~Allows(w) /\ counts' = [Sweep EXCEPT ![i] = w]
        /\ dropped' = dropped \cup {<<b, clock>>}
        /\ Answer(c, TRUE) /\ UNCHANGED granted
  /\ UNCHANGED <<clock, dedup, tasks, faults>>

Enqueue(c) ==
  LET b == calls[c].body
      enqueued == [tasks EXCEPT ![b] = Append(@, calls[c].at)] IN
  /\ At(c, "enqueue")
  /\ \/ Works /\ tasks' = enqueued /\ Answer(c, TRUE)
     \/ Fails("answer") /\ tasks' = enqueued /\ Answer(c, FALSE)
     \/ Fails("queue") /\ UNCHANGED <<tasks, acked>> /\ Goto(c, "forget")
     \/ Fails("ghost") /\ tasks' = enqueued /\ Goto(c, "forget") /\ UNCHANGED acked
  /\ UNCHANGED <<clock, dedup, Limiter>>

\* Mutant: the record outlives a failed enqueue.
ForgetNot(c) ==
  /\ At(c, "forget") /\ Works /\ Answer(c, FALSE) /\ UNCHANGED <<clock, dedup, tasks, Limiter>>

Forget(c) ==
  /\ At(c, "forget")
  /\ \/ Works /\ dedup' = [dedup EXCEPT ![calls[c].body] = 0]
     \/ Fails("store") /\ UNCHANGED dedup
  /\ Answer(c, FALSE)
  /\ UNCHANGED <<clock, tasks, Limiter>>

-----------------------------------------------------------------------------
\* The process dies: its requests are not answered, the limiter starts afresh.
Crash ==
  /\ Fails("crash")
  /\ calls' = [c \in Webhook |-> IdleCall]
  /\ counts' = [i \in Inst |-> NoWindow] /\ lastSweep' = -Window
  /\ UNCHANGED <<clock, dedup, acked, tasks, granted, dropped>>

\* A request ends before its record expires (24 hours).
Tick ==
  /\ clock < MaxTime /\ clock' = clock + 1
  /\ \A c \in Webhook : At(c, "idle") \/ clock + 1 < calls[c].at + DedupTTL
  /\ UNCHANGED <<dedup, calls, acked, tasks, faults, Limiter>>

Next ==
  \/ Tick
  \/ Crash
  \/ \E c \in Webhook : Seen(c) \/ Allow(c) \/ Enqueue(c) \/ Forget(c)
  \/ \E c \in Webhook, b \in Body : \E r \in Requests(b) : Receive(c, b, r)

Spec == Init /\ [][Next]_vars

-----------------------------------------------------------------------------
(***************************************************************************)
(* Properties.                                                             *)
(***************************************************************************)
Running(b) == \E c \in Webhook : ~At(c, "idle") /\ calls[c].body = b

\* A reviewed event that GitHub holds a 2xx for was enqueued or dropped over its
\* installation's quota: a failed enqueue forgets the record before its 500, so
\* the redelivery is not swallowed. (Not so when the process dies between
\* recording and enqueueing, the store errs, or a redelivery overlaps the request
\* whose enqueue then fails.)
AckedMeansHandled ==
  \A b \in acked \cap Reviewed :
    \/ Running(b) \/ tasks[b] # <<>> \/ \E t \in 0..clock : <<b, t>> \in dropped
    \/ \E k \in {"crash", "store", "overlap"} : Happened(k)

\* No event is enqueued twice within the life of a deduplication record, whatever
\* overlaps, fails or dies, unless the queue took a task and reported an error.
EnqueuedOnce ==
  \A b \in Body : \A j, k \in 1..Len(tasks[b]) :
    j < k => tasks[b][k] - tasks[b][j] >= DedupTTL \/ Happened("ghost")

Accepted(i, from, to) == MapThenSumSet(LAMBDA t : granted[i][t], from..to)

\* A fixed window bounds what a sliding one sees: in any time span of one window
\* an installation gets at most twice its quota accepted by one process.
QuotaBounds ==
  \A i \in Inst : \A t \in 0..(MaxTime - Window + 1) :
    Accepted(i, t, t + Window - 1) <= 2 * Limit \/ Happened("crash")

\* A delivery is dropped only when its own installation used its quota up in the
\* window before: no other installation's load drops it.
TenantIsolation ==
  \A d \in dropped :
    LET t == d[2] IN Accepted(InstOf[d[1]], Max({0, t - Window + 1}), t) >= Limit
===============================================================================
