------------------------------ MODULE ReviewWorker ------------------------------
(***************************************************************************)
(* The review workers of one pull request (services/prreview/worker): the  *)
(* lease, the re-anchoring on the head GitHub names, the single comment,   *)
(* the completion and the follow-up, over an at-least-once task queue.     *)
(*                                                                         *)
(* One step is one call of the store, of GitHub or of the queue, so that   *)
(* pushes and other workers act between any two.  A task that its handler  *)
(* does not acknowledge is delivered again.                                *)
(***************************************************************************)
EXTENDS ReviewJob, Sequences, FiniteSets, FiniteSetsExt

CONSTANTS
  Worker,     \* handler slots: concurrent requests or consumer loops
  MaxPush,    \* bound: pushes to the pull request
  Faults,     \* what may go wrong, see below
  MaxFaults   \* bound: how often

(***************************************************************************)
(* "github": a token, checkout, engine or comment call fails; "lost": a    *)
(* comment is made but the answer is lost; "queue": a follow-up cannot be  *)
(* enqueued; "ledger": the ledger cannot be written; "store": a document   *)
(* call fails, with or without effect; "head": the head lookup fails;      *)
(* "crash": a worker dies; "slow": a lease expires under a live worker;    *)
(* "redeliver": a task is delivered while its handler still runs.          *)
(***************************************************************************)
Kinds == {"github", "lost", "queue", "ledger", "store", "head", "crash", "slow",
          "redeliver"}

VARIABLES
  head,      \* the pull request's head: the last push
  tasks,     \* the queue: per task its commit and whether it is acknowledged
  job,       \* the job document
  wk,        \* per worker: step, task, commit under review, comment id in hand
  comments,  \* GitHub: the commit that each comment of the App shows
  ledger,    \* reviews recorded in the installation's ledger
  faults,    \* how often each kind went wrong so far
  regressed  \* history: was the target of a running review put back to an older push

vars == <<head, tasks, job, wk, comments, ledger, faults, regressed>>

Idle == [pc |-> "idle", task |-> 0, sha |-> 0, cid |-> 0]

Steps == {"idle", "acquire", "token", "head", "reanchor", "fetch", "review", "check",
          "post", "persist", "complete", "ledger", "follow", "release"}

Commits == 0..MaxPush

At(w, step) == wk[w].pc = step

WorkerTypeOK ==
  /\ head \in Commits
  /\ \A t \in DOMAIN tasks : tasks[t].sha \in 1..MaxPush /\ tasks[t].acked \in BOOLEAN
  /\ IsJob(job, Commits, Worker)
  /\ \A w \in Worker : /\ wk[w].pc \in Steps /\ wk[w].task \in 0..Len(tasks)
                       /\ wk[w].sha \in Commits /\ wk[w].cid \in 0..Len(comments)
  /\ comments \in Seq(Commits) /\ ledger \in Nat
  /\ faults \in [Kinds -> Nat] /\ regressed \in BOOLEAN
  /\ \A w \in Worker : job.owner = w => ~At(w, "idle")

Init ==
  /\ head = 0 /\ tasks = <<>> /\ job = NoJob /\ wk = [w \in Worker |-> Idle]
  /\ comments = <<>> /\ ledger = 0 /\ faults = [k \in Kinds |-> 0] /\ regressed = FALSE

Count(kinds) == MapThenSumSet(LAMBDA k : faults[k], kinds)
Fails(kind) == /\ kind \in Faults /\ Count(Kinds) < MaxFaults
               /\ faults' = [faults EXCEPT ![kind] = @ + 1]
Works == UNCHANGED faults
Happened(kind) == faults[kind] > 0

Goto(w, step) == wk' = [wk EXCEPT ![w].pc = step]

\* Handle returns nil: the task is acknowledged.
Ack(w) == /\ tasks' = [tasks EXCEPT ![wk[w].task].acked = TRUE]
          /\ wk' = [wk EXCEPT ![w] = Idle]

-----------------------------------------------------------------------------
(***************************************************************************)
(* The environment: pushes, the queue, and time.                           *)
(***************************************************************************)
Push ==
  /\ head < MaxPush
  /\ head' = head + 1
  /\ tasks' = Append(tasks, [sha |-> head + 1, acked |-> FALSE])
  /\ UNCHANGED <<job, wk, comments, ledger, faults, regressed>>

InFlight(t) == \E w \in Worker : wk[w].task = t

Deliver(w, t) ==
  /\ At(w, "idle") /\ ~tasks[t].acked
  /\ IF InFlight(t) THEN Fails("redeliver") ELSE Works
  /\ wk' = [wk EXCEPT ![w] = [Idle EXCEPT !.pc = "acquire", !.task = t]]
  /\ UNCHANGED <<head, tasks, job, comments, ledger, regressed>>

LeaseExpires ==
  /\ Held(job)
  /\ IF job.owner = Orphan THEN Works ELSE Fails("slow")
  /\ job' = [job EXCEPT !.live = FALSE]
  /\ UNCHANGED <<head, tasks, wk, comments, ledger, regressed>>

Crash(w) ==
  /\ ~At(w, "idle") /\ Fails("crash")
  /\ wk' = [wk EXCEPT ![w] = Idle]
  /\ job' = Forsaken(job, w)
  /\ UNCHANGED <<head, tasks, comments, ledger, regressed>>

-----------------------------------------------------------------------------
(***************************************************************************)
(* Handle.                                                                 *)
(***************************************************************************)
Mutate(new) == Works /\ job' = new

\* A failed transaction, which may have been committed; the handler goes on
\* to release the lease, or has returned when it does not run yet.
MutateFails(new) == Fails("store") /\ job' \in {job, new}

Acquire(w) ==
  LET sha == tasks[wk[w].task].sha
      d == AcquireDecision(job, sha, w) IN
  /\ At(w, "acquire")
  /\ \/ /\ Mutate(d[1]) /\ d[2]
        /\ wk' = [wk EXCEPT ![w].pc = "token", ![w].sha = d[1].target]
        /\ UNCHANGED tasks
     \/ Mutate(d[1]) /\ ~d[2] /\ Ack(w)
     \/ /\ Fails("store") /\ job' \in {job, Forsaken(d[1], w)}
        /\ wk' = [wk EXCEPT ![w] = Idle] /\ UNCHANGED tasks
  /\ regressed' = (regressed \/ (Held(job) /\ job'.target < job.target))
  /\ UNCHANGED <<head, comments, ledger>>

Local == UNCHANGED <<head, tasks, job, comments, ledger, regressed>>

\* A call that only reads GitHub, or works in the checkout.
Call(w, step, next) ==
  /\ At(w, step)
  /\ \/ Works /\ Goto(w, next)
     \/ Fails("github") /\ Goto(w, "release")
  /\ Local

MintToken(w) == Call(w, "token", "head")

PRHead(w) ==
  /\ At(w, "head")
  /\ \/ Works /\ wk' = [wk EXCEPT ![w].pc = IF head = wk[w].sha THEN "fetch" ELSE "reanchor",
                                  ![w].sha = head]
     \/ Fails("head") /\ Goto(w, "fetch")
  /\ Local

Reanchored(w) == IF job.owner = w THEN [job EXCEPT !.target = wk[w].sha] ELSE job

Reanchor(w) ==
  /\ At(w, "reanchor")
  /\ \/ Mutate(Reanchored(w)) /\ Goto(w, "fetch")
     \/ MutateFails(Reanchored(w)) /\ Goto(w, "release")
  /\ regressed' = (regressed \/ job'.target < job.target)
  /\ UNCHANGED <<head, tasks, comments, ledger>>

Fetch(w) == Call(w, "fetch", "review")
Review(w) == Call(w, "review", "check")

-----------------------------------------------------------------------------
(***************************************************************************)
(* postComment: look, post or update, persist the comment's id.            *)
(***************************************************************************)
MayPost(w) == job.target = wk[w].sha /\ job.owner = w

CheckPost(w) ==
  /\ At(w, "check")
  /\ \/ Works /\ MayPost(w) /\ wk' = [wk EXCEPT ![w].pc = "post", ![w].cid = job.comment]
     \/ Works /\ ~MayPost(w) /\ Goto(w, "complete")
     \/ Fails("store") /\ Goto(w, "release")
  /\ Local

\* Mutant: the comment is composed for the task's commit, not the reviewed one.
UpdateCommentOfTask(w) ==
  /\ At(w, "post") /\ wk[w].cid # 0 /\ Works /\ Goto(w, "complete")
  /\ comments' = [comments EXCEPT ![wk[w].cid] = tasks[wk[w].task].sha]
  /\ UNCHANGED <<head, tasks, job, ledger, regressed>>

UpdateComment(w) ==
  /\ At(w, "post") /\ wk[w].cid # 0
  /\ \/ Works /\ Goto(w, "complete") /\ comments' = [comments EXCEPT ![wk[w].cid] = wk[w].sha]
     \/ Fails("github") /\ Goto(w, "release") /\ UNCHANGED comments
     \/ /\ Fails("lost") /\ Goto(w, "release")
        /\ comments' = [comments EXCEPT ![wk[w].cid] = wk[w].sha]
  /\ UNCHANGED <<head, tasks, job, ledger, regressed>>

CreateComment(w) ==
  /\ At(w, "post") /\ wk[w].cid = 0
  /\ \/ /\ Works /\ comments' = Append(comments, wk[w].sha)
        /\ wk' = [wk EXCEPT ![w].pc = "persist", ![w].cid = Len(comments')]
     \/ Fails("github") /\ Goto(w, "release") /\ UNCHANGED comments
     \/ Fails("lost") /\ Goto(w, "release") /\ comments' = Append(comments, wk[w].sha)
  /\ UNCHANGED <<head, tasks, job, ledger, regressed>>

Persisted(w) == IF job.comment = 0 THEN [job EXCEPT !.comment = wk[w].cid] ELSE job

PersistComment(w) ==
  /\ At(w, "persist")
  /\ \/ Mutate(Persisted(w)) /\ Goto(w, "complete")
     \/ MutateFails(Persisted(w)) /\ Goto(w, "release")
  /\ UNCHANGED <<head, tasks, comments, ledger, regressed>>

-----------------------------------------------------------------------------
(***************************************************************************)
(* complete and releaseLease.                                              *)
(***************************************************************************)
Complete(w) ==
  LET d == CompleteDecision(job, wk[w].sha, w) IN
  /\ At(w, "complete")
  /\ \/ /\ Mutate(d[1]) /\ (d[2] \/ d[3] # 0)
        /\ wk' = [wk EXCEPT ![w].pc = IF d[2] THEN "ledger" ELSE "follow", ![w].sha = d[3]]
        /\ UNCHANGED tasks
     \/ Mutate(d[1]) /\ ~d[2] /\ d[3] = 0 /\ Ack(w)
     \/ MutateFails(d[1]) /\ Goto(w, "release") /\ UNCHANGED tasks
  /\ UNCHANGED <<head, comments, ledger, regressed>>

AddToLedger(w) ==
  /\ At(w, "ledger")
  /\ \/ Works /\ ledger' = ledger + 1
     \/ Fails("ledger") /\ UNCHANGED ledger
  /\ Ack(w)
  /\ UNCHANGED <<head, job, comments, regressed>>

\* Mutant: the follow-up is forgotten.
FollowUpForgotten(w) ==
  /\ At(w, "follow") /\ Works /\ Ack(w)
  /\ UNCHANGED <<head, job, comments, ledger, regressed>>

FollowUp(w) ==
  /\ At(w, "follow")
  /\ \/ /\ Works /\ wk' = [wk EXCEPT ![w] = Idle]
        /\ tasks' = Append([tasks EXCEPT ![wk[w].task].acked = TRUE],
                           [sha |-> wk[w].sha, acked |-> FALSE])
     \/ Fails("queue") /\ Goto(w, "release") /\ UNCHANGED tasks
  /\ UNCHANGED <<head, job, comments, ledger, regressed>>

\* The handler has failed: its task stays in the queue.
ReleaseLease(w) ==
  /\ At(w, "release")
  /\ \/ Mutate(ReleaseDecision(job, w))
     \/ Fails("store") /\ job' \in {Forsaken(job, w), ReleaseDecision(job, w)}
  /\ wk' = [wk EXCEPT ![w] = Idle]
  /\ UNCHANGED <<head, tasks, comments, ledger, regressed>>

-----------------------------------------------------------------------------
Step(w) ==
  \/ Acquire(w) \/ MintToken(w) \/ PRHead(w) \/ Reanchor(w) \/ Fetch(w) \/ Review(w)
  \/ CheckPost(w) \/ UpdateComment(w) \/ CreateComment(w) \/ PersistComment(w)
  \/ Complete(w) \/ AddToLedger(w) \/ FollowUp(w) \/ ReleaseLease(w)

Next ==
  \/ Push
  \/ LeaseExpires
  \/ \E w \in Worker : Step(w)
  \/ \E w \in Worker : Crash(w)
  \/ \E w \in Worker, t \in DOMAIN tasks : Deliver(w, t)

Spec == Init /\ [][Next]_vars

\* A running handler takes its next step; the queue delivers what is unacknowledged.
Fairness ==
  /\ \A w \in Worker : WF_vars(Step(w))
  /\ WF_vars(\E w \in Worker, t \in DOMAIN tasks : ~InFlight(t) /\ Deliver(w, t))

FairSpec == Spec /\ Fairness

-----------------------------------------------------------------------------
(***************************************************************************)
(* Properties.                                                             *)
(***************************************************************************)
Quiet == /\ \A t \in DOMAIN tasks : tasks[t].acked
         /\ \A w \in Worker : At(w, "idle")

\* What can make a push go unreviewed.
Excused == regressed \/ \E k \in {"store", "head", "crash", "slow", "redeliver"} : Happened(k)

\* Once the queue is empty and every handler has returned, the head has been
\* reviewed and the one comment shows it, whatever calls of GitHub, the queue
\* and the ledger failed on the way: the five faults of Excused, and a task or a
\* re-anchoring that moved a running review's target back to an older push, are
\* the only ways to lose one.
HeadReviewed ==
  Quiet /\ ~Excused /\ head # 0 =>
    /\ job.last = head
    /\ job.comment # 0 /\ comments[job.comment] = head

\* "Rapid force-pushes thus collapse to a single final review": the same with no
\* exception, for a run in which nothing fails.
FinalReview == Quiet /\ head # 0 => job.last = head

\* "Updates one comment in place": every comment beyond the first is paid for by
\* a lost answer, a failed persist, a crash or a lease that ran out under its
\* holder.
OneComment ==
  Len(comments) <= 1 + Count({"lost", "store", "crash", "slow"})

\* The document's count and the ledger agree, except for reviews between the two
\* calls, failed ledger calls, crashes, and completions whose answer was lost.
LedgerAgrees ==
  job.reviews = ledger + Cardinality({w \in Worker : At(w, "ledger")})
    \/ \E k \in {"ledger", "crash", "store"} : Happened(k)

\* "An older review can never overwrite a newer one": while no head lookup fails
\* and no lease runs out under its holder, a comment never goes back to an
\* earlier push, crashes and redeliveries included.
CommentsAdvance ==
  [][\A i \in DOMAIN comments : comments'[i] < comments[i] => Happened("head") \/ Happened("slow")]_vars

\* Follow-ups and retries come to an end: once pushes and faults stop, every task
\* is acknowledged and every handler returns.
QueueDrains == <>[]Quiet

===============================================================================
