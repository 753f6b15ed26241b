------------------------------ MODULE ReviewService ------------------------------
(***************************************************************************)
(* The review service in three parts that meet at the queue and the store:  *)
(* the workers of one pull request, one document under concurrent store     *)
(* calls, and the receiver.                                                 *)
(***************************************************************************)
CONSTANTS
  Worker, MaxPush, WorkerFaults, MaxFaults, Nobody, Orphan,
  Client, MaxAttempts, MaxErrors,
  Body, Reviewed, Inst, InstOf, Webhook, Limit, Window, DedupTTL, MaxTime, IntakeFaults

VARIABLES
  head, tasks, job, wk, comments, ledger, faults, regressed,
  backend, op, doc, lock, tx, out, errors,
  clock, dedup, counts, lastSweep, calls, acked, queued, granted, dropped, intakeFaults

workerVars == <<head, tasks, job, wk, comments, ledger, faults, regressed>>
txnVars == <<backend, op, doc, lock, tx, out, errors>>
intakeVars == <<clock, dedup, counts, lastSweep, calls, acked, queued, granted, dropped, intakeFaults>>

W == INSTANCE ReviewWorker WITH Faults <- WorkerFaults
T == INSTANCE ReviewTxn
I == INSTANCE ReviewIntake WITH Faults <- IntakeFaults, tasks <- queued, faults <- intakeFaults

(***************************************************************************)
(* Properties, by what the service promises, with the types of each part.    *)
(***************************************************************************)
\* Once the queue is empty and every handler has returned, the head is reviewed and
\* the comment shows it, whatever calls of GitHub, the queue and the ledger failed.
HeadReviewed == W!HeadReviewed

\* "Updates one comment in place" and counts each review once: a further comment or
\* a difference between document and ledger is paid for by a lost answer, a failed
\* store call, a crash or an expired lease.
CommentsAgree == W!WorkerTypeOK /\ W!OneComment /\ W!LedgerAgrees

\* "An older review can never overwrite a newer one", crashes and redeliveries
\* included.
CommentsAdvance == W!CommentsAdvance

\* "Collapse to a single final review", with nothing failing.
FinalReview == W!FinalReview

\* Concurrent calls on one document of each of the three stores have a serial
\* order: no write is lost or applied twice, and Seen calls one delivery the first.
StoresSerialise == T!StoresSerialise

\* A delivery that GitHub was told is handled was enqueued, dropped for a reason or
\* lost by a crash; no body is enqueued twice while remembered; an installation gets
\* its quota and uses up no other's.
IntakeSound ==
  /\ I!IntakeTypeOK
  /\ I!AckedMeansHandled /\ I!EnqueuedOnce /\ I!QuotaBounds /\ I!TenantIsolation
===============================================================================
