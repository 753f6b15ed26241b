------------------------------- MODULE ReviewJob -------------------------------
(***************************************************************************)
(* The job document of one pull request and the decisions on it            *)
(* (services/prreview/store/store.go).  A commit is the number of the push *)
(* that made it the head, 0 for the empty string; a worker's fencing token *)
(* is the worker itself, because it makes a new one for every attempt:     *)
(* a token that no running attempt holds any more is Orphan.  The clock is *)
(* abstracted to "live": is the lease expiry still ahead.                  *)
(***************************************************************************)
EXTENDS Naturals

CONSTANTS Nobody, Orphan   \* the empty token, and one no attempt holds

NoJob == [status |-> "idle", target |-> 0, live |-> FALSE, owner |-> Nobody,
          last |-> 0, comment |-> 0, reviews |-> 0]

IsJob(j, commits, owners) ==
  /\ DOMAIN j = DOMAIN NoJob
  /\ j.status \in {"idle", "running"} /\ j.live \in BOOLEAN
  /\ j.target \in commits /\ j.last \in commits
  /\ j.owner \in owners \cup {Nobody, Orphan}
  /\ j.comment \in Nat /\ j.reviews \in Nat
  /\ (j.status = "running") = (j.owner # Nobody) /\ (j.live => j.status = "running")

Held(j) == j.status = "running" /\ j.live

TargetAfter(j, sha) == IF sha # j.last \/ j.target = 0 THEN sha ELSE j.target

\* The first component is the new document, the second whether to run.
AcquireDecision(j, sha, w) ==
  LET aimed == [j EXCEPT !.target = TargetAfter(j, sha)] IN
  IF Held(j) THEN <<aimed, FALSE>>
  ELSE <<[aimed EXCEPT !.status = "running", !.live = TRUE, !.owner = w], TRUE>>

ReleaseDecision(j, w) ==
  IF j.owner # w THEN j
  ELSE [j EXCEPT !.status = "idle", !.live = FALSE, !.owner = Nobody]

\* Mutant: the ledger fields advance for a superseded review too.
CompleteDecisionAlways(j, sha, w) ==
  IF j.owner # w THEN <<j, FALSE, 0>>
  ELSE <<ReleaseDecision([j EXCEPT !.last = sha, !.reviews = @ + 1], w),
         j.target = sha, 0>>

\* The new document, whether the review counts, and the commit to follow up
\* (0 for none).
CompleteDecision(j, sha, w) ==
  IF j.owner # w THEN <<j, FALSE, 0>>
  ELSE IF j.target = sha
  THEN <<ReleaseDecision([j EXCEPT !.last = sha, !.reviews = @ + 1], w), TRUE, 0>>
  ELSE <<ReleaseDecision(j, w), FALSE, j.target>>

\* The token of an attempt that is over.
Forsaken(j, w) == IF j.owner = w THEN [j EXCEPT !.owner = Orphan] ELSE j
===============================================================================
