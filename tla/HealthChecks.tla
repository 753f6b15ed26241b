------------------------------ MODULE HealthChecks ------------------------------
(***************************************************************************)
(* The evaluation of health checks: httpx.runChecks behind HealthHandler    *)
(* and ReadinessHandler, and HealthServer.evaluateChecks behind the gRPC    *)
(* Check and Watch.  Every check runs in a goroutine of its own and enters  *)
(* its result under a mutex; what a check would answer changes over time.   *)
(***************************************************************************)
EXTENDS Naturals, Sequences

CONSTANTS
  Check,    \* the registered checks
  MaxFlips  \* bound: changes of what a check answers

\* A nil function, an error, a panic and a check that its timeout ends all fail.
Answer == {"ok", "nil", "error", "panic", "timeout"}

VARIABLES
  api,      \* "http" (one request), "check" or "watch"
  known,    \* the service asked for is one of the two
  truth,    \* what each check answers now
  pc,       \* "ask", "start", "run", "respond", "tick" or "over"
  pend,     \* goroutines that have not entered their result
  results,  \* checks with a result that failed, and that passed
  healthy,  \* allOK or healthy
  seen,     \* history: what each check answered in this evaluation
  sent,     \* responses: TRUE for serving
  flips

healthVars == <<api, known, truth, pc, pend, results, healthy, seen, sent, flips>>

HealthTypeOK ==
  /\ api \in {"http", "check", "watch"} /\ known \in BOOLEAN /\ truth \in [Check -> Answer]
  /\ pc \in {"ask", "start", "run", "respond", "tick", "over"}
  /\ pend \subseteq Check /\ healthy \in BOOLEAN /\ seen \in [Check -> Answer \cup {"none"}]
  /\ pc = "run" => results.failed \cup results.passed = Check \ pend
  /\ sent \in Seq(BOOLEAN) /\ (api # "watch" => Len(sent) <= 1) /\ flips \in 0..MaxFlips

NoResults == [failed |-> {}, passed |-> {}]

Init ==
  /\ api \in {"http", "check", "watch"} /\ known \in BOOLEAN /\ (api = "http" => known)
  /\ truth \in [Check -> Answer] /\ pc = "ask" /\ pend = {} /\ results = NoResults
  /\ healthy = TRUE /\ seen = [c \in Check |-> "none"] /\ sent = <<>> /\ flips = 0

\* checksFor: a service that is not known is NotFound.
ChecksFor ==
  /\ pc = "ask" /\ pc' = IF known THEN "start" ELSE "over"
  /\ UNCHANGED <<api, known, truth, pend, results, healthy, seen, sent, flips>>

Begin ==
  /\ pc = "start" /\ pc' = "run" /\ pend' = Check /\ results' = NoResults /\ healthy' = TRUE
  /\ seen' = [c \in Check |-> "none"]
  /\ UNCHANGED <<api, known, truth, sent, flips>>

Entered(c) == TRUE

Combine(passed) == healthy /\ passed

\* The goroutine of one check.
RunCheck(c) ==
  LET passed == truth[c] = "ok" IN
  /\ pc = "run" /\ c \in pend /\ pend' = pend \ {c}
  /\ seen' = [seen EXCEPT ![c] = truth[c]]
  /\ healthy' = Combine(passed)
  /\ results' = IF ~Entered(c) THEN results
                ELSE IF passed THEN [results EXCEPT !.passed = @ \cup {c}]
                ELSE [results EXCEPT !.failed = @ \cup {c}]
  /\ UNCHANGED <<api, known, truth, pc, sent, flips>>

WaitAll ==
  /\ pc = "run" /\ pend = {} /\ pc' = "respond"
  /\ UNCHANGED <<api, known, truth, pend, results, healthy, seen, sent, flips>>

\* Mutant: Watch sends the first status only.
ChangedOnce == sent = <<>>

\* The status Watch sent last.
LastSent == sent[Len(sent)]

Changed == IF sent = <<>> THEN TRUE ELSE LastSent # healthy

\* writeCheckResponse, Check's answer, or what Watch sends when it has changed; a
\* send that fails ends the stream.
Respond ==
  /\ pc = "respond"
  /\ \/ /\ Changed /\ sent' = Append(sent, healthy)
        /\ pc' = IF api = "watch" THEN "tick" ELSE "over"
     \/ Changed /\ api = "watch" /\ pc' = "over" /\ UNCHANGED sent
     \/ ~Changed /\ pc' = "tick" /\ UNCHANGED sent
  /\ UNCHANGED <<api, known, truth, pend, results, healthy, seen, flips>>

Tick ==
  /\ pc = "tick" /\ pc' = "start"
  /\ UNCHANGED <<api, known, truth, pend, results, healthy, seen, sent, flips>>

StreamDone ==
  /\ pc = "tick" /\ pc' = "over"
  /\ UNCHANGED <<api, known, truth, pend, results, healthy, seen, sent, flips>>

Flip(c, a) ==
  /\ flips < MaxFlips /\ flips' = flips + 1 /\ a # truth[c]
  /\ truth' = [truth EXCEPT ![c] = a]
  /\ UNCHANGED <<api, known, pc, pend, results, healthy, seen, sent>>

Step == ChecksFor \/ Begin \/ WaitAll \/ Respond \/ Tick \/ \E c \in Check : RunCheck(c)

Next == Step \/ StreamDone \/ \E c \in Check, a \in Answer : Flip(c, a)

Spec == Init /\ [][Next]_healthVars

-----------------------------------------------------------------------------
\* The verdict is that of the checks, in whatever order the goroutines end: it is
\* healthy exactly when every check passed in this evaluation, and each check has
\* its result, a panicking and a nil one included.
HealthTruthful ==
  pc = "respond" =>
    /\ healthy = \A c \in Check : seen[c] = "ok"
    /\ results = [failed |-> {c \in Check : seen[c] # "ok"}, passed |-> {c \in Check : seen[c] = "ok"}]

\* Watch sends a status only when it changes.
WatchAlternates == \A i \in 1..(Len(sent) - 1) : sent[i] # sent[i + 1]

\* While Watch waits for its ticker, its client has the status it last found.
WatchCurrent == pc = "tick" => sent # <<>> /\ LastSent = \A c \in Check : seen[c] = "ok"

\* Every verdict on health is that of all the checks, in whatever order their
\* goroutines end and however they fail, and Watch sends its client each change of it
\* once.
HealthSound == HealthTypeOK /\ HealthTruthful /\ WatchAlternates /\ WatchCurrent

\* A stream that stays open comes to tell its client the status the checks have
\* once they stop changing.
WatchConverges ==
  <>[](pc = "over" \/ (sent # <<>> /\ LastSent = \A c \in Check : truth[c] = "ok"))
===============================================================================
