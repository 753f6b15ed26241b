------------------------------ MODULE AgentReview ------------------------------
(***************************************************************************)
(* Reviewing a diff and handing it off: `modulex agent review` and          *)
(* `modulex agent handoff` (tools/agentcli), review_diff and create_handoff  *)
(* (tools/mcpserver) and the CI handoff (tools/provenanceci), over review,   *)
(* agentreview and provenance.                                              *)
(*                                                                         *)
(* A change has the contract of the base ref ("read", "absent" or "broken")  *)
(* and the paths it declares, the changed paths, the edits of CHANGELOG.md   *)
(* and go.mod, and the text of its diff.  An edit is the old and the new     *)
(* lines and the pairs of them git keeps, any common subsequence; a line is  *)
(* its kind.  A text is the set of things in it that some secret pattern     *)
(* matches: "specific" (the high-confidence patterns), "quoted" (review's    *)
(* generic pattern), "loose" (only provenance's).  The base ref is the merge *)
(* base: the branch under review is up to date.                             *)
(***************************************************************************)
EXTENDS Naturals, Sequences, FiniteSets

LOCAL INSTANCE SequencesExt

CONSTANTS
  Reviews,   \* reviews: a command, a change and which refs resolve
  Supplied,  \* sequences of results an MCP client puts into a handoff
  Jobs       \* sequences of CI job results

VARIABLES
  command,    \* "review", "handoff", "review_diff", "create_handoff" or "ci"
  change,     \* what is under review
  refs,       \* "good", or which of the refs does not resolve: "base", "head"
  protected,  \* the protected paths, as loaded
  results,    \* the results so far
  envelope,   \* the assembled envelope's results: none or one sequence of them
  code,       \* "ok" or "failed", the exit codes 0 and 1; "error" or "invalid" without results
  stage

reviewVars == <<command, change, refs, protected, results, envelope, code, stage>>

\* A handoff of results that were made elsewhere is about no change.
NoChange == [contract |-> "absent", diff |-> <<>>]

Secrets == {"specific", "quoted", "loose"}

\* One VerificationResult: its check, status, Message and whether there is a Reason.
Result(check, status, message, reason) ==
  [check |-> check, status |-> status, message |-> message, reason |-> reason]

(***************************************************************************)
(* Protected paths.  A pattern and a path are sequences of segments; "["    *)
(* stands for a segment that path.Match rejects.                            *)
(***************************************************************************)
Contract == <<"modulex.agent.yaml">>
Changelog == <<"CHANGELOG.md">>
GoMod == <<"go.mod">>

\* The declared paths, with the contract's own; none where there is no contract.
LoadProtectedPathsAtRef ==
  IF change.contract = "absent" THEN {} ELSE change.declared \cup {Contract}

ValidGlob(pattern) == \A i \in DOMAIN pattern : pattern[i] # "["

\* path.Match of one segment.
MatchSegment(pattern, name) == pattern = "*" \/ pattern = name

RECURSIVE matchPathSegments(_, _)
matchPathSegments(pattern, name) ==
  CASE pattern = <<>> -> name = <<>>
    [] pattern # <<>> /\ Head(pattern) = "**" ->
         \/ Len(pattern) = 1
         \/ \E i \in 1 .. Len(name) + 1 :
              matchPathSegments(Tail(pattern), SubSeq(name, i, Len(name)))
    [] OTHER -> /\ name # <<>> /\ MatchSegment(Head(pattern), Head(name))
                /\ matchPathSegments(Tail(pattern), Tail(name))

\* The hunks of `git diff --unified=0`: what lies between two kept lines.  The start of
\* an empty side is the line before it.
Hunks(edit) ==
  LET ends == << <<0, 0>> >> \o edit.kept \o << <<Len(edit.old) + 1, Len(edit.new) + 1>> >>
      Side(k, s) == LET count == ends[k + 1][s] - ends[k][s] - 1 IN
        [start |-> IF count = 0 THEN ends[k][s] ELSE ends[k][s] + 1, count |-> count]
  IN  {h \in {[old |-> Side(k, 1), new |-> Side(k, 2)] : k \in 1 .. Len(ends) - 1} :
         h.old.count + h.new.count > 0}

\* Mutant: the next version header is taken for a line of the section.
unreleasedSectionThrough(lines) ==
  LET headers == {i \in DOMAIN lines : lines[i] = "unreleased"} IN
  IF headers = {} THEN <<0, 0>>
  ELSE LET first == CHOOSE i \in headers : \A j \in headers : i <= j
           next == {j \in first + 1 .. Len(lines) : lines[j] \in {"unreleased", "version"}} IN
       <<first, IF next = {} THEN Len(lines) ELSE CHOOSE i \in next : \A j \in next : i <= j>>

\* From the Unreleased header to the line before the next version header; <<0, 0>> if none.
unreleasedSectionRange(lines) ==
  LET headers == {i \in DOMAIN lines : lines[i] = "unreleased"} IN
  IF headers = {} THEN <<0, 0>>
  ELSE LET first == CHOOSE i \in headers : \A j \in headers : i <= j
           next == {j \in first + 1 .. Len(lines) : lines[j] \in {"unreleased", "version"}} IN
       <<first, IF next = {} THEN Len(lines) ELSE (CHOOSE i \in next : \A j \in next : i <= j) - 1>>

rangeWithin(side, range) ==
  \/ side.count = 0
  \/ range # <<0, 0>> /\ side.start >= range[1] /\ side.start + side.count - 1 <= range[2]

changelogEditIsWithinUnreleased(edit) ==
  \A h \in Hunks(edit) : /\ rangeWithin(h.old, unreleasedSectionRange(edit.old))
                         /\ rangeWithin(h.new, unreleasedSectionRange(edit.new))

\* The loop over the lines: a retract line, or a block from its opening line to the
\* next closing one.  An opened block that is never closed has no range.
retractLineRanges(lines) ==
  FoldLeft(LAMBDA st, i :
             IF st.start > 0
               THEN IF lines[i] = "close"
                      THEN [start |-> 0, ranges |-> st.ranges \cup {<<st.start, i>>}] ELSE st
             ELSE IF lines[i] = "retract (" THEN [st EXCEPT !.start = i]
             ELSE IF lines[i] = "retract" THEN [st EXCEPT !.ranges = @ \cup {<<i, i>>}]
             ELSE st,
           [start |-> 0, ranges |-> {}], [i \in DOMAIN lines |-> i]).ranges

rangeIntersectsAny(side, ranges) ==
  /\ side.count > 0
  /\ \E r \in ranges : side.start <= r[2] /\ side.start + side.count - 1 >= r[1]

goModEditTouchesOnlyNonRetractLines(edit) ==
  \A h \in Hunks(edit) : /\ ~rangeIntersectsAny(h.old, retractLineRanges(edit.old))
                         /\ ~rangeIntersectsAny(h.new, retractLineRanges(edit.new))

\* A file that is new or deleted cannot be read at both refs: no exception for it.
fileExceptionApplies(file) ==
  \/ file = Changelog /\ change.changelog.both /\ changelogEditIsWithinUnreleased(change.changelog)
  \/ file = GoMod /\ change.gomod.both /\ goModEditTouchesOnlyNonRetractLines(change.gomod)

Hit(file) ==
  /\ \E pattern \in protected : ValidGlob(pattern) /\ matchPathSegments(pattern, file)
  /\ ~fileExceptionApplies(file)

CheckProtectedPaths ==
  LET bad == \E pattern \in protected : ~ValidGlob(pattern) IN
  IF protected = {} THEN Result("protected", "pass", {}, TRUE)
  ELSE IF refs # "good" THEN Result("protected", "unavailable", {}, TRUE)
  ELSE IF bad \/ \E file \in change.files : Hit(file) THEN Result("protected", "fail", {}, FALSE)
  ELSE Result("protected", "pass", {}, FALSE)

(***************************************************************************)
(* The secret scan.  The diff is a sequence of output lines of git: file     *)
(* headers, hunk headers, removed and added lines, and the remark that a     *)
(* side has no newline at its end.                                          *)
(***************************************************************************)
HunkText(h) ==
  << [mark |-> "@@", old |-> h.old, start |-> h.start, new |-> Len(h.new)] >>
    \o [i \in 1 .. h.old |-> [mark |-> "-"]]
    \o (IF h.oldOpen THEN << [mark |-> "\\"] >> ELSE <<>>)
    \o [i \in DOMAIN h.new |-> [mark |-> "+", text |-> h.new[i]]]
    \o (IF h.newOpen THEN << [mark |-> "\\"] >> ELSE <<>>)

gitDiff(files) ==
  FlattenSeq([k \in DOMAIN files |->
    << [mark |-> "+++", file |-> files[k].name] >>
      \o FlattenSeq([i \in DOMAIN files[k].hunks |-> HunkText(files[k].hunks[i])])])

\* An added line that begins with "++ " looks like a file header.
FileHeader(line) == line.mark = "+++" \/ (line.mark = "+" /\ line.text.header)

\* Mutant: body lines are told from headers by how they begin.
ScanLineByPrefix(st, line) ==
  IF FileHeader(line) THEN [st EXCEPT !.file = IF line.mark = "+++" THEN line.file ELSE "text"]
  ELSE IF line.mark = "@@" THEN [st EXCEPT !.next = line.start]
  ELSE IF line.mark = "+"
    THEN [st EXCEPT !.next = @ + 1,
            !.out = IF st.file \in {"", "/dev/null"} THEN @
                    ELSE @ \cup {[file |-> st.file, line |-> st.next, text |-> line.text]}]
  ELSE st

\* One turn of addedLines' loop: a hunk header is followed by as many body lines as it
\* counts, whatever they look like.
ScanLine(st, line) ==
  IF st.left > 0
    THEN IF line.mark # "+" THEN [st EXCEPT !.left = @ - 1]
         ELSE [st EXCEPT !.left = @ - 1, !.next = @ + 1,
                 !.out = IF st.file \in {"", "/dev/null"} THEN @
                         ELSE @ \cup {[file |-> st.file, line |-> st.next, text |-> line.text]}]
  ELSE IF FileHeader(line)
    THEN [st EXCEPT !.file = IF line.mark = "+++" THEN line.file ELSE "text"]
  ELSE IF line.mark = "@@" THEN [st EXCEPT !.left = line.old + line.new, !.next = line.start]
  ELSE st

addedLines(diff) ==
  FoldLeft(ScanLine, [file |-> "", left |-> 0, next |-> 0, out |-> {}], diff).out

\* What is left of a line, and whether anything was replaced.
redactLine(text) == text.holds \ {"specific", "quoted"}
Found(text) == text.holds \cap {"specific", "quoted"} # {} /\ ~text.nosecret

ScanSecrets ==
  LET findings == {l \in addedLines(gitDiff(change.diff)) : Found(l.text)} IN
  IF refs # "good" THEN Result("secrets", "unavailable", {}, TRUE)
  ELSE IF findings = {} THEN Result("secrets", "pass", {}, FALSE)
  ELSE Result("secrets", "fail", UNION {redactLine(l.text) : l \in findings}, FALSE)

(***************************************************************************)
(* The envelope.                                                           *)
(***************************************************************************)
\* Mutant: with the patterns of the diff scan.
RedactHighConfidence(rs) == [i \in DOMAIN rs |-> [rs[i] EXCEPT !.message = @ \ {"specific"}]]

\* Redact replaces what any of provenance's patterns matches, in every free-text field.
Redact(rs) == [i \in DOMAIN rs |-> [rs[i] EXCEPT !.message = @ \ Secrets]]

\* Validate, for the results: the rest of the envelope is as the caller filled it in.
Valid(rs) ==
  \A i \in DOMAIN rs : /\ rs[i].status \in {"skipped", "unavailable"} => rs[i].reason
                       /\ rs[i].message \cap Secrets = {}

jobResultToVerification(job) ==
  CASE job = "success" -> Result("job", "pass", {}, FALSE)
    [] job = "skipped" -> Result("job", "skipped", {}, TRUE)
    [] job = "failure" -> Result("job", "fail", {}, FALSE)
    [] OTHER -> Result("job", "fail", {}, TRUE)

(***************************************************************************)
(* The commands.                                                           *)
(***************************************************************************)
Begins(results0, stage0) ==
  /\ results = results0 /\ stage = stage0
  /\ protected = {} /\ envelope = {} /\ code = "ok"

\* create_handoff and the CI handoff are given results and no change.
Given(results0) == change = NoChange /\ refs = "good" /\ Begins(results0, "envelope")

buildHandoffEnvelope == command = "create_handoff" /\ \E rs \in Supplied : Given(rs)

BuildEnvelope ==
  /\ command = "ci"
  /\ \E jobs \in Jobs : Given([i \in DOMAIN jobs |-> jobResultToVerification(jobs[i])])

Init ==
  \/ \E r \in Reviews : /\ command = r.command /\ change = r.change /\ refs = r.refs
                         /\ Begins(<<>>, "load")
  \/ buildHandoffEnvelope
  \/ BuildEnvelope

Step(from, to) == stage = from /\ stage' = to /\ UNCHANGED <<command, change, refs>>

Fails == code' = "error" /\ stage' = "done"

\* The contract is read at the base ref, before any check.
Loads(policy) ==
  /\ stage = "load" /\ stage' = "checks" /\ protected' = policy
  /\ UNCHANGED <<command, change, refs, results, envelope, code>>

LoadFails ==
  /\ stage = "load" /\ Fails
  /\ UNCHANGED <<command, change, refs, protected, results, envelope>>

Readable == refs # "base" /\ change.contract # "broken"

\* The CLI goes no further without policy.
loadProtectedPaths ==
  /\ command \in {"review", "handoff"}
  /\ \/ Readable /\ Loads(LoadProtectedPathsAtRef)
     \/ ~Readable /\ LoadFails

\* review_diff goes on without protected paths unless the contract is there and broken.
reviewDiff ==
  /\ command = "review_diff"
  /\ \/ Readable /\ Loads(LoadProtectedPathsAtRef)
     \/ refs = "base" /\ Loads({})
     \/ refs # "base" /\ change.contract = "broken" /\ LoadFails

\* verify.Run of review.Checks: every one passes, or one does not; make's output is
\* free text.
RunChecks ==
  /\ Step("checks", "secrets")
  /\ \E status \in {"pass", "fail", "unavailable"}, message \in {{}, {"loose"}} :
       /\ status = "unavailable" => message = {}
       /\ results' = << Result("make", status, message, status = "unavailable") >>
  /\ UNCHANGED <<protected, envelope, code>>

Scan ==
  /\ Step("secrets", "protected")
  /\ results' = Append(results, ScanSecrets) /\ UNCHANGED <<protected, envelope, code>>

CheckPaths ==
  /\ Step("protected", IF command = "handoff" THEN "envelope" ELSE "return")
  /\ results' = Append(results, CheckProtectedPaths) /\ UNCHANGED <<protected, envelope, code>>

\* Redact, then Validate; a validation error leaves no envelope.
Envelope ==
  /\ stage = "envelope"
  /\ IF Valid(Redact(results))
       THEN envelope' = {Redact(results)} /\ stage' = "return" /\ UNCHANGED code
       ELSE code' = "invalid" /\ stage' = "done" /\ UNCHANGED envelope
  /\ UNCHANGED <<command, change, refs, protected, results>>

\* git cannot resolve HEAD, or CI gave no commit.
EnvelopeFails ==
  /\ stage = "envelope" /\ Fails
  /\ UNCHANGED <<command, change, refs, protected, results, envelope>>

exitOnFailedChecks(rs) == IF \E i \in DOMAIN rs : rs[i].status = "fail" THEN "failed" ELSE "ok"

Returns(of, verdict) ==
  /\ command \in of /\ Step("return", "done") /\ code' = verdict
  /\ UNCHANGED <<protected, results, envelope>>

runReview == Returns({"review"}, exitOnFailedChecks(results))

runHandoff == Returns({"handoff"}, exitOnFailedChecks(CHOOSE sent \in envelope : TRUE))

\* A tool of the MCP server answers, and the CI handoff is written, whatever the results.
Answer == Returns({"review_diff", "create_handoff", "ci"}, "ok")

Next ==
  \/ loadProtectedPaths \/ reviewDiff
  \/ RunChecks \/ Scan \/ CheckPaths
  \/ Envelope \/ EnvelopeFails
  \/ runReview \/ runHandoff \/ Answer

(***************************************************************************)
(* Properties.                                                             *)
(***************************************************************************)
SubsequenceOf(s, t) ==
  \E at \in [DOMAIN s -> DOMAIN t] :
    \A i \in DOMAIN s : s[i] = t[at[i]] /\ (i > 1 => at[i - 1] < at[i])

\* The lines of a CHANGELOG.md that are not in its first Unreleased section, by what
\* comes before a line: no Unreleased header, or another header since the first one.
Released(lines) ==
  LET Header(j) == lines[j] \in {"unreleased", "version"}
      First(j) == lines[j] = "unreleased" /\ \A k \in 1 .. j - 1 : lines[k] # "unreleased"
      Within(i) == \E j \in 1 .. i : First(j) /\ \A k \in j + 1 .. i : ~Header(k)
  IN  SelectSeq([i \in DOMAIN lines |-> <<i, lines[i]>>], LAMBDA l : ~Within(l[1]))

\* The lines of a go.mod that are of a retract directive.
Retracts(lines) ==
  LET Open(j, i) == lines[j] = "retract (" /\ \A k \in j + 1 .. i - 1 : lines[k] # "close"
      Within(i) == lines[i] = "retract" \/ \E j \in 1 .. i : Open(j, i)
  IN  SelectSeq([i \in DOMAIN lines |-> <<i, lines[i]>>], LAMBDA l : Within(l[1]))

Lines(numbered) == [i \in DOMAIN numbered |-> numbered[i][2]]

\* Some choice of how much each ** stands for makes pattern and path the same length
\* and equal segment by segment.
Matches(pattern, path) ==
  \E at \in [DOMAIN pattern -> 0 .. Len(path)] :
    LET from(i) == IF i = 1 THEN 0 ELSE at[i - 1] IN
    /\ pattern = <<>> => path = <<>>
    /\ pattern # <<>> => at[Len(pattern)] = Len(path)
    /\ \A i \in DOMAIN pattern :
         IF pattern[i] = "**" THEN at[i] >= from(i)
         ELSE at[i] = from(i) + 1 /\ MatchSegment(pattern[i], path[at[i]])

Verdict(check) == CHOOSE r \in Range(results) : r.check = check
Reviewing == command \in {"review", "handoff", "review_diff"}
Judged == Reviewing /\ Len(results) = 3

\* A pass of the protected-paths check: the refs resolve and every pattern can be
\* enforced, no protected file has changed but a CHANGELOG.md that keeps every released
\* line and gains none, and a go.mod that keeps its retract directives, and the contract
\* that judges the change is not part of it.
PassProtects ==
  Judged /\ Verdict("protected").status = "pass" /\ protected # {} =>
    /\ refs = "good" /\ Contract \notin change.files
    /\ \A pattern \in change.declared :
         /\ ValidGlob(pattern)
         /\ \A file \in change.files : Matches(pattern, file) =>
              \/ /\ file = Changelog
                 /\ SubsequenceOf(Lines(Released(change.changelog.old)), change.changelog.new)
                 /\ SubsequenceOf(Lines(Released(change.changelog.new)), change.changelog.old)
              \/ /\ file = GoMod
                 /\ Lines(Retracts(change.gomod.old)) = Lines(Retracts(change.gomod.new))

\* Policy that cannot be read is no review for the CLI, and a contract that cannot be
\* parsed is none for any caller; where there is a contract, something is protected.
FailsClosed ==
  Judged => /\ refs # "base" => change.contract # "broken"
            /\ command # "review_diff" => refs # "base"
            /\ refs # "base" /\ change.contract # "absent" => protected # {}

\* The added lines of a change, with their files and new line numbers.
Added(files) ==
  UNION {UNION {{[file |-> f.name, line |-> h.start + i - 1, text |-> h.new[i]] :
                   i \in DOMAIN h.new} : h \in Range(f.hunks)} : f \in Range(files)}

\* addedLines finds every added line, in its file and at its number, and nothing else.
AddedLinesComplete ==
  Reviewing /\ stage = "protected" => addedLines(gitDiff(change.diff)) = Added(change.diff)

\* The verdict of the scan is about the added lines, and its message holds nothing that
\* the scan itself recognises.
ScanTruthful ==
  Judged /\ refs = "good" =>
    /\ Verdict("secrets").status = "fail" <=> \E l \in Added(change.diff) : Found(l.text)
    /\ Verdict("secrets").message \cap {"specific", "quoted"} = {}

\* An envelope has every result it was given with its status, no secret-shaped text and
\* a reason for what was skipped or unavailable; the results of a review or of CI jobs
\* never fail validation.
HandoffHonest ==
  /\ \A sent \in envelope :
       /\ Len(sent) = Len(results)
       /\ \A i \in DOMAIN results :
            /\ sent[i].status = results[i].status /\ sent[i].message \cap Secrets = {}
            /\ sent[i].status \in {"skipped", "unavailable"} => sent[i].reason
  /\ command \in {"handoff", "ci"} => code # "invalid"

\* A review or a handoff of the CLI exits with 0 only if no check failed.
ZeroMeansNoFailure ==
  stage = "done" /\ code = "ok" /\ command \in {"review", "handoff"} =>
    \A r \in Range(results) : r.status # "fail"
===============================================================================
