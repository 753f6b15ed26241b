------------------------------ MODULE AgentVerify ------------------------------
(***************************************************************************)
(* `modulex agent verify` (tools/agentcli) and the MCP server's             *)
(* run_verification (tools/mcpserver).  The first plans checks for the      *)
(* changed files (verify.PlanFor), the second is given them; both classify  *)
(* every command (discovery.ClassifyCommand), run those that may be run one *)
(* after the other (verify.Run), and report one result per check.           *)
(*                                                                         *)
(* A path is its directories, its base name and extension, and whether it   *)
(* is plain, that is safe to put into a shell command.  A command is what   *)
(* it runs, its argument and, for `go -C`, the directory it runs in.  The   *)
(* non-consuming look at the approvals file, which only adds a remark to a  *)
(* refused check, is left out.                                              *)
(***************************************************************************)
EXTENDS Naturals, Sequences, FiniteSets

LOCAL INSTANCE SequencesExt
LOCAL INSTANCE FiniteSetsExt

CONSTANTS
  Diffs,       \* sequences of changed paths
  Requests,    \* sequences of checks an MCP client asks for
  Envs,        \* records of tools on PATH, and of the Makefile and make
  Dotted,      \* directory names the rule for `go -C` does not accept: with a dot, say
  CheckNamed,  \* names that begin with check-
  MaxFailures  \* bound: commands that fail by themselves

VARIABLES
  adapter,    \* "cli" or "mcp"
  diff,       \* the changed files
  full,       \* -full
  network,    \* -allow-network, allow_network
  env,        \* the environment
  specs,      \* the checks, in order
  results,    \* the result of each check, or "none"
  runnable,   \* the places in specs of the checks given to verify.Run
  pos,        \* verify.Run's place in runnable
  ran,        \* history: the checks whose command was executed, and how it ended
  failures,   \* commands that have failed by themselves
  canceled,   \* the context is done
  exit,       \* "ok" and "failed" for the exit codes 0 and 1, "error" for 1 without results
  stage

verifyVars == <<adapter, diff, full, network, env, specs, results, runnable, pos, ran,
                failures, canceled, exit, stage>>

(***************************************************************************)
(* Commands, checks and the plan.                                          *)
(***************************************************************************)
Make(target) == [run |-> "make", arg |-> target, in |-> <<>>]
Go(verb, package, dir) == [run |-> verb, arg |-> package, in |-> dir]
Check(name, cmd, tool) == [name |-> name, cmd |-> cmd, tool |-> tool, networked |-> FALSE]
Gate(target, tool) == Check(target, Make(target), tool)

FullGates == <<
  Gate(<<"build">>, "go"), Gate(<<"test">>, "go"), Gate(<<"test", "arch">>, "go"),
  Gate(<<"lint">>, "golangci-lint"), Gate(<<"check", "consumer-boundary">>, "go"),
  Gate(<<"check", "module-boundary">>, "go"), Gate(<<"check", "api-compat">>, "go"),
  Gate(<<"check", "changelog">>, "git") >>

\* The first n directories, or all; the first one alone is topLevelSegment.
Leading(path, n) == SubSeq(path.dirs, 1, IF n < Len(path.dirs) THEN n ELSE Len(path.dirs))
Top(path) == Leading(path, 1)

isWorkflowFile(path) ==
  Leading(path, 2) = <<".github", "workflows">> /\ path.ext \in {"yml", "yaml"}

\* The name after scripts/ begins with check-, be it a file's or a directory's.
isCheckScript(path) ==
  /\ Top(path) = <<"scripts">> /\ path.ext = "sh"
  /\ Append(path.dirs, path.base)[2] \in CheckNamed

nestedModuleDir(path) ==
  IF Len(path.dirs) >= 2 /\ (path.dirs[1] \in {"tools", "services"}
                             \/ Leading(path, 2) = <<"examples", "external-consumer">>)
    THEN Leading(path, 2) ELSE <<>>

\* The go test and go vet pair of a package, and of a nested module.
TestAndVet(name, package, dir) ==
  << Check(<<"test">> \o name, Go("go test", package, dir), "go"),
     Check(<<"vet">> \o name, Go("go vet", package, dir), "go") >>

nestedModuleChecks(dir) == TestAndVet(dir, <<"...">>, dir)

\* An unmapped change recommends every gate.
fallbackToFullGates == FullGates

isPathSafeForCommand(path) == path.plain

focusedChecksForExample(path) ==
  LET build == << Check(<<"build", "examples">>, Go("go build", <<"examples", "...">>, <<>>), "go") >>
      dir == Leading(path, 2) IN
  CASE nestedModuleDir(path) # <<>> -> build \o nestedModuleChecks(nestedModuleDir(path))
    [] nestedModuleDir(path) = <<>> /\ Len(path.dirs) >= 2 ->
         Append(build, TestAndVet(dir, Append(dir, "..."), <<>>)[1])
    [] OTHER -> build

focusedChecksForGoFile(path) ==
  CASE nestedModuleDir(path) # <<>> -> nestedModuleChecks(nestedModuleDir(path))
    [] nestedModuleDir(path) = <<>> /\ Top(path) \in {<<"tools">>, <<"services">>} -> fallbackToFullGates
    [] path.dirs = <<>> -> TestAndVet(<<"root">>, <<".">>, <<>>)
    [] OTHER -> TestAndVet(Top(path), Append(Top(path), "..."), <<>>)

\* The first rule that matches; what no rule knows falls back to the full gates.
focusedChecksForFile(path) ==
  IF ~isPathSafeForCommand(path) THEN fallbackToFullGates
  ELSE IF isWorkflowFile(path) THEN <<>>
  ELSE IF isCheckScript(path)
    THEN << Check(Append(path.dirs, path.base),
                  [run |-> "script", arg |-> Append(path.dirs, path.base), in |-> <<>>], "") >>
  ELSE IF Top(path) = <<"examples">> THEN focusedChecksForExample(path)
  ELSE IF path.dirs = <<>> /\ path.base \in {"go.mod", "go.sum"}
    THEN << FullGates[7], Check(<<"go-mod-verify">>, Go("go mod verify", <<>>, <<>>), "go") >>
  ELSE IF path.dirs = <<>> /\ path.base = "CHANGELOG.md" THEN << FullGates[8] >>
  ELSE IF path.ext = "go" THEN focusedChecksForGoFile(path)
  ELSE IF nestedModuleDir(path) # <<>> THEN nestedModuleChecks(nestedModuleDir(path))
  ELSE fallbackToFullGates

\* The order of the sorted list stands for that of the names.
dedupeAndSort(checks) == FoldSet(LAMBDA c, seq : Append(seq, c), <<>>, Range(checks))

PlanFor(changed) ==
  dedupeAndSort(FlattenSeq([i \in DOMAIN changed |-> focusedChecksForFile(changed[i])]))

\* verify -full adds the gates whose names the focused checks do not have.
SpecsFor(changed, gates) ==
  LET focused == PlanFor(changed)
      seen == {focused[i].name : i \in DOMAIN focused} IN
  focused \o SelectSeq(FullGates, LAMBDA g : gates /\ g.name \notin seen)

(***************************************************************************)
(* discovery.ClassifyCommand, for the commands that occur here.            *)
(***************************************************************************)
PlainDir(dir) == \A i \in DOMAIN dir : dir[i] \notin Dotted

unsafeGitReadOnlyArg(arg) == arg \in {"-o", "-O", "-c", "--output", "--ext-diff"}

\* The table: a class, and whether the rule matches.
ClassificationRules(cmd) ==
  LET MakeOf(targets) == cmd.run = "make" /\ cmd.arg \in targets IN <<
  <<"safe", /\ cmd.run \in {"git status", "git diff"}
            /\ \A i \in DOMAIN cmd.arg : ~unsafeGitReadOnlyArg(cmd.arg[i])>>,
  <<"destructive", cmd.run = "git reset --hard">>,
  <<"approval_required", cmd.run = "git push">>,
  <<"mutating", cmd.run = "git commit">>,
  <<"safe", cmd.run \in {"go build", "go vet", "go test"} /\ PlainDir(cmd.in)>>,
  <<"safe", cmd.run = "go mod verify">>,
  <<"networked", cmd.run = "go mod download">>,
  <<"safe", cmd.run = "script" /\ Len(cmd.arg) = 2>>,
  <<"mutating", MakeOf({<<"fmt">>})>>,
  <<"networked", MakeOf({<<"deps">>, <<"vuln">>})>>,
  <<"approval_required", MakeOf({<<"release">>, <<"publish-godev">>})>>,
  <<"safe", \/ MakeOf({<<"build">>, <<"test">>, <<"test", "arch">>, <<"lint">>, <<"help">>})
            \/ cmd.run = "make" /\ cmd.arg[1] = "check">> >>

\* The first rule that matches; no rule, or a command that the shell would take apart
\* ("chained"), requires approval.
ClassifyCommand(cmd) ==
  LET rules == SelectSeq(ClassificationRules(cmd), LAMBDA r : r[2]) IN
  IF cmd.run = "chained" \/ rules = <<>> THEN "approval_required" ELSE rules[1][1]

Blocked(cmd) == ClassifyCommand(cmd) \in {"mutating", "destructive", "approval_required"}

(***************************************************************************)
(* verify.Run                                                              *)
(***************************************************************************)
\* A make target that cannot exist here, or that nothing can run.
missingMakeTarget(cmd) ==
  /\ cmd.run = "make"
  /\ env.makefile = "none" \/ ~env.make \/ (env.makefile = "other" /\ ~canceled)

\* Why runOne does not run a check, or "run".
Declines(c) ==
  IF c.tool # "" /\ c.tool \notin env.tools THEN "unavailable"
  ELSE IF c.networked /\ ~network THEN "skipped"
  ELSE IF missingMakeTarget(c.cmd) THEN "unavailable"
  ELSE "run"

\* Mutant: the results of verify.Run are stored as it numbers them.
RecordInOrder(status) ==
  /\ results' = [results EXCEPT ![pos] = status]
  /\ pos' = pos + 1

\* results[runnableIdx[i]] = r
Record(status) ==
  /\ results' = [results EXCEPT ![runnable[pos]] = status]
  /\ pos' = pos + 1

runOne ==
  /\ stage = "run" /\ pos <= Len(runnable)
  /\ LET c == specs[runnable[pos]] IN
       \/ Declines(c) # "run" /\ Record(Declines(c)) /\ UNCHANGED <<ran, failures>>
       \/ /\ Declines(c) = "run" /\ ~canceled
          /\ Record("pass") /\ ran' = ran \cup {<<c, "pass">>} /\ UNCHANGED failures
       \/ /\ Declines(c) = "run" /\ failures < MaxFailures
          /\ Record("fail") /\ ran' = ran \cup {<<c, "fail">>} /\ failures' = failures + 1
       \/ /\ Declines(c) = "run" /\ canceled
          /\ Record("fail") /\ ran' = ran \cup {<<c, "fail">>} /\ UNCHANGED failures
  /\ UNCHANGED <<adapter, diff, full, network, env, specs, runnable, canceled, exit, stage>>

(***************************************************************************)
(* The two adapters.                                                       *)
(***************************************************************************)
Init ==
  /\ \/ adapter = "cli" /\ diff \in Diffs /\ full \in BOOLEAN /\ specs = <<>>
     \/ adapter = "mcp" /\ diff = <<>> /\ full = FALSE /\ specs \in Requests
  /\ network \in BOOLEAN /\ env \in Envs
  /\ results = <<>> /\ runnable = <<>> /\ pos = 1 /\ ran = {} /\ failures = 0
  /\ canceled = FALSE /\ exit = "ok" /\ stage = "plan"

\* git cannot list the changed files: an error, and nothing is printed.
ChangedFilesFails ==
  /\ stage = "plan" /\ adapter = "cli"
  /\ stage' = "done" /\ exit' = "error"
  /\ UNCHANGED <<adapter, diff, full, network, env, specs, results, runnable, pos, ran, failures, canceled>>

\* A command that may not run is reported as such, the others are handed to verify.Run.
Classified(checks) ==
  /\ stage = "plan" /\ stage' = "run" /\ specs' = checks
  /\ results' = [i \in DOMAIN checks |-> IF Blocked(checks[i].cmd) THEN "approval_required" ELSE "none"]
  /\ runnable' = SelectSeq([i \in DOMAIN checks |-> i], LAMBDA i : ~Blocked(checks[i].cmd))
  /\ UNCHANGED <<adapter, diff, full, network, env, pos, ran, failures, canceled, exit>>

Verify == adapter = "cli" /\ Classified(SpecsFor(diff, full))

runVerification == adapter = "mcp" /\ Classified(specs)

\* The MCP client gives up; the command line has no deadline.
Cancel ==
  /\ adapter = "mcp" /\ stage = "run" /\ ~canceled /\ canceled' = TRUE
  /\ UNCHANGED <<adapter, diff, full, network, env, specs, results, runnable, pos, ran, failures, exit, stage>>

\* No executed check, or a failed one, is an exit code of 1.
ExitCode ==
  IF \E i \in DOMAIN results : results[i] \in {"pass", "fail"}
    THEN IF \E i \in DOMAIN results : results[i] = "fail" THEN "failed" ELSE "ok"
    ELSE "failed"

Return ==
  /\ stage = "run" /\ pos > Len(runnable) /\ stage' = "done"
  /\ exit' = IF adapter = "cli" THEN ExitCode ELSE "ok"
  /\ UNCHANGED <<adapter, diff, full, network, env, specs, results, runnable, pos, ran, failures, canceled>>

Next == ChangedFilesFails \/ Verify \/ runVerification \/ runOne \/ Cancel \/ Return

(***************************************************************************)
(* Properties.                                                             *)
(***************************************************************************)
\* Every check gets its own result, a pass or a fail exactly when its command was
\* executed and ended so: "nothing in checks can disappear from the result set".
ResultsAreOwn ==
  stage = "done" /\ exit # "error" =>
    \A i \in DOMAIN specs :
      /\ results[i] # "none"
      /\ \A s \in {"pass", "fail"} : results[i] = s <=> <<specs[i], s>> \in ran

\* A zero exit code: something was executed, nothing that was executed failed, and with
\* -full no gate is missing from the results.
ZeroMeansVerified ==
  stage = "done" /\ adapter = "cli" /\ exit = "ok" =>
    /\ ran # {} /\ \A r \in ran : r[2] = "pass"
    /\ full => \A g \in Range(FullGates) : \E i \in DOMAIN specs : specs[i].cmd = g.cmd

\* Nothing that is not read-only or networked is executed.
OnlySafeRuns == \A r \in ran : ClassifyCommand(r[1].cmd) \in {"safe", "networked"}

\* The Go module a file belongs to, by the repository's layout.
ModuleOf(path) ==
  IF Len(path.dirs) >= 2 /\ Leading(path, 2) \in
       ({"tools", "services"} \X {path.dirs[2]}) \cup {<<"examples", "external-consumer">>}
    THEN Leading(path, 2) ELSE <<>>

\* `go test`, run in the directory of a Go module, tests the packages of that module that
\* its pattern matches, and of no other module.
Tests(cmd, path) ==
  /\ cmd.run = "go test" /\ cmd.in = ModuleOf(path)
  /\ \/ cmd.arg = <<".">> /\ path.dirs = cmd.in
     \/ Last(cmd.arg) = "..." /\ IsPrefix(cmd.in \o Front(cmd.arg), path.dirs)

\* A changed Go file is tested by a check of the plan, in its own module, unless its path
\* is not plain or in no module; a change other than of a workflow has some check.
PlanReaches ==
  stage = "run" /\ adapter = "cli" =>
    \A p \in Range(diff) :
      /\ p.ext = "go" /\ p.plain /\ p.dirs \notin {<<"tools">>, <<"services">>, <<"examples">>} =>
           \E i \in DOMAIN specs : Tests(specs[i].cmd, p)
      /\ isWorkflowFile(p) \/ specs # <<>>

\* What one table recommends the other lets run: a planned command is refused only
\* for the name of a nested module or a script below scripts/check-*.
PlanRuns ==
  stage = "run" /\ adapter = "cli" =>
    \A i \in DOMAIN specs :
      Blocked(specs[i].cmd) => ~PlainDir(specs[i].cmd.in) \/ Len(specs[i].cmd.arg) > 2
===============================================================================
