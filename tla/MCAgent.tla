-------------------------------- MODULE MCAgent --------------------------------
(***************************************************************************)
(* The agent tools over small repositories.  To the scenes of MCPatchApply   *)
(* this adds "verify" (AgentVerify) and "review" (AgentReview).             *)
(***************************************************************************)
EXTENDS MCPatchApply, FiniteSets

CONSTANTS
  AgentScenes,  \* of "verify" and "review"
  OpenEnded     \* may a line be added after one that ended a file without a newline?

VARIABLES adapter, diff, full, network, env, specs, runnable, pos, ran, failures, canceled,
          exit, command, change, refs, protected, envelope, code, results, stage

LOCAL INSTANCE SequencesExt

(***************************************************************************)
(* Verification: every rule of the plan, alone and in pairs.               *)
(***************************************************************************)
File(dirs, base, ext) == [dirs |-> dirs, base |-> base, ext |-> ext, plain |-> TRUE]

Files == {
  File(<<>>, "modulex.go", "go"), File(<<>>, "go.mod", "mod"), File(<<>>, "CHANGELOG.md", "md"),
  File(<<"httpx">>, "httpx.go", "go"), File(<<"nats", "inner">>, "bus.go", "go"),
  [File(<<"httpx">>, "a b.go", "go") EXCEPT !.plain = FALSE],
  File(<<"tools">>, "x.go", "go"), File(<<"tools", "cli">>, "go.mod", "mod"),
  File(<<"tools", "v1.2">>, "x.go", "go"), File(<<"services", "prreview", "store">>, "x.go", "go"),
  File(<<"examples">>, "README.md", "md"), File(<<"examples", "shop", "cart">>, "x.go", "go"),
  File(<<"examples", "external-consumer">>, "main.go", "go"),
  File(<<"scripts">>, "check-api.sh", "sh"), File(<<"scripts", "check-all">>, "x.sh", "sh"),
  File(<<".github", "workflows">>, "ci.yml", "yml"), File(<<"docs">>, "x.md", "md") }

Command(run, arg) == [run |-> run, arg |-> arg, in |-> <<>>]
Asked(name, cmd, tool, networked) ==
  [name |-> <<name>>, cmd |-> cmd, tool |-> tool, networked |-> networked]

Checks == {
  Asked("lint", Command("make", <<"lint">>), "golangci-lint", FALSE),
  Asked("vuln", Command("make", <<"vuln">>), "go", TRUE),
  Asked("diff", Command("git diff", <<"-o">>), "git", FALSE),
  Asked("status", Command("git status", <<"-s">>), "git", FALSE),
  Asked("commit", Command("git commit", <<>>), "git", FALSE),
  Asked("reset", Command("git reset --hard", <<>>), "git", FALSE),
  Asked("other", Command("chained", <<>>), "", FALSE) }

V == INSTANCE AgentVerify WITH
  Diffs <- {<<>>} \cup {<<a>> : a \in Files} \cup (Files \X Files),
  Requests <- {s \in Checks \X Checks \X Checks : Cardinality(Range(s)) = 3},
  Envs <- { [tools |-> {"go", "git", "golangci-lint"}, makefile |-> "gates", make |-> TRUE],
            [tools |-> {"go", "git"}, makefile |-> "other", make |-> TRUE],
            [tools |-> {"git"}, makefile |-> "none", make |-> TRUE],
            [tools |-> {"go", "git"}, makefile |-> "gates", make |-> FALSE] },
  Dotted <- {"v1.2"}, CheckNamed <- {"check-api.sh", "check-all"}, MaxFailures <- 1

(***************************************************************************)
(* Reviews: every edit of a short CHANGELOG.md or go.mod, every short       *)
(* pattern over short paths, and diffs of two files.                        *)
(***************************************************************************)
NoEdit == [old |-> <<>>, new |-> <<>>, kept |-> <<>>, both |-> FALSE]

Change(contract, declared, files, changelog, gomod, text) ==
  [contract |-> contract, declared |-> declared, files |-> files, changelog |-> changelog,
   gomod |-> gomod, diff |-> text]

Log == <<"CHANGELOG.md">>
Mod == <<"go.mod">>
Own == <<"modulex.agent.yaml">>

\* Every way git may keep lines between two contents.
Increasing(n, size) ==
  {s \in [1 .. size -> 1 .. n] : \A i \in 1 .. size - 1 : s[i] < s[i + 1]}

EditsBetween(old, new) ==
  UNION {{[old |-> old, new |-> new, both |-> TRUE, kept |-> [i \in 1 .. k |-> <<ab[1][i], ab[2][i]>>]] :
            ab \in {ij \in Increasing(Len(old), k) \X Increasing(Len(new), k) :
                       \A i \in 1 .. k : old[ij[1][i]] = new[ij[2][i]]}} : k \in 0 .. Len(old)}

EditsOf(contents) == UNION {EditsBetween(c[1], c[2]) : c \in contents \X contents}

Changelogs == UNION {[1 .. n -> {"unreleased", "version", "text"}] : n \in 0 .. 3}

\* go.mod files in which every retract block is closed.
GoMods ==
  {m \in UNION {[1 .. n -> {"retract", "retract (", "close", "line"}] : n \in 0 .. 3} :
     \A i \in DOMAIN m : m[i] = "retract (" => \E j \in i + 1 .. Len(m) : m[j] = "close"}

Globs == UNION {[1 .. n -> {"a", "*", "**"}] : n \in 1 .. 3}
Names == UNION {[1 .. n -> {"a", "b"}] : n \in 1 .. 3}

EditChanges ==
  {Change("read", {Log}, {Log}, edit, NoEdit, <<>>) : edit \in EditsOf(Changelogs) \cup {NoEdit}}
    \cup {Change("read", {<<"**">>}, {Mod, Log}, NoEdit, NoEdit, <<>>)}
    \cup {Change("read", {Mod}, {Mod}, NoEdit, edit, <<>>) : edit \in EditsOf(GoMods)}

PathChanges ==
  {Change("read", {p[1]}, {p[2]}, NoEdit, NoEdit, <<>>) : p \in Globs \X Names}
    \cup {Change(c, ps, changed, NoEdit, NoEdit, <<>>) :
            c \in {"absent", "broken", "read"}, ps \in {{}, {<<"[">>, <<"a">>}, {<<"b">>}},
            changed \in {{}, {Own}, {<<"a">>}, {<<"a">>, <<"b">>}}}

Text(holds, header, nosecret) == [holds |-> holds, header |-> header, nosecret |-> nosecret]
Texts == {Text({}, TRUE, FALSE), Text({"specific", "loose"}, FALSE, FALSE),
          Text({"quoted"}, TRUE, FALSE), Text({"specific"}, FALSE, TRUE)}

HunksAt(start, texts) ==
  {h \in [start : {start}, old : 0 .. 1, new : texts, oldOpen : BOOLEAN, newOpen : BOOLEAN] :
     /\ h.old + Len(h.new) > 0
     /\ h.oldOpen => h.old > 0 /\ (OpenEnded \/ h.new = <<>>)
     /\ h.newOpen => h.new # <<>>}

Single == {<<h>> : h \in HunksAt(1, {<<>>} \cup (Texts \X Texts))}
\* Two hunks; only the second can be at the end of the file.
Double == {<<h, g>> : h \in {k \in HunksAt(1, {<<Text({"quoted"}, TRUE, FALSE)>>}) : ~k.oldOpen /\ ~k.newOpen},
                      g \in HunksAt(5, {<<>>, <<Text({"quoted"}, FALSE, FALSE)>>})}

ScanChanges ==
  {Change("read", {}, {}, NoEdit, NoEdit,
          << [name |-> "a.go", hunks |-> hs[1]], [name |-> "b.go", hunks |-> hs[2]] >>) :
     hs \in (Single \X Double) \cup (Double \X Single)}
  \cup {Change("read", {}, {}, NoEdit, NoEdit, << [name |-> "/dev/null", hunks |-> <<h>>] >>) :
          h \in HunksAt(0, {<<>>})}

Review(commands, changes, resolve) == [command : commands, change : changes, refs : resolve]
CLI == {"review", "handoff"}

R == INSTANCE AgentReview WITH
  Reviews <- Review({"review"}, EditChanges \cup ScanChanges, {"good"})
               \cup Review(CLI \cup {"review_diff"}, PathChanges, {"good", "base", "head"})
               \cup Review({"handoff"}, {c \in ScanChanges : Len(c.diff) = 1
                                           \/ Len(c.diff[1].hunks[1].new) = 0}, {"good"}),
  Supplied <- UNION {[1 .. n -> [check : {"make"}, status : {"pass", "fail", "skipped", "unavailable"},
                                 message : SUBSET {"quoted", "loose"}, reason : BOOLEAN]] : n \in 0 .. 2},
  Jobs <- UNION {[1 .. n -> {"success", "failure", "cancelled", "skipped", "new"}] : n \in 0 .. 2}

(***************************************************************************)
(* The scenes.                                                             *)
(***************************************************************************)
verifyVars == <<adapter, diff, full, network, env, specs, runnable, pos, ran, failures, canceled, exit>>
reviewVars == <<command, change, refs, protected, envelope, code>>
agentVars == <<verifyVars, reviewVars, results, stage>>

NoPatch == /\ fs = Tree({}, {}) /\ litter = 0 /\ batch = 0 /\ broker = 0 /\ grants = 0 /\ pc = 0
           /\ entries = 0 /\ applied = 0 /\ undo = 0 /\ outcome = 0 /\ top = 0 /\ cursor = 0
           /\ undoErr = 0 /\ approved = 0 /\ origin = 0 /\ edited = 0 /\ edits = 0 /\ faults = 0
NoVerify == /\ adapter = 0 /\ diff = 0 /\ full = 0 /\ network = 0 /\ env = 0 /\ specs = 0
            /\ runnable = 0 /\ pos = 0 /\ ran = 0 /\ failures = 0 /\ canceled = 0 /\ exit = 0
NoReview == /\ command = 0 /\ change = 0 /\ refs = 0 /\ protected = 0 /\ envelope = 0 /\ code = 0

AgentInit ==
  \/ Init /\ NoVerify /\ NoReview /\ results = 0 /\ stage = 0
  \/ scene \in AgentScenes \cap {"verify"} /\ NoPatch /\ V!Init /\ NoReview
  \/ scene \in AgentScenes \cap {"review"} /\ NoPatch /\ NoVerify /\ R!Init

AgentNext ==
  \/ Next /\ UNCHANGED agentVars
  \/ scene = "verify" /\ V!Next /\ UNCHANGED <<scene, patchVars, reviewVars>>
  \/ scene = "review" /\ R!Next /\ UNCHANGED <<scene, patchVars, verifyVars>>

AgentSpec == AgentInit /\ [][AgentNext]_<<scene, patchVars, agentVars>>

(***************************************************************************)
(* Properties.                                                             *)
(***************************************************************************)
\* The plan reaches every changed Go file in its own module with commands that may be
\* run; every check is reported as it went, only safe commands were executed, and an
\* exit code of zero is never given for nothing.
VerifySound ==
  scene = "verify" => V!ResultsAreOwn /\ V!ZeroMeansVerified /\ V!OnlySafeRuns
                        /\ V!PlanReaches /\ V!PlanRuns

\* A pass of the protected-paths check protects: released changelog lines, retract
\* directives, every other protected path and the contract itself are as they were;
\* policy that cannot be read is no pass; the exit code says what failed.
ReviewSound ==
  scene = "review" => R!PassProtects /\ R!FailsClosed /\ R!ZeroMeansNoFailure

\* addedLines extracts every added line of a diff, with its file and line number.
AddedLinesComplete == scene = "review" => R!AddedLinesComplete

\* The secret scan judges exactly the added lines and does not repeat what it found.
ScanSound == AddedLinesComplete /\ (scene = "review" => R!ScanTruthful)

\* An envelope reports every result with its status, without secret-shaped text.
HandoffSound == scene = "review" => R!HandoffHonest
===============================================================================
