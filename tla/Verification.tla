---------------------------- MODULE Verification ----------------------------
(***************************************************************************)
(* How a prepared sandbox is verified before its plan may be applied: the  *)
(* pipeline of repository commands (internal/workspace/pipeline.go,        *)
(* detect.go, trust.go), the guard every command runs under                *)
(* (command_tree.go, internal/procguard) and the phases of                 *)
(* SandboxStager.Stage that follow materialisation                         *)
(* (internal/providerpool/stagers.go).                                     *)
(*                                                                         *)
(* A command may write what it can reach, leave processes behind that go   *)
(* on writing until the guard has killed them, fail, or run into its       *)
(* timeout; commands marked parallel run at once, each in a copy.          *)
(***************************************************************************)
EXTENDS Sandbox

CONSTANTS
  Parsed,        \* paths whose extension a native parser supports
  Projects,      \* .huyang.toml, or the layout commands are detected from
  UserCaps,      \* the user policy's resource caps, 0 where unset
  ToolWrites,    \* contents a command may write
  TrustRoots     \* directories a user may trust: "root", or "parent" above it

Command(name, parallel, declared) == [name |-> name, parallel |-> parallel, declared |-> declared]

DefaultPipelinePolicy ==
  [version |-> 1, config |-> FALSE, mode |-> "check", scope |-> "declared", gate |-> <<>>, transform |-> <<>>,
   check |-> <<>>, tests |-> <<>>, maxChanged |-> 256, maxParallel |-> 1, trusted |-> FALSE]

(* PipelinePolicy: any checks and tests, one formatter and one gate at most. *)
IsList(commands) == commands \in Seq(Range(commands))
IsPolicy(policy) ==
  /\ DOMAIN policy = DOMAIN DefaultPipelinePolicy
  /\ IsList(policy.check) /\ IsList(policy.tests)
  /\ IsList(policy.transform) /\ Len(policy.transform) <= 1
  /\ IsList(policy.gate) /\ Len(policy.gate) <= 1

ASSUME ProjectsAssumption == \A project \in Projects : project.config => IsPolicy(project.policy)
ASSUME WritesAssumption == ToolWrites \subseteq Contents

-----------------------------------------------------------------------------
(* LoadPipelinePolicyForTrustedRoot. *)

loadProjectPolicy(project) ==
  IF project.config THEN [project.policy EXCEPT !.config = TRUE] ELSE DefaultPipelinePolicy

If(condition, commands) == IF condition THEN commands ELSE <<>>

detectGo(policy, makeTests) ==
  [policy EXCEPT !.mode = "check", !.scope = "whole_repository", !.gate = <<Command("gofmt", FALSE, {})>>,
                 !.check = @ \o <<Command("go-build", FALSE, {}), Command("go-vet", FALSE, {})>>,
                 !.tests = @ \o If(~makeTests, <<Command("go-test", FALSE, {})>>)]

detectPython(policy, markers, makeTests, makeLint) ==
  [policy EXCEPT !.check = @ \o <<Command("python-syntax", FALSE, {})>>
                             \o If(~makeLint /\ "ruff" \in markers, <<Command("ruff", FALSE, {})>>),
                 !.tests = @ \o If(~makeTests, <<Command("python-test", FALSE, {})>>)]

makefileTargets(markers) == markers \cap {"make lint", "make check", "make test"}

detectPipelinePolicy(markers, policy) ==
  LET targets == makefileTargets(markers)
      makeTests == "make test" \in targets
      makeLint == targets \cap {"make lint", "make check"} # {}
      made == [policy EXCEPT
        !.check = @ \o If("make lint" \in targets, <<Command("make-lint", FALSE, {})>>)
                    \o If("make check" \in targets, <<Command("make-check", FALSE, {})>>),
        !.tests = @ \o If(makeTests, <<Command("make-test", FALSE, {})>>)]
      go == IF "go.mod" \in markers THEN detectGo(made, makeTests) ELSE made
      python == IF "python" \in markers THEN detectPython(go, markers, makeTests, makeLint) ELSE go
  IN [python EXCEPT !.tests = @ \o If(~makeTests /\ "npm test" \in markers, <<Command("npm-test", FALSE, {})>>)]

(* The user policy is read from disk each time. *)
loadUserPolicy == [roots |-> roots, caps |-> UserCaps]

Lower(limit, cap) == IF cap > 0 /\ cap < limit THEN cap ELSE limit
applyUserResourceCaps(policy) ==
  [policy EXCEPT !.maxChanged = Lower(@, loadUserPolicy.caps.maxChanged),
                 !.maxParallel = Lower(@, loadUserPolicy.caps.maxParallel)]

validateParallelCommands(commands) == \A i \in DOMAIN commands : commands[i].parallel => commands[i].declared = {}

validatePipelinePolicy(policy) ==
  /\ policy.version = 1
  /\ policy.maxParallel \in 1..8
  /\ validateParallelCommands(policy.check) /\ validateParallelCommands(policy.tests)
  /\ policy.mode \in {"off", "check", "transform"}
  /\ policy.scope \in {"declared", "whole_repository"}

(* The canonical root is trusted itself or through a directory above it. *)
TrustedRoot == loadUserPolicy.roots # <<>>

LoadPipelinePolicyForTrustedRoot(project) ==
  LET own == loadProjectPolicy(project)
      policy == IF own.config THEN own ELSE detectPipelinePolicy(project.markers, own)
  IN applyUserResourceCaps([policy EXCEPT !.trusted = TrustedRoot])

insertTrustRoot(listed, root) == Append(listed, root)
writeUserPolicy(updated) == roots' = updated

(* huyang trust: refused when the root is covered already. *)
TrustRoot(root) ==
  /\ \A i \in DOMAIN roots : roots[i] # root /\ roots[i] # "parent"
  /\ At("idle")        \* the policy is read once, when the pipeline starts
  /\ writeUserPolicy(insertTrustRoot(roots, root))
  /\ UNCHANGED <<disk, past, box, litter, run, job, scratch, proc, self>> /\ Quiet

UntrustRoot(root) ==
  /\ \E i \in DOMAIN roots : roots[i] = root
  /\ At("idle")
  /\ writeUserPolicy(SelectSeq(roots, LAMBDA listed : listed # root))
  /\ UNCHANGED <<disk, past, box, litter, run, job, scratch, proc, self>> /\ Quiet

-----------------------------------------------------------------------------
(* The stages of runVerificationPipeline, in canonicalStageOrder behind the *)
(* transform and its second pass. The diagnostics stage is recorded by      *)
(* recordStagedDiagnostics.                                                *)
StageOrder == <<"format", "idempotency", "format_gate", "parser", "check", "tests", "collect">>
CommandStages == {"format", "idempotency", "format_gate", "check", "tests"}
Mutating(stage) == stage \in {"format", "idempotency"}
After(stage) == StageOrder[1 + CHOOSE i \in DOMAIN StageOrder : StageOrder[i] = stage]

Affected == DOMAIN run.plan

(* A transform may write the files of the plan, or what it declares. *)
TransformDeclared(command) ==
  IF run.policy.scope = "declared" THEN [command EXCEPT !.declared = Affected] ELSE command

CommandsOf(stage) ==
  CASE Mutating(stage) -> [i \in DOMAIN run.policy.transform |-> TransformDeclared(run.policy.transform[i])]
    [] stage = "format_gate" -> run.policy.gate
    [] stage = "check" -> run.policy.check
    [] OTHER -> run.policy.tests

TransformWanted(policy) == run.explicit \/ policy.mode = "transform"

transformStaged(project) ==
  /\ At("load")
  /\ LET policy == LoadPipelinePolicyForTrustedRoot(project)
     IN IF validatePipelinePolicy(policy)
        THEN run' = [run EXCEPT !.policy = policy, !.next = 1, !.original = box.tree,
                                !.pc = IF TransformWanted(policy) THEN "format" ELSE "format_gate"]
        ELSE Fails
  /\ UNCHANGED <<disk, past, box, job, World>> /\ Quiet

(* captureTree refuses a cancelled call and more bytes than the quota. *)
captureTree(tree) == \A p \in Paths : tree[p] # "huge"
CaptureHere == ~run.cancelled /\ captureTree(box.tree)

(* A stage recorded with the tree it judged. *)
Record(name, command, status, tree) == [stage |-> name, command |-> command, status |-> status, tree |-> tree]

(* The stage is over; an explicit transform must have passed, and one that  *)
(* did not pass has no second pass.                                        *)
EndStage(stages) ==
  LET stage == run.pc
      passed == \A i \in DOMAIN stages : stages[i].status = "passed"
      to == IF stage = "format" /\ ~passed THEN "format_gate" ELSE After(stage)
  IN IF stage = "format" /\ run.explicit /\ ~passed
     THEN Fails
     ELSE run' = [run EXCEPT !.pc = to, !.next = 1, !.stages = IF stage = "idempotency" THEN @ ELSE @ \o stages]

GroupStarts ==
  /\ self # 0 /\ run.pc \in CommandStages
  /\ \A i \in Slots : job[i].pc = "idle"
  /\ run.queue = {} /\ run.results = <<>>

Alone == \/ run.pc \in {"format", "idempotency", "format_gate"}
         \/ run.policy.maxParallel <= 1 \/ ~CommandsOf(run.pc)[run.next].parallel

MayRun == GroupStarts /\ run.policy.trusted /\ run.next \in DOMAIN CommandsOf(run.pc)

(* transform and a parallel batch take their snapshot before anything else. *)
Captures == GroupStarts /\ (Mutating(run.pc) \/ MayRun \/ (CommandsOf(run.pc) # <<>> /\ ~Alone))

(* Nothing to run: not configured, or the workspace is not trusted. *)
SkipStage ==
  /\ GroupStarts /\ run.next = 1
  /\ CommandsOf(run.pc) = <<>> \/ ~run.policy.trusted
  /\ Captures => CaptureHere
  /\ EndStage(<<Record(run.pc, "none", "unavailable", box.tree)>>)
  /\ UNCHANGED <<disk, past, box, job, World>> /\ Quiet

Env(i) == [owner |-> Owner, name |-> <<"env", i>>]
Clone(i) == [owner |-> Owner, name |-> <<"clone", i>>]

commandStageFailure == [status |-> "cancelled", tree |-> NoTree, delta |-> <<>>]

(* commandStage up to the start of the command. *)
StartedJob(i, index, clone, tree) ==
  job' = [job EXCEPT ![i] = [NoJob EXCEPT !.pc = "running", !.index = index, !.clone = clone, !.before = tree, !.tree = tree]]

commandStage ==
  /\ MayRun /\ Alone /\ CaptureHere
  /\ StartedJob(1, run.next, FALSE, box.tree)
  /\ scratch' = scratch \cup {Env(1)}
  /\ UNCHANGED <<disk, past, box, litter, run, proc, self, roots>> /\ Quiet

(* runCommandPolicies takes the neighbours that are parallel too, and       *)
(* runIsolatedCommandBatch copies one snapshot of the tree for each.       *)
BatchEnd == LET commands == CommandsOf(run.pc)
                barriers == {i \in DOMAIN commands : i > run.next /\ ~commands[i].parallel}
            IN Min(barriers \cup {Len(commands) + 1})

Group == DOMAIN run.results
Workers == Min({run.policy.maxParallel, BatchEnd - run.next} \cup {Max(Slots)})

runIsolatedCommandBatch ==
  /\ MayRun /\ ~Alone /\ CaptureHere
  /\ run' = [run EXCEPT !.queue = run.next..(BatchEnd - 1)]
  /\ UNCHANGED <<disk, past, box, job, World>> /\ Quiet

(* run.results with the result of the command at index. *)
Report(index, result) == [k \in Group \cup {index} |-> IF k \in Group THEN run.results[k] ELSE result]

(* A worker takes the next command; after a cancellation it only reports. *)
WorkerTakes(i) ==
  /\ self # 0 /\ run.queue # {} /\ job[i].pc = "idle" /\ i <= Workers
  /\ LET index == Min(run.queue)
     IN /\ run' = [run EXCEPT !.queue = @ \ {index},
                              !.results = IF run.cancelled THEN Report(index, commandStageFailure) ELSE @]
        /\ IF run.cancelled THEN UNCHANGED <<job, scratch>>
           ELSE StartedJob(i, index, TRUE, box.tree) /\ scratch' = scratch \cup {Env(i), Clone(i)}
  /\ UNCHANGED <<disk, past, box, litter, proc, self, roots>> /\ Quiet

-----------------------------------------------------------------------------
(* A command under its guard. *)

TreeOf(i) == IF job[i].clone THEN job[i].tree ELSE box.tree
SetTree(i, tree, change) ==
  IF job[i].clone THEN job' = [job EXCEPT ![i] = [change EXCEPT !.tree = tree]] /\ UNCHANGED box
  ELSE job' = [job EXCEPT ![i] = change] /\ box' = [box EXCEPT !.tree = tree]

(* The command writes, or a process it left behind does: once, as a bound. *)
CommandWrites(i, p, content) ==
  /\ job[i].pc \in {"running", "lingering"} /\ ~job[i].wrote
  /\ SetTree(i, [TreeOf(i) EXCEPT ![p] = content], [job[i] EXCEPT !.wrote = TRUE])
  /\ UNCHANGED <<disk, past, run, World>> /\ Quiet

(* The owner closes its pipe when the call's context ends. *)
Stop(exit) == exit = "stopped" => run.cancelled

(* It exits, or the guard is told to kill it. *)
CommandExits(i, exit) ==
  /\ job[i].pc = "running" /\ Stop(exit)
  /\ job' = [job EXCEPT ![i].pc = "lingering", ![i].exit = exit]
  /\ UNCHANGED <<disk, past, box, run, World>> /\ Quiet

descendants(i) == job[i].pc = "lingering"

(* The guard has killed the group and the children it adopted, and only     *)
(* then exits with the command's status, which Wait returns.               *)
killDescendants(i) ==
  /\ descendants(i)
  /\ job' = [job EXCEPT ![i].pc = "reaped"]
  /\ UNCHANGED <<disk, past, box, run, World>> /\ Quiet

diffTrees(before, after) == {p \in Paths : before[p] # after[p]}
matchDeclared(p, command) == p \in command.declared
protectedBytesChanged(content) == content = "odd"

DeclaredIsEnough(delta, tree, command, mutating) ==
  \A p \in delta : matchDeclared(p, command) /\ (mutating => ~protectedBytesChanged(tree[p]))

auditToolDelta(delta, tree, command, mutating) ==
  /\ Cardinality(delta) <= run.policy.maxChanged
  /\ \A p \in delta : matchDeclared(p, command) /\ (mutating => ~protectedBytesChanged(tree[p]))
  /\ mutating \/ delta = {}

commandRunStatus(exit) ==
  CASE exit = "ok" -> "passed"
    [] exit = "timed_out" -> "timed_out"
    [] OTHER -> IF run.cancelled THEN "cancelled" ELSE "failed"

Wait(i) == job[i].pc = "reaped"

(* commandStage from the return of Wait: capture, audit, restore, verdict. *)
FinishCommand(i) ==
  /\ Wait(i)
  /\ LET tree == TreeOf(i)
         before == job[i].before
         delta == diffTrees(before, tree)
         mutating == Mutating(run.pc)
         clean == captureTree(tree) /\ auditToolDelta(delta, tree, CommandsOf(run.pc)[job[i].index], mutating)
         status == IF clean THEN commandRunStatus(job[i].exit) ELSE "failed"
         restored == IF ~clean \/ (mutating /\ status # "passed") THEN before ELSE tree
     IN /\ SetTree(i, restored, NoJob)
        /\ run' = [run EXCEPT !.results = Report(job[i].index, [status |-> status, tree |-> before,
                                                delta |-> IF clean THEN [p \in delta |-> tree[p]] ELSE <<>>])]
        /\ scratch' = scratch \ {Env(i), Clone(i)}
  /\ UNCHANGED <<disk, past, litter, proc, self, roots>> /\ Quiet

-----------------------------------------------------------------------------
(* The end of a group of commands. *)

InOrder(name) == [k \in 1..Cardinality(Group) |->
  LET index == run.next + k - 1
  IN Record(name, CommandsOf(name)[index].name, run.results[index].status, run.results[index].tree)]

(* The second pass of the formatter must not change a byte; if it does, the *)
(* tree is put back as it was before the first.                            *)
Nondeterministic(result) == result.status # "passed" \/ DOMAIN result.delta # {}

EndGroup ==
  /\ self # 0 /\ Group # {} /\ run.queue = {} /\ \A i \in Slots : job[i].pc = "idle"
  /\ LET stage == run.pc
         records == InOrder(stage)
         last == run.next + Cardinality(Group) - 1
         done == [run EXCEPT !.results = <<>>, !.stages = IF stage = "idempotency" THEN @ ELSE @ \o records,
                             !.delta = IF stage = "format" THEN run.results[1].delta ELSE @]
     IN CASE stage = "idempotency" /\ Nondeterministic(run.results[1]) ->
               /\ Fails
               /\ box' = [box EXCEPT !.tree = run.original]
          [] stage # "idempotency" /\ \E k \in DOMAIN records : records[k].status # "passed" ->
               Fails /\ UNCHANGED box
          [] OTHER ->
               /\ run' = IF last + 1 \in DOMAIN CommandsOf(stage) THEN [done EXCEPT !.next = last + 1]
                         ELSE [done EXCEPT !.pc = After(stage), !.next = 1]
               /\ UNCHANGED box
  /\ UNCHANGED <<disk, past, job, World>> /\ Quiet

(* A snapshot over the quota, a cancelled call, no scratch directory. *)
CommandCannotStart ==
  /\ At("collect") \/ Captures
  /\ IF CaptureHere THEN MayRun /\ Event ELSE Quiet
  /\ Fails
  /\ UNCHANGED <<disk, past, box, job, World>>

-----------------------------------------------------------------------------
(* The parser, and what the pipeline claims. *)

parserSupports(p) == p \in Parsed
parseDocument(content) == content # "broken"

(* A path the plan deletes cannot be read, and fails the stage. *)
parserStage(tree, files) ==
  LET supported == {p \in files : parserSupports(p)}
  IN CASE \E p \in supported : tree[p] = "none" \/ ~parseDocument(tree[p]) -> "failed"
       [] supported # files \/ files = {} -> "unavailable"
       [] OTHER -> "passed"

parser ==
  /\ At("parser")
  /\ LET status == parserStage(box.tree, Affected)
         stages == Append(run.stages, Record("parser", "native", status, box.tree))
     IN IF status = "failed" THEN Fails ELSE run' = [run EXCEPT !.stages = stages, !.pc = After("parser")]
  /\ UNCHANGED <<disk, past, box, job, World>> /\ Quiet

StagesNamed(name) == {run.stages[i] : i \in {k \in DOMAIN run.stages : run.stages[k].stage = name}}
Passed(name) == \E stage \in StagesNamed(name) : stage.status = "passed"

(* The check's command names a tool of the language. *)
projectCheckCoversParserExtension(command) == command \in {"go-build", "go-vet", "python-syntax", "ruff", "generate"}

(* A check that passed speaks for files no parser read. *)
corroborateParserWithProjectCheck ==
  /\ \E stage \in StagesNamed("check") : stage.status = "passed" /\ projectCheckCoversParserExtension(stage.command)
  /\ \E stage \in StagesNamed("parser") : stage.status = "unavailable"

formattingClaims ==
  LET gate == StagesNamed("format_gate")
      configured == run.policy.gate # <<>> \/ run.policy.transform # <<>>
  IN [repositoryFormatted |-> Passed("format"), gatePassed |-> Passed("format_gate"), notConfigured |-> ~configured,
      provisional |-> configured /\ \E stage \in gate : stage.status \notin {"passed", "failed"}]

labelFullTest(stage) == IF stage.status = "passed" THEN "full_tests_passed" ELSE "full_tests_unavailable"

FullTestGate ==
  CASE run.policy.tests = <<>> -> "not_configured"
    [] \A stage \in StagesNamed("tests") : labelFullTest(stage) = "full_tests_passed" -> "full_tests_passed"
    [] OTHER -> "full_tests_unavailable"

(* collectPreparedFiles reads the plan's files back, and transformStaged    *)
(* takes them, and whatever else a tool wrote, only when a tool wrote.      *)
collectPreparedFiles == [p \in Affected |-> box.tree[p]]
StageFileForToolDelta(p) == run.delta[p]

Collect ==
  /\ At("collect") /\ CaptureHere
  /\ LET tool == DOMAIN run.delta
         files == IF tool = {} THEN run.plan
                  ELSE [p \in Affected \cup tool |->
                          IF p \in Affected THEN collectPreparedFiles[p] ELSE StageFileForToolDelta(p)]
     IN run' = [run EXCEPT !.pc = "diagnose", !.files = files,
                           !.claims = [formatting |-> formattingClaims, tests |-> FullTestGate,
                                       corroborated |-> corroborateParserWithProjectCheck]]
  /\ UNCHANGED <<disk, past, box, job, World>> /\ Quiet

(* A provider over the final tree reports on the staged files, or fails. *)
recordStagedDiagnostics(works) ==
  /\ At("diagnose")
  /\ IF works THEN Quiet ELSE Event
  /\ IF works THEN run' = [run EXCEPT !.pc = "prepared"] ELSE Fails
  /\ UNCHANGED <<disk, past, box, job, World>>

VerificationNext ==
  \/ \E project \in Projects : transformStaged(project)
  \/ \E root \in TrustRoots : TrustRoot(root) \/ UntrustRoot(root)
  \/ SkipStage \/ commandStage \/ runIsolatedCommandBatch \/ EndGroup \/ CommandCannotStart
  \/ \E i \in Slots :
        \/ WorkerTakes(i) \/ killDescendants(i) \/ FinishCommand(i)
        \/ \E exit \in {"ok", "failed", "timed_out", "stopped"} : CommandExits(i, exit)
        \/ \E p \in Paths, content \in ToolWrites : CommandWrites(i, p, content)
  \/ parser \/ Collect
  \/ \E works \in BOOLEAN : recordStagedDiagnostics(works)

Next == SandboxNext \/ VerificationNext

Spec == Init /\ [][Next]_vars

-----------------------------------------------------------------------------
(* A sealed sandbox holds a tree the workspace really had at one instant,   *)
(* though it was read and copied file by file under other writers:          *)
(* verifySandboxManifest's second inventory.                               *)
SealedIsSnapshot == box.marker = "sealed" => box.tree \in past

(* What a preparation offers to apply is what was verified: the prepared    *)
(* files are the final tree's, every other file is the canonical one, and   *)
(* every stage that passed judged exactly that tree, whatever formatters,   *)
(* checks and tests wrote, in the tree or in copies, and whatever had to be *)
(* restored (transform, commandStage, auditToolDelta).                     *)
PreparedIsVerified ==
  run.pc = "prepared" =>
    /\ \A p \in Paths : box.tree[p] = IF p \in DOMAIN run.files THEN run.files[p] ELSE run.manifest[p].content
    /\ \A i \in DOMAIN run.stages : run.stages[i].status = "passed" /\ run.stages[i].stage # "format"
                                     => run.stages[i].tree = box.tree
    /\ run.claims.tests = "full_tests_passed" => \A stage \in StagesNamed("tests") : stage.tree = box.tree

(* No sweep takes a scratch directory from under a running command, of this *)
(* process or of another that uses the same scratch root, even when a pid   *)
(* has been used again (processOwnerAlive).                                *)
LiveScratchStays ==
  /\ \A i \in Slots : job[i].pc \in {"running", "lingering", "reaped"} =>
       Env(i) \in scratch /\ (job[i].clone => Clone(i) \in scratch)
  /\ proc[Peer] = 1 => [owner |-> [pid |-> Peer, start |-> 1], name |-> <<"env", 0>>] \in scratch

(* A start leaves nothing behind of processes that were killed: no sandbox  *)
(* but one still being created, and no scratch directory but one that could *)
(* not be removed (ReapSandboxes, sweepScratchOwners, createOwnedRoot).     *)
LeftoversReaped ==
  [][self = 0 /\ self' # 0 =>
       /\ \A d \in litter' : d.name = "staging" /\ d.young
       /\ spent' = spent => \A x \in scratch' : proc'[x.owner.pid] = x.owner.start]_vars
=============================================================================
