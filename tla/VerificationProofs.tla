-------------------------- MODULE VerificationProofs --------------------------
(***************************************************************************)
(* Proofs about Sandbox and Verification, for any paths, plans, policies,  *)
(* processes, outside writes and kills.                                    *)
(*                                                                         *)
(* The invariant has a part for each thing an action relies on: the        *)
(* sandbox directory, the inventory of the source, the commands that run,  *)
(* their scratch directories, and what every stage judged.                 *)
(***************************************************************************)
EXTENDS Verification, FiniteSetTheorems, WellFoundedInduction, TLAPS

-----------------------------------------------------------------------------
(* Types. *)

Trees == [Paths -> Contents]
Entries == [content : Contents, stamp : Nat]

Reading == {"inventory", "create", "mark", "name", "copy", "verify"}
Stages == {"format", "idempotency", "format_gate", "parser", "check", "tests", "collect"}
Piped == Stages \cup {"diagnose", "prepared"}
RunPcs == {"idle", "failed", "sealed", "load"} \cup Reading \cup Piped
RunFields == {"pc", "left", "backend", "manifest", "plan", "explicit", "policy", "original", "next", "stages",
              "delta", "queue", "results", "files", "claims", "cancelled"}
Jobs == [pc : {"idle", "running", "lingering", "reaped"}, index : Nat, clone : BOOLEAN, before : Trees,
         tree : Trees, wrote : BOOLEAN, exit : {"none", "ok", "failed", "timed_out", "stopped"}]

RunOK ==
  /\ DOMAIN run = RunFields
  /\ run.pc \in RunPcs /\ run.left \subseteq Paths /\ run.cancelled \in BOOLEAN
  /\ run.manifest \in [Paths -> Entries]
  /\ DOMAIN run.plan \subseteq Paths /\ \A p \in DOMAIN run.plan : run.plan[p] \in Contents
  /\ run.pc \in Piped => IsPolicy(run.policy)
  /\ run.original \in Trees
  /\ run.next \in Nat \ {0} /\ IsList(run.stages)
  /\ run.queue \subseteq Nat
  /\ Group \subseteq Nat /\ \A k \in Group : DOMAIN run.results[k].delta \subseteq Paths
  /\ DOMAIN run.delta \subseteq Paths

WorldOK ==
  /\ disk \in [Paths -> Entries] /\ past \subseteq Trees
  /\ box \in [name : {"none", "staging", "sandbox"}, marker : {"none", "materializing", "sealed", "prepared"},
              tree : Trees]
  /\ job \in [Slots -> Jobs]
  /\ litter \subseteq [name : {"staging", "sandbox"}, marked : BOOLEAN, young : BOOLEAN]
  /\ proc \in [Pids -> Nat] /\ self \in Pids \cup {0} /\ spent \in Nat

TypeInv == RunOK /\ WorldOK

-----------------------------------------------------------------------------
(* The sandbox directory in every phase of the preparation. *)

NothingYet == {"idle", "inventory", "create"}
BoxIs(name, marker) == box.name = name /\ box.marker = marker

BoxInv ==
  /\ self = 0 => run.pc = "idle"
  /\ run.pc \in NothingYet => box = NoBox
  /\ run.pc = "mark" => BoxIs("staging", "none")
  /\ run.pc = "name" => BoxIs("staging", "materializing")
  /\ run.pc \in {"copy", "verify"} => BoxIs("sandbox", "materializing")
  /\ run.pc = "sealed" => BoxIs("sandbox", "sealed")
  /\ run.pc \in {"load"} \cup Piped => BoxIs("sandbox", "prepared")
  /\ run.pc = "failed" => box = NoBox \/ BoxIs("sandbox", "prepared")

(* What a killed process leaves has its marker or is still being made. *)
LitterInv == \A d \in litter : d.name = "sandbox" => d.marked

(* A stamp that is still the inventory's means content that is still the inventory's,
   and the tree that stood when the inventory ended is remembered. *)
Inventoried(p) == run.manifest[p].stamp <= disk[p].stamp
                  /\ (run.manifest[p].stamp = disk[p].stamp => disk[p] = run.manifest[p])
StoodAt(p, tree) == tree[p] = run.manifest[p].content \/ run.manifest[p].stamp < disk[p].stamp

SourceInv ==
  /\ past # {} => ContentOf(disk) \in past
  /\ run.pc \in Reading \cup {"sealed"} => past # {}
  /\ run.pc = "inventory" => \A p \in Paths \ run.left : Inventoried(p)
  /\ run.pc \in Reading \ {"inventory"} =>
       /\ \A p \in Paths : Inventoried(p)
       /\ \E tree \in past :
            /\ \A p \in Paths : StoodAt(p, tree)
            /\ run.pc = "verify" => \A p \in Paths \ run.left : tree[p] = run.manifest[p].content
  /\ run.pc = "sealed" => box.tree = ContentOf(run.manifest) /\ box.tree \in past

-----------------------------------------------------------------------------
(* The commands that run. *)

Busy(i) == job[i].pc # "idle"
Direct(i) == Busy(i) /\ ~job[i].clone
Taken == Group \cup run.queue \cup {job[i].index : i \in {j \in Slots : Busy(j)}}

(* A command runs in the tree alone, or beside others in copies; the commands of a group
   follow each other in the policy. *)
JobInv ==
  /\ run.pc \notin CommandStages => Taken = {} /\ \A i \in Slots : ~Busy(i)
  /\ \A i \in Slots : Direct(i) =>
       i = 1 /\ ~Busy(2) /\ run.queue = {} /\ Group = {} /\ job[1].index = run.next
  /\ Mutating(run.pc) => run.next = 1 /\ run.queue = {} /\ Group \subseteq {1}
                         /\ \A i \in Slots : Busy(i) => Direct(i)
  /\ Taken # {} => \E last \in DOMAIN CommandsOf(run.pc) : Taken = run.next..last

(* Their scratch directories, and the other process's. *)
ScratchInv ==
  /\ self = 0 => spent > 0
  /\ LiveScratchStays

-----------------------------------------------------------------------------
(* What the stages judged, and what the preparation offers. *)

(* The tree between commands: a command in the tree itself is judged against the tree it
   found. *)
Settled == IF Direct(1) THEN job[1].before ELSE box.tree

(* The plan's files over the canonical ones, and what the formatter wrote over both. *)
Base(p) == IF p \in DOMAIN run.plan THEN run.plan[p] ELSE run.manifest[p].content
Over(delta, tree) == \A p \in Paths : tree[p] = IF p \in DOMAIN delta THEN delta[p] ELSE Base(p)

Judging == {"format_gate", "parser", "check", "tests", "collect"}

LoadInv ==
  /\ run.pc \in Reading \cup {"sealed", "load", "format"} => run.stages = <<>> /\ DOMAIN run.delta = {}
  /\ run.pc \in {"load"} \cup Stages => run.files = run.plan
  /\ run.pc = "load" => Over(run.delta, box.tree)

FormatInv ==
  /\ run.pc = "format" /\ Group = {} => Over(run.delta, Settled)
  /\ run.pc = "format" /\ Group # {} /\ run.results[1].status = "passed" => Over(run.results[1].delta, box.tree)
  /\ run.pc = "idempotency" => \A i \in DOMAIN run.stages : run.stages[i].stage = "format"
  /\ run.pc = "idempotency" /\ Group = {} => Over(run.delta, Settled)
  /\ run.pc = "idempotency" /\ Group # {} /\ ~Nondeterministic(run.results[1]) => Over(run.delta, box.tree)

Speaks(record, tree) == record.status = "passed" => record.tree = tree

JudgeInv ==
  run.pc \in Judging =>
    /\ Over(run.delta, Settled)
    /\ \A i \in DOMAIN run.stages : run.stages[i].stage # "format" => Speaks(run.stages[i], Settled)
    /\ \A k \in Group : Speaks(run.results[k], Settled)
    /\ \A i \in Slots : Busy(i) => job[i].before = Settled

Offered ==
  /\ \A p \in Paths : box.tree[p] = IF p \in DOMAIN run.files THEN run.files[p] ELSE run.manifest[p].content
  /\ \A i \in DOMAIN run.stages : run.stages[i].stage # "format" => Speaks(run.stages[i], box.tree)
  /\ run.claims.tests = "full_tests_passed" => \A stage \in StagesNamed("tests") : stage.tree = box.tree
OfferInv == run.pc \in {"diagnose", "prepared"} => Offered

IInv == /\ TypeInv
        /\ BoxInv /\ LitterInv /\ SourceInv
        /\ JobInv /\ ScratchInv
        /\ LoadInv /\ FormatInv /\ JudgeInv /\ OfferInv

-----------------------------------------------------------------------------
(* The operators the model is built from. *)

(* Min finds the least member of a set of naturals. *)
LEMMA Minimum ==
  ASSUME NEW S \in SUBSET Nat, S # {}
  PROVE  Min(S) \in S /\ \A m \in S : Min(S) <= m
<1> DEFINE R == {ss \in Nat \X Nat : ss[1] < ss[2]}
<1>1. IsWellFoundedOn(R, Nat)
  BY NatLessThanWellFounded DEF OpToRel
<1>2. \E x \in S : \A y \in S : ~(<<y, x>> \in R)
  <2> HIDE DEF R
  <2> QED BY <1>1, WFMin
<1>3. PICK x \in S : \A y \in S : ~(<<y, x>> \in R)
  BY <1>2
<1>4. ASSUME NEW y \in S PROVE x <= y
  <2>1. <<y, x>> \in Nat \X Nat /\ x \in Nat /\ y \in Nat
    OBVIOUS
  <2>2. ~(y < x)
    BY <1>3, <2>1
  <2> QED BY <2>1, <2>2
<1> QED BY <1>3, <1>4 DEF Min

(* The other process is the one with the highest pid, and not this one at first. *)
LEMMA PidFacts ==
  Pids \subseteq Nat \ {0} /\ Peer \in Pids /\ Min(Pids) \in Pids /\ Min(Pids) # Peer
<1>1. PICK low \in Pids, top \in Pids : low < top /\ Pids \subseteq low..top
  BY PidsAssumption
<1>2. Pids \subseteq Nat \ {0} /\ Pids # {}
  BY PidsAssumption, <1>1
<1>3. \A n \in Pids : n <= top /\ n \in Nat
  BY <1>1, <1>2
<1>4. Peer \in Pids /\ \A n \in Pids : Peer >= n
  <2>1. \E x \in Pids : \A y \in Pids : x >= y
    BY <1>3
  <2> QED BY <2>1 DEF Peer, Max
<1>5. Min(Pids) \in Pids /\ \A n \in Pids : Min(Pids) <= n
  BY <1>2, Minimum
<1>6. Min(Pids) < Peer
  <2>1. Min(Pids) <= low /\ top <= Peer
    BY <1>1, <1>3, <1>4, <1>5
  <2>2. low \in Nat /\ top \in Nat /\ Min(Pids) \in Nat /\ Peer \in Nat /\ low < top
    BY <1>1, <1>3, <1>4, <1>5
  <2> QED BY <2>1, <2>2
<1> QED BY <1>2, <1>4, <1>5, <1>6, <1>3

(* The stage that follows each stage. *)
LEMMA Afters ==
  /\ After("format") = "idempotency" /\ After("idempotency") = "format_gate" /\ After("format_gate") = "parser"
  /\ After("parser") = "check" /\ After("check") = "tests" /\ After("tests") = "collect"
<1> DEFINE At_(stage) == CHOOSE i \in DOMAIN StageOrder : StageOrder[i] = stage
<1>1. /\ DOMAIN StageOrder = 1..7
      /\ StageOrder[1] = "format" /\ StageOrder[2] = "idempotency" /\ StageOrder[3] = "format_gate"
      /\ StageOrder[4] = "parser" /\ StageOrder[5] = "check" /\ StageOrder[6] = "tests"
      /\ StageOrder[7] = "collect"
  BY DEF StageOrder
<1>2. \A i \in DOMAIN StageOrder : i = 1 \/ i = 2 \/ i = 3 \/ i = 4 \/ i = 5 \/ i = 6 \/ i = 7
  BY <1>1
<1>3. ASSUME NEW n \in 1..7 PROVE At_(StageOrder[n]) = n
  <2>1. \A i \in DOMAIN StageOrder : StageOrder[i] = StageOrder[n] => i = n
    BY <1>1, <1>2
  <2>2. n \in DOMAIN StageOrder
    BY <1>1
  <2> QED BY <2>1, <2>2
<1>4. \A n \in 1..7 : After(StageOrder[n]) = StageOrder[1 + n]
  BY <1>3 DEF After
<1> QED BY <1>1, <1>4

(* Lists. *)
LEMMA ListsOf ==
  ASSUME NEW S, NEW list \in Seq(S)
  PROVE  IsList(list)
<1>1. DOMAIN list = 1..Len(list) /\ Len(list) \in Nat
  OBVIOUS
<1>2. \A i \in 1..Len(list) : list[i] \in Range(list)
  BY <1>1 DEF Range
<1>3. list = [i \in 1..Len(list) |-> list[i]]
  OBVIOUS
<1>4. [i \in 1..Len(list) |-> list[i]] \in Seq(Range(list))
  BY <1>1, <1>2
<1> QED BY <1>3, <1>4 DEF IsList

LEMMA NoneIsList == IsList(<<>>) /\ Len(<<>>) = 0
<1>1. <<>> \in Seq({})
  OBVIOUS
<1> QED BY <1>1, ListsOf

LEMMA OneIsList == ASSUME NEW x PROVE IsList(<<x>>) /\ Len(<<x>>) = 1 /\ <<x>>[1] = x
<1>1. <<x>> \in Seq({x})
  OBVIOUS
<1> QED BY <1>1, ListsOf

(* Joined lists hold what either holds. *)
HoldsOf(list, s, t) == \A i \in DOMAIN list : (\E j \in DOMAIN s : list[i] = s[j]) \/ (\E j \in DOMAIN t : list[i] = t[j])
HoldsAlso(list, s, x) == \A i \in DOMAIN list : list[i] = x \/ \E j \in DOMAIN s : list[i] = s[j]

LEMMA Joined ==
  ASSUME NEW s, NEW t, IsList(s), IsList(t)
  PROVE  IsList(s \o t) /\ HoldsOf(s \o t, s, t)
<1> DEFINE S == Range(s) \cup Range(t)
<1>1. s \in Seq(S) /\ t \in Seq(S)
  BY DEF IsList
<1>2. s \o t \in Seq(S)
  BY <1>1
<1>3. ASSUME NEW i \in DOMAIN (s \o t)
      PROVE  (\E j \in DOMAIN s : (s \o t)[i] = s[j]) \/ (\E j \in DOMAIN t : (s \o t)[i] = t[j])
  <2> HIDE DEF S
  <2>1. i \in 1..(Len(s) + Len(t)) /\ Len(s) \in Nat /\ Len(t) \in Nat /\ DOMAIN s = 1..Len(s) /\ DOMAIN t = 1..Len(t)
    BY <1>1
  <2>2. CASE i <= Len(s)
    BY <1>1, <2>1, <2>2
  <2>3. CASE i > Len(s)
    <3>1. i - Len(s) \in 1..Len(t) /\ (s \o t)[i] = t[i - Len(s)]
      BY <1>1, <2>1, <2>3
    <3> QED BY <3>1, <2>1
  <2> QED BY <2>1, <2>2, <2>3
<1>4. HoldsOf(s \o t, s, t)
  BY <1>3 DEF HoldsOf
<1> QED BY <1>2, <1>4, ListsOf

LEMMA Appended ==
  ASSUME NEW s, NEW x, IsList(s)
  PROVE  IsList(Append(s, x)) /\ HoldsAlso(Append(s, x), s, x)
<1> DEFINE S == Range(s) \cup {x}
<1>1. s \in Seq(S) /\ x \in S
  BY DEF IsList
<1>2. Append(s, x) \in Seq(S)
  BY <1>1
<1>3. ASSUME NEW i \in DOMAIN Append(s, x)
      PROVE  Append(s, x)[i] = x \/ \E j \in DOMAIN s : Append(s, x)[i] = s[j]
  <2> HIDE DEF S
  <2>1. i \in 1..(Len(s) + 1) /\ Len(s) \in Nat /\ DOMAIN s = 1..Len(s)
    BY <1>1
  <2>2. CASE i = Len(s) + 1
    BY <1>1, <2>1, <2>2
  <2>3. CASE i # Len(s) + 1
    BY <1>1, <2>1, <2>3
  <2> QED BY <2>2, <2>3
<1>4. HoldsAlso(Append(s, x), s, x)
  BY <1>3 DEF HoldsAlso
<1> QED BY <1>2, <1>4, ListsOf

(* A policy has at most one formatter, whatever the project's files make of it. *)
LEMMA DefaultIsPolicy == IsPolicy(DefaultPipelinePolicy)
<1> DEFINE none == <<>>
<1>1. DefaultPipelinePolicy =
        [version |-> 1, config |-> FALSE, mode |-> "check", scope |-> "declared", gate |-> none, transform |-> none,
         check |-> none, tests |-> none, maxChanged |-> 256, maxParallel |-> 1, trusted |-> FALSE]
  BY DEF DefaultPipelinePolicy
<1>2. IsList(none) /\ Len(none) = 0
  BY NoneIsList
<1> HIDE DEF none
<1> QED BY <1>1, <1>2 DEF IsPolicy

PolicyFields == {"version", "config", "mode", "scope", "gate", "transform", "check", "tests", "maxChanged",
                 "maxParallel", "trusted"}
LEMMA PolicyDomain == DOMAIN DefaultPipelinePolicy = PolicyFields
BY DEF DefaultPipelinePolicy, PolicyFields

LEMMA IfIsList ==
  ASSUME NEW condition, NEW commands, IsList(commands)
  PROVE  IsList(If(condition, commands))
BY NoneIsList DEF If

(* Commands are added to the checks and the tests of a policy, and it may get a gate. *)
LEMMA Added ==
  ASSUME NEW policy, IsPolicy(policy), NEW checks, IsList(checks), NEW tests, IsList(tests),
         NEW changed, DOMAIN changed = DOMAIN policy, changed.transform = policy.transform,
         changed.gate = policy.gate \/ (IsList(changed.gate) /\ Len(changed.gate) <= 1),
         changed.check = policy.check \/ changed.check = policy.check \o checks,
         changed.tests = policy.tests \/ changed.tests = policy.tests \o tests
  PROVE  IsPolicy(changed)
<1>1. IsList(policy.check \o checks) /\ IsList(policy.tests \o tests)
  BY Joined DEF IsPolicy
<1> QED BY <1>1 DEF IsPolicy

(* detectGo, detectPython and detectPipelinePolicy. *)
LEMMA GoDetected ==
  ASSUME NEW policy, IsPolicy(policy), NEW makeTests
  PROVE  IsPolicy(detectGo(policy, makeTests))
<1> DEFINE gate == <<Command("gofmt", FALSE, {})>>
           check == <<Command("go-build", FALSE, {}), Command("go-vet", FALSE, {})>>
           tests == If(~makeTests, <<Command("go-test", FALSE, {})>>)
           changed == detectGo(policy, makeTests)
<1>1. IsList(gate) /\ Len(gate) = 1 /\ IsList(tests)
  BY OneIsList, IfIsList
<1>2. IsList(check)
  <2>1. ASSUME NEW x, NEW y PROVE <<x, y>> \in Seq({x, y})
    OBVIOUS
  <2> QED BY <2>1, ListsOf
<1> HIDE DEF gate, check, tests
<1>3. changed = [policy EXCEPT !.mode = "check", !.scope = "whole_repository", !.gate = gate,
                               !.check = policy.check \o check, !.tests = policy.tests \o tests]
  BY DEF detectGo, gate, check, tests
<1>4. DOMAIN policy = PolicyFields
  BY PolicyDomain DEF IsPolicy
<1> HIDE DEF changed
<1>5. /\ DOMAIN changed = DOMAIN policy /\ changed.transform = policy.transform /\ changed.gate = gate
      /\ changed.check = policy.check \o check /\ changed.tests = policy.tests \o tests
  BY <1>3, <1>4 DEF PolicyFields
<1>6. IsList(changed.gate) /\ Len(changed.gate) <= 1
  <2>1. changed.gate = gate /\ Len(gate) = 1
    BY <1>1, <1>5
  <2> QED BY <2>1, <1>1
<1>7. IsPolicy(changed)
  BY <1>1, <1>2, <1>5, <1>6, Added
<1> QED BY <1>7 DEF changed

LEMMA PythonDetected ==
  ASSUME NEW policy, IsPolicy(policy), NEW markers, NEW makeTests, NEW makeLint
  PROVE  IsPolicy(detectPython(policy, markers, makeTests, makeLint))
<1> DEFINE syntax == <<Command("python-syntax", FALSE, {})>>
           ruff == If(~makeLint /\ "ruff" \in markers, <<Command("ruff", FALSE, {})>>)
           tests == If(~makeTests, <<Command("python-test", FALSE, {})>>)
           changed == detectPython(policy, markers, makeTests, makeLint)
<1>1. IsList(syntax) /\ IsList(ruff) /\ IsList(tests)
  BY OneIsList, IfIsList
<1> HIDE DEF syntax, ruff, tests
<1>2. changed = [policy EXCEPT !.check = (policy.check \o syntax) \o ruff, !.tests = policy.tests \o tests]
  BY DEF detectPython, syntax, ruff, tests
<1>3. DOMAIN policy = PolicyFields
  BY PolicyDomain DEF IsPolicy
<1> DEFINE half == [policy EXCEPT !.check = policy.check \o syntax, !.tests = policy.tests \o tests]
<1> HIDE DEF changed
<1>4. /\ DOMAIN half = DOMAIN policy /\ half.transform = policy.transform /\ half.gate = policy.gate
      /\ half.check = policy.check \o syntax /\ half.tests = policy.tests \o tests
  BY <1>3 DEF PolicyFields
<1> HIDE DEF half
<1>5. IsPolicy(half)
  BY <1>1, <1>4, Added
<1>6. /\ DOMAIN changed = DOMAIN half /\ changed.transform = half.transform /\ changed.gate = half.gate
      /\ changed.check = half.check \o ruff /\ changed.tests = half.tests
  BY <1>2, <1>3, <1>4 DEF PolicyFields
<1>7. IsPolicy(changed)
  BY <1>1, <1>5, <1>6, Added
<1> QED BY <1>7 DEF changed

LEMMA Detected ==
  ASSUME NEW markers, NEW policy, IsPolicy(policy)
  PROVE  IsPolicy(detectPipelinePolicy(markers, policy))
<1> DEFINE targets == makefileTargets(markers)
           makeTests == "make test" \in targets
           makeLint == targets \cap {"make lint", "make check"} # {}
           lint == If("make lint" \in targets, <<Command("make-lint", FALSE, {})>>)
           check == If("make check" \in targets, <<Command("make-check", FALSE, {})>>)
           test == If(makeTests, <<Command("make-test", FALSE, {})>>)
           linted == [policy EXCEPT !.check = (policy.check \o lint) \o check, !.tests = policy.tests \o test]
           go == IF "go.mod" \in markers THEN detectGo(linted, makeTests) ELSE linted
           python == IF "python" \in markers THEN detectPython(go, markers, makeTests, makeLint) ELSE go
           npm == If(~makeTests /\ "npm test" \in markers, <<Command("npm-test", FALSE, {})>>)
           half == [policy EXCEPT !.check = policy.check \o lint, !.tests = policy.tests \o test]
           changed == [python EXCEPT !.tests = python.tests \o npm]
<1>1. detectPipelinePolicy(markers, policy) = changed
  BY DEF detectPipelinePolicy
<1>2. IsList(lint) /\ IsList(check) /\ IsList(test) /\ IsList(npm)
  BY OneIsList, IfIsList
<1>3. DOMAIN policy = PolicyFields
  BY PolicyDomain DEF IsPolicy
<1> HIDE DEF lint, check, test, npm, makeTests, makeLint
<1>4. IsPolicy(linted)
  <2>1. /\ DOMAIN half = DOMAIN policy /\ half.transform = policy.transform /\ half.gate = policy.gate
        /\ half.check = policy.check \o lint /\ half.tests = policy.tests \o test
    BY <1>3 DEF PolicyFields
  <2>2. /\ DOMAIN linted = DOMAIN policy /\ linted.transform = policy.transform /\ linted.gate = policy.gate
        /\ linted.check = (policy.check \o lint) \o check /\ linted.tests = policy.tests \o test
    BY <1>3 DEF PolicyFields
  <2> HIDE DEF half, linted
  <2>3. IsPolicy(half)
    BY <1>2, <2>1, Added
  <2>4. /\ DOMAIN linted = DOMAIN half /\ linted.transform = half.transform /\ linted.gate = half.gate
        /\ linted.check = half.check \o check /\ linted.tests = half.tests
    BY <2>1, <2>2
  <2> QED BY <1>2, <2>3, <2>4, Added
<1> HIDE DEF linted
<1>5. IsPolicy(go)
  BY <1>4, GoDetected
<1> HIDE DEF go
<1>6. IsPolicy(python)
  BY <1>5, PythonDetected
<1> HIDE DEF python
<1>7. IsPolicy(changed)
  <2>1. DOMAIN python = PolicyFields
    BY <1>6, PolicyDomain DEF IsPolicy
  <2>2. /\ DOMAIN changed = DOMAIN python /\ changed.transform = python.transform /\ changed.gate = python.gate
        /\ changed.check = python.check /\ changed.tests = python.tests \o npm
    BY <2>1 DEF PolicyFields
  <2> HIDE DEF changed
  <2> QED BY <1>2, <1>6, <2>2, Added
<1> QED BY <1>1, <1>7

LEMMA Loaded ==
  ASSUME NEW project \in Projects
  PROVE  IsPolicy(LoadPipelinePolicyForTrustedRoot(project))
<1> DEFINE own == loadProjectPolicy(project)
           policy == IF own.config THEN own ELSE detectPipelinePolicy(project.markers, own)
           trusted == [policy EXCEPT !.trusted = TrustedRoot]
<1>1. ASSUME NEW old, IsPolicy(old), NEW changed, DOMAIN changed = DOMAIN old, changed.transform = old.transform,
             changed.gate = old.gate, changed.check = old.check, changed.tests = old.tests
      PROVE  IsPolicy(changed)
  BY <1>1 DEF IsPolicy
<1>2. ASSUME NEW old, IsPolicy(old), NEW a, NEW b
      PROVE  /\ IsPolicy([old EXCEPT !.config = a]) /\ IsPolicy([old EXCEPT !.trusted = a])
             /\ IsPolicy([old EXCEPT !.maxChanged = a, !.maxParallel = b])
  <2>1. DOMAIN old = PolicyFields
    BY <1>2, PolicyDomain DEF IsPolicy
  <2> DEFINE x == [old EXCEPT !.config = a]
             y == [old EXCEPT !.trusted = a]
             z == [old EXCEPT !.maxChanged = a, !.maxParallel = b]
  <2>2. /\ DOMAIN x = DOMAIN old /\ x.transform = old.transform
        /\ x.gate = old.gate /\ x.check = old.check /\ x.tests = old.tests
    BY <2>1 DEF PolicyFields
  <2>3. /\ DOMAIN y = DOMAIN old /\ y.transform = old.transform
        /\ y.gate = old.gate /\ y.check = old.check /\ y.tests = old.tests
    BY <2>1 DEF PolicyFields
  <2>4. /\ DOMAIN z = DOMAIN old /\ z.transform = old.transform
        /\ z.gate = old.gate /\ z.check = old.check /\ z.tests = old.tests
    BY <2>1 DEF PolicyFields
  <2> HIDE DEF x, y, z
  <2>5. IsPolicy(x) /\ IsPolicy(y) /\ IsPolicy(z)
    BY <1>1, <1>2, <2>2, <2>3, <2>4
  <2> QED BY <2>5 DEF x, y, z
<1>3. IsPolicy(own)
  BY <1>2, ProjectsAssumption, DefaultIsPolicy DEF loadProjectPolicy
<1> HIDE DEF own
<1>4. IsPolicy(policy)
  BY <1>3, Detected
<1> HIDE DEF policy
<1>5. IsPolicy(trusted)
  BY <1>4, <1>2
<1> HIDE DEF trusted
<1>6. IsPolicy(applyUserResourceCaps(trusted))
  BY <1>5, <1>2 DEF applyUserResourceCaps
<1>7. LoadPipelinePolicyForTrustedRoot(project) = applyUserResourceCaps(trusted)
  BY DEF LoadPipelinePolicyForTrustedRoot, own, policy, trusted
<1> QED BY <1>6, <1>7

-----------------------------------------------------------------------------
(* What several actions do. *)

EarlyPcs == {"idle", "failed", "sealed"} \cup Reading
NoneRuns == Group = {} /\ run.queue = {} /\ \A i \in Slots : ~Busy(i)
NothingJudged == run.stages = <<>> /\ DOMAIN run.delta = {}

(* While no stage runs there are no commands, and outside a group there are none either. *)
LEMMA NoCommands ==
  ASSUME IInv, run.pc \notin CommandStages
  PROVE  NoneRuns
BY DEF IInv, JobInv, Taken, NoneRuns

(* Before the pipeline nothing is judged. *)
LEMMA Early ==
  ASSUME run'.pc \in EarlyPcs, NoneRuns', run'.pc \in Reading \cup {"sealed"} => NothingJudged'
  PROVE  JobInv' /\ LoadInv' /\ FormatInv' /\ JudgeInv' /\ OfferInv'
<1>1. run'.pc \notin Stages \cup {"load", "diagnose", "prepared"}
  BY DEF EarlyPcs, Reading, Stages
<1>2. JobInv'
  BY <1>1 DEF JobInv, Taken, NoneRuns, Stages, CommandStages, Direct, Mutating
<1>3. LoadInv' /\ FormatInv'
  BY <1>1 DEF LoadInv, FormatInv, NothingJudged, Stages
<1>4. JudgeInv' /\ OfferInv'
  BY <1>1 DEF JudgeInv, OfferInv, Judging, Stages
<1> QED BY <1>2, <1>3, <1>4

(* Nothing is left of a preparation that is over. *)
LEMMA Blank ==
  ASSUME run' = NoRun \/ run' = [NoRun EXCEPT !.pc = "failed"]
  PROVE  /\ RunOK' /\ run'.pc \in {"idle", "failed"} /\ Group' = {} /\ run'.queue = {}
         /\ run'.pc = IF run' = NoRun THEN "idle" ELSE "failed"
<1> DEFINE none == [p \in Paths |-> NoEntry]
           empty == <<>>
<1>1. /\ DOMAIN run' = RunFields /\ run'.pc \in {"idle", "failed"} /\ run'.left = {} /\ run'.cancelled = FALSE
      /\ run'.manifest = none /\ run'.plan = empty /\ run'.next = 1 /\ run'.stages = empty /\ run'.delta = empty
      /\ run'.queue = {} /\ run'.results = empty /\ run'.original = NoTree
      /\ run'.pc = IF run' = NoRun THEN "idle" ELSE "failed"
  BY DEF NoRun, RunFields
<1>2. IsList(empty) /\ DOMAIN empty = {}
  BY NoneIsList
<1>3. none \in [Paths -> Entries] /\ NoTree \in Trees
  BY DEF NoEntry, Entries, Contents, NoTree, Trees
<1> HIDE DEF none, empty
<1>4. run'.pc \in RunPcs /\ run'.pc \notin Piped
  BY <1>1 DEF RunPcs, Piped, Stages, Reading
<1>5. Group' = {}
  BY <1>1, <1>2 DEF Group
<1>6. run'.next \in Nat \ {0}
  BY <1>1
<1>7. RunOK'
  BY <1>1, <1>2, <1>3, <1>4, <1>5, <1>6 DEF RunOK
<1> QED BY <1>1, <1>5, <1>7

(* The preparation ends, by an error or by Cleanup. *)
LEMMA Ends ==
  ASSUME IInv, run' = NoRun \/ run' = [NoRun EXCEPT !.pc = "failed"], \A i \in Slots : ~Busy(i)',
         SourceNoLongerRead \/ UNCHANGED <<disk, past>>
  PROVE  RunOK' /\ SourceInv' /\ JobInv' /\ LoadInv' /\ FormatInv' /\ JudgeInv' /\ OfferInv'
<1>1. RunOK' /\ run'.pc \in {"idle", "failed"} /\ Group' = {} /\ run'.queue = {}
  BY Blank
<1>2. JobInv' /\ LoadInv' /\ FormatInv' /\ JudgeInv' /\ OfferInv'
  BY <1>1, Early DEF EarlyPcs, NoneRuns, Reading
<1>3. past' # {} => ContentOf(disk)' \in past'
  BY DEF IInv, SourceInv, SourceNoLongerRead, ContentOf
<1>4. SourceInv'
  BY <1>1, <1>3 DEF SourceInv, Reading
<1> QED BY <1>1, <1>2, <1>4

(* The canonical tree is no longer read. *)
LEMMA NotRead ==
  ASSUME IInv, SourceNoLongerRead \/ UNCHANGED <<disk, past>>
  PROVE  disk' \in [Paths -> Entries] /\ past' \subseteq Trees
<1>1. Fresh \in [Paths -> Entries]
  BY DEF Fresh, Entries, Contents
<1> QED BY <1>1 DEF IInv, TypeInv, WorldOK, SourceNoLongerRead

(* Directories of others, and the scratch directories of the commands that run. *)
LEMMA WorldKept ==
  ASSUME IInv, UNCHANGED World, Quiet \/ Event, job' = job \/ \A i \in Slots : ~Busy(i)'
  PROVE  /\ LitterInv' /\ ScratchInv'
         /\ litter' = litter /\ proc' = proc /\ self' = self /\ spent' \in Nat
<1>1. litter' = litter /\ proc' = proc /\ self' = self /\ scratch' = scratch
  BY DEF World
<1>2. spent \in Nat /\ (spent' = spent \/ spent' = spent + 1)
  BY DEF IInv, TypeInv, WorldOK, Quiet, Event
<1>3. LitterInv'
  BY <1>1 DEF IInv, LitterInv
<1>4. self' = 0 => spent' > 0
  BY <1>1, <1>2 DEF IInv, ScratchInv
<1>5. LiveScratchStays'
  <2>1. ASSUME NEW i \in Slots, Busy(i)'
        PROVE  Env(i)' \in scratch' /\ (job'[i].clone => Clone(i)' \in scratch')
    <3>1. job' = job /\ Busy(i)
      BY <2>1 DEF Busy
    <3>2. job[i].pc \in {"running", "lingering", "reaped"}
      BY <3>1 DEF Busy, IInv, TypeInv, WorldOK, Jobs
    <3> QED BY <1>1, <3>1, <3>2 DEF IInv, ScratchInv, LiveScratchStays, Env, Clone, Owner
  <2> QED BY <1>1, <2>1 DEF IInv, ScratchInv, LiveScratchStays, Busy
<1> QED BY <1>1, <1>2, <1>3, <1>4, <1>5 DEF ScratchInv

(* The sandbox directory is removed, or as it was. *)
LEMMA BoxTypes ==
  /\ NoTree \in Trees
  /\ NoBox \in [name : {"none", "staging", "sandbox"}, marker : {"none", "materializing", "sealed", "prepared"},
                tree : Trees]
  /\ NoBox.name = "none" /\ NoBox.marker = "none"
  /\ NoJob \in Jobs /\ NoJob.pc = "idle"
<1>1. NoTree \in Trees
  BY DEF NoTree, Trees, Contents
<1> HIDE DEF NoTree
<1> QED BY <1>1 DEF NoBox, NoJob, Jobs

(* The preparation goes on reading the source and making the sandbox. *)
Untouched == /\ run'.plan = run.plan /\ run'.next = run.next /\ run'.stages = run.stages
             /\ run'.queue = run.queue /\ run'.results = run.results /\ run'.delta = run.delta
             /\ run'.original = run.original

LEMMA ReadsOn ==
  ASSUME IInv, run.pc \in Reading \cup {"sealed"}, job' = job, DOMAIN run' = RunFields, Untouched,
         run'.pc \in Reading \cup {"sealed"}, run'.left \subseteq Paths, run'.cancelled = run.cancelled,
         run'.manifest \in [Paths -> Entries]
  PROVE  RunOK' /\ JobInv' /\ LoadInv' /\ FormatInv' /\ JudgeInv' /\ OfferInv'
<1>1. NoneRuns /\ NothingJudged
  BY NoCommands DEF IInv, LoadInv, Reading, CommandStages, NothingJudged
<1>2. NoneRuns' /\ NothingJudged'
  BY <1>1 DEF NoneRuns, NothingJudged, Untouched, Group, Busy
<1>3. run'.pc \in EarlyPcs /\ run'.pc \in RunPcs /\ run'.pc \notin Piped
  BY DEF EarlyPcs, RunPcs, Reading, Piped, Stages
<1>4. JobInv' /\ LoadInv' /\ FormatInv' /\ JudgeInv' /\ OfferInv'
  BY <1>2, <1>3, Early
<1>5. Group' = Group /\ Group' = {}
  BY <1>1 DEF NoneRuns, Untouched, Group
<1>6. RunOK'
  BY <1>3, <1>5 DEF RunOK, Untouched, IInv, TypeInv
<1> QED BY <1>4, <1>6

-----------------------------------------------------------------------------
(* Every action keeps the invariant: the sandbox. *)

LEMMA KeepsBegin ==
  ASSUME IInv, NEW plan \in Plans, NEW explicit \in BOOLEAN, Begin(plan, explicit)
  PROVE  IInv'
<1>1. /\ run.pc = "idle" /\ self # 0 /\ past' = {ContentOf(disk)} /\ disk' = disk /\ box' = box /\ job' = job
      /\ UNCHANGED World /\ Quiet
      /\ run' = [NoRun EXCEPT !.pc = "inventory", !.left = Paths, !.plan = plan, !.explicit = explicit]
  BY DEF Begin, At
<1>2. LitterInv' /\ ScratchInv' /\ litter' = litter /\ proc' = proc /\ self' = self /\ spent' \in Nat
  BY <1>1, WorldKept
<1> DEFINE none == [p \in Paths |-> NoEntry]
           empty == <<>>
<1>3. /\ DOMAIN run' = RunFields /\ run'.pc = "inventory" /\ run'.left = Paths /\ run'.cancelled = FALSE
      /\ run'.manifest = none /\ run'.plan = plan /\ run'.next = 1 /\ run'.stages = empty /\ run'.delta = empty
      /\ run'.queue = {} /\ run'.results = empty /\ run'.original = NoTree
  BY <1>1 DEF NoRun, RunFields
<1>4. IsList(empty) /\ DOMAIN empty = {}
  BY NoneIsList
<1>5. none \in [Paths -> Entries]
  BY DEF NoEntry, Entries, Contents
<1> HIDE DEF none, empty
<1>6. Group' = {}
  BY <1>3, <1>4 DEF Group
<1>7. DOMAIN plan \subseteq Paths /\ \A p \in DOMAIN plan : plan[p] \in Contents
  BY PlansAssumption DEF Range
<1>8. run'.pc \in RunPcs /\ run'.pc \notin Piped /\ run'.pc \in EarlyPcs
  BY <1>3 DEF RunPcs, Piped, Stages, Reading, EarlyPcs
<1>9. run'.next \in Nat \ {0}
  BY <1>3
<1>10. RunOK'
  BY <1>3, <1>4, <1>5, <1>6, <1>7, <1>8, <1>9, BoxTypes DEF RunOK
<1>11. NoneRuns
  BY <1>1, NoCommands DEF CommandStages
<1>12. JobInv' /\ LoadInv' /\ FormatInv' /\ JudgeInv' /\ OfferInv'
  BY <1>1, <1>3, <1>4, <1>6, <1>8, <1>11, Early DEF NoneRuns, NothingJudged, Busy
<1>13. ContentOf(disk) \in Trees
  BY DEF IInv, TypeInv, WorldOK, ContentOf, Trees, Entries
<1>14. WorldOK'
  BY <1>1, <1>2, <1>13 DEF IInv, TypeInv, WorldOK
<1>15. BoxInv'
  BY <1>1, <1>2, <1>3 DEF IInv, BoxInv, NothingYet, Reading, Piped, Stages
<1>16. SourceInv'
  BY <1>1, <1>3 DEF SourceInv, Reading, ContentOf
<1> QED BY <1>2, <1>10, <1>12, <1>14, <1>15, <1>16 DEF IInv, TypeInv

(* The source as it was inventoried, while the copy is made. *)
LEMMA SourceKept ==
  ASSUME IInv, run.pc \in Reading \ {"inventory"}, UNCHANGED <<disk, past>>, run'.manifest = run.manifest,
         run'.pc \in Reading \ {"inventory"}, run'.pc = "verify" => run'.left = Paths
  PROVE  SourceInv'
<1>1. past # {} /\ past' = past /\ disk' = disk /\ ContentOf(disk) \in past
  BY DEF IInv, SourceInv
<1>2. ContentOf(disk)' \in past'
  BY <1>1 DEF ContentOf
<1>3. \A p \in Paths : Inventoried(p)'
  BY <1>1 DEF IInv, SourceInv, Inventoried
<1>4. \E tree \in past : \A p \in Paths : StoodAt(p, tree)
  BY DEF IInv, SourceInv
<1>5. \E tree \in past' : \A p \in Paths : StoodAt(p, tree)'
  BY <1>1, <1>4 DEF StoodAt
<1>6. run'.pc = "verify" => Paths \ run'.left = {}
  OBVIOUS
<1> QED BY <1>1, <1>2, <1>3, <1>5, <1>6 DEF SourceInv, Reading

LEMMA KeepsInventory ==
  ASSUME IInv, NEW p \in Paths, inventorySandboxTree(p)
  PROVE  IInv'
<1> USE DEF Untouched
<1>1. /\ run.pc = "inventory" /\ self # 0 /\ UNCHANGED <<disk, past, box, job>> /\ p \in run.left
      /\ UNCHANGED World /\ Quiet
      /\ run' = [run EXCEPT !.left = run.left \ {p}, !.manifest = [run.manifest EXCEPT ![p] = disk[p]],
                            !.pc = IF run.left = {p} THEN "create" ELSE run.pc, !.backend = "reflink"]
  BY DEF inventorySandboxTree, At
<1>2. DOMAIN run = RunFields /\ run.manifest \in [Paths -> Entries] /\ run.left \subseteq Paths
      /\ disk \in [Paths -> Entries] /\ box' = box /\ job' = job
  BY <1>1 DEF IInv, TypeInv, RunOK, WorldOK
<1>3. PICK to \in {"create", "inventory"} : to = IF run.left = {p} THEN "create" ELSE run.pc
  BY <1>1
<1>4. PICK manifest \in [Paths -> Entries] : manifest = [run.manifest EXCEPT ![p] = disk[p]]
  BY <1>2
<1>5. /\ DOMAIN run' = RunFields /\ run'.left = run.left \ {p} /\ run'.manifest = manifest /\ run'.pc = to
      /\ Untouched /\ run'.cancelled = run.cancelled
  BY <1>1, <1>2, <1>3, <1>4 DEF RunFields
<1>6. LitterInv' /\ ScratchInv' /\ litter' = litter /\ proc' = proc /\ self' = self /\ spent' \in Nat
  BY <1>1, WorldKept
<1>7. RunOK' /\ JobInv' /\ LoadInv' /\ FormatInv' /\ JudgeInv' /\ OfferInv'
  BY <1>1, <1>2, <1>5, ReadsOn DEF Reading
<1>8. WorldOK'
  BY <1>1, <1>6 DEF IInv, TypeInv, WorldOK
<1>9. BoxInv'
  BY <1>1, <1>2, <1>5, <1>6 DEF IInv, BoxInv, NothingYet, Reading, Piped, Stages
<1>10. past # {} /\ ContentOf(disk) \in past /\ past' = past /\ disk' = disk
  BY <1>1 DEF IInv, SourceInv, Reading
<1>11. \A q \in Paths \ run'.left : Inventoried(q)'
  <2> SUFFICES ASSUME NEW q \in Paths, q \notin run.left \/ q = p PROVE Inventoried(q)'
    BY <1>5
  <2>1. CASE q = p
    <3>1. run'.manifest[p] = disk'[p] /\ disk[p].stamp \in Nat
      BY <1>2, <1>4, <1>5, <1>10 DEF Entries
    <3> QED BY <2>1, <3>1, <1>10 DEF Inventoried
  <2>2. CASE q # p
    <3>1. Inventoried(q)
      BY <1>1, <2>2 DEF IInv, SourceInv
    <3>2. run'.manifest[q] = run.manifest[q]
      BY <1>2, <1>4, <1>5, <2>2
    <3> QED BY <3>1, <3>2, <1>10 DEF Inventoried
  <2> QED BY <2>1, <2>2
<1>12. run'.pc = "create" => \A q \in Paths : Inventoried(q)'
  BY <1>1, <1>3, <1>5, <1>11
<1>13. run'.pc = "create" => \A q \in Paths : StoodAt(q, ContentOf(disk))'
  <2> SUFFICES ASSUME run'.pc = "create", NEW q \in Paths PROVE StoodAt(q, ContentOf(disk))'
    OBVIOUS
  <2>1. Inventoried(q)'
    BY <1>12
  <2>2. run'.manifest[q].stamp \in Nat /\ disk'[q].stamp \in Nat
    BY <1>2, <1>5, <1>10 DEF Entries
  <2> QED BY <2>1, <2>2 DEF StoodAt, Inventoried, ContentOf
<1>14. ContentOf(disk)' \in past'
  BY <1>10 DEF ContentOf
<1>15. SourceInv'
  BY <1>3, <1>5, <1>10, <1>11, <1>12, <1>13, <1>14 DEF SourceInv, Reading
<1> QED BY <1>6, <1>7, <1>8, <1>9, <1>15 DEF IInv, TypeInv

LEMMA KeepsCreateStaging ==
  ASSUME IInv, createStaging
  PROVE  IInv'
<1> USE DEF Untouched
<1>1. /\ run.pc = "create" /\ self # 0 /\ UNCHANGED <<disk, past, job>> /\ UNCHANGED World /\ Quiet
      /\ box' = [NoBox EXCEPT !.name = "staging"] /\ run' = [run EXCEPT !.pc = "mark"]
  BY DEF createStaging, At
<1>2. DOMAIN run = RunFields /\ run.manifest \in [Paths -> Entries] /\ run.left \subseteq Paths
  BY DEF IInv, TypeInv, RunOK
<1>3. DOMAIN run' = RunFields /\ run'.left = run.left /\ run'.manifest = run.manifest /\ run'.pc = "mark"
      /\ Untouched /\ run'.cancelled = run.cancelled
  BY <1>1, <1>2 DEF RunFields
<1>4. LitterInv' /\ ScratchInv' /\ litter' = litter /\ proc' = proc /\ self' = self /\ spent' \in Nat
  BY <1>1, WorldKept
<1>5. RunOK' /\ JobInv' /\ LoadInv' /\ FormatInv' /\ JudgeInv' /\ OfferInv'
  BY <1>1, <1>2, <1>3, ReadsOn DEF Reading
<1>6. box'.name = "staging" /\ box'.marker = "none" /\ box' \in [name : {"none", "staging", "sandbox"},
        marker : {"none", "materializing", "sealed", "prepared"}, tree : Trees]
  BY <1>1, BoxTypes DEF NoBox
<1>7. WorldOK'
  BY <1>1, <1>4, <1>6 DEF IInv, TypeInv, WorldOK
<1>8. BoxInv'
  BY <1>1, <1>3, <1>4, <1>6 DEF BoxInv, BoxIs, NothingYet, Reading, Piped, Stages
<1>9. SourceInv'
  BY <1>1, <1>3, SourceKept DEF Reading
<1> QED BY <1>4, <1>5, <1>7, <1>8, <1>9 DEF IInv, TypeInv

LEMMA KeepsMarkStaging ==
  ASSUME IInv, markStaging
  PROVE  IInv'
<1> USE DEF Untouched
<1>1. /\ run.pc = "mark" /\ self # 0 /\ UNCHANGED <<disk, past, job>> /\ UNCHANGED World /\ Quiet
      /\ box' = [box EXCEPT !.marker = "materializing"] /\ run' = [run EXCEPT !.pc = "name"]
  BY DEF markStaging, writeMarker, At
<1>2. DOMAIN run = RunFields /\ run.manifest \in [Paths -> Entries] /\ run.left \subseteq Paths
  BY DEF IInv, TypeInv, RunOK
<1>3. DOMAIN run' = RunFields /\ run'.left = run.left /\ run'.manifest = run.manifest /\ run'.pc = "name"
      /\ Untouched /\ run'.cancelled = run.cancelled
  BY <1>1, <1>2 DEF RunFields
<1>4. LitterInv' /\ ScratchInv' /\ litter' = litter /\ proc' = proc /\ self' = self /\ spent' \in Nat
  BY <1>1, WorldKept
<1>5. RunOK' /\ JobInv' /\ LoadInv' /\ FormatInv' /\ JudgeInv' /\ OfferInv'
  BY <1>1, <1>2, <1>3, ReadsOn DEF Reading
<1>6. box.name = "staging"
  BY <1>1 DEF IInv, BoxInv, BoxIs
<1>7. WorldOK' /\ box'.name = "staging" /\ box'.marker = "materializing"
  BY <1>1, <1>4, <1>6 DEF IInv, TypeInv, WorldOK
<1>8. BoxInv'
  BY <1>1, <1>3, <1>4, <1>7 DEF BoxInv, BoxIs, NothingYet, Reading, Piped, Stages
<1>9. SourceInv'
  BY <1>1, <1>3, SourceKept DEF Reading
<1> QED BY <1>4, <1>5, <1>7, <1>8, <1>9 DEF IInv, TypeInv

LEMMA KeepsCreateOwnedRoot ==
  ASSUME IInv, createOwnedRoot
  PROVE  IInv'
<1> USE DEF Untouched
<1>1. /\ run.pc = "name" /\ self # 0 /\ UNCHANGED <<disk, past, job>> /\ UNCHANGED World /\ Quiet
      /\ box' = [box EXCEPT !.name = "sandbox"]
      /\ run' = [run EXCEPT !.pc = "copy", !.left = {p \in Paths : run.manifest[p].content # "none"}]
  BY DEF createOwnedRoot, At
<1>2. DOMAIN run = RunFields /\ run.manifest \in [Paths -> Entries] /\ run.left \subseteq Paths
  BY DEF IInv, TypeInv, RunOK
<1>3. DOMAIN run' = RunFields /\ run'.left \subseteq Paths /\ run'.manifest = run.manifest /\ run'.pc = "copy"
      /\ Untouched /\ run'.cancelled = run.cancelled
  BY <1>1, <1>2 DEF RunFields
<1>4. LitterInv' /\ ScratchInv' /\ litter' = litter /\ proc' = proc /\ self' = self /\ spent' \in Nat
  BY <1>1, WorldKept
<1>5. RunOK' /\ JobInv' /\ LoadInv' /\ FormatInv' /\ JudgeInv' /\ OfferInv'
  BY <1>1, <1>2, <1>3, ReadsOn DEF Reading
<1>6. box.marker = "materializing"
  BY <1>1 DEF IInv, BoxInv, BoxIs
<1>7. WorldOK' /\ box'.name = "sandbox" /\ box'.marker = "materializing"
  BY <1>1, <1>4, <1>6 DEF IInv, TypeInv, WorldOK
<1>8. BoxInv'
  BY <1>1, <1>3, <1>4, <1>7 DEF BoxInv, BoxIs, NothingYet, Reading, Piped, Stages
<1>9. SourceInv'
  BY <1>1, <1>3, SourceKept DEF Reading
<1> QED BY <1>4, <1>5, <1>7, <1>8, <1>9 DEF IInv, TypeInv

(* A step that ends the preparation keeps the invariant: the sandbox is gone, or prepared and
   left for Cleanup. *)
LEMMA FailsKeeps ==
  ASSUME IInv, Fails, self # 0, \A i \in Slots : ~Busy(i), UNCHANGED <<job, World>>, Quiet \/ Event,
         box' = NoBox \/ (box'.tree \in Trees /\ run.pc \in {"load"} \cup Piped /\ box' = [box EXCEPT !.tree = box'.tree])
  PROVE  IInv'
<1>1. LitterInv' /\ ScratchInv' /\ litter' = litter /\ proc' = proc /\ self' = self /\ spent' \in Nat
  BY WorldKept
<1>2. \A i \in Slots : ~Busy(i)'
  BY DEF Busy
<1>3. RunOK' /\ SourceInv' /\ JobInv' /\ LoadInv' /\ FormatInv' /\ JudgeInv' /\ OfferInv'
  BY <1>2, Ends DEF Fails
<1>4. run'.pc = "failed"
  BY DEF Fails, NoRun
<1>5. disk' \in [Paths -> Entries] /\ past' \subseteq Trees
  BY NotRead DEF Fails
<1>6. box' = NoBox \/ BoxIs("sandbox", "prepared")'
  BY DEF IInv, BoxInv, BoxIs, TypeInv, WorldOK
<1>7. WorldOK'
  BY <1>1, <1>5, BoxTypes DEF IInv, TypeInv, WorldOK
<1>8. BoxInv'
  BY <1>1, <1>4, <1>6 DEF BoxInv, NothingYet, Piped, Stages
<1> QED BY <1>1, <1>3, <1>7, <1>8 DEF IInv, TypeInv

LEMMA KeepsMaterialize ==
  ASSUME IInv, NEW p \in Paths, materializeEntry(p)
  PROVE  IInv'
<1> USE DEF Untouched
<1>1. run.pc = "copy" /\ self # 0 /\ UNCHANGED <<job, World>> /\ Quiet /\ job' = job
  BY DEF materializeEntry, At
<1>2. CASE Removed /\ Fails
  BY <1>1, <1>2, NoCommands, FailsKeeps DEF Removed, CommandStages, NoneRuns
<1>3. CASE /\ box' = [box EXCEPT !.tree[p] = copySandboxFile(p)]
           /\ run' = [run EXCEPT !.left = @ \ {p}]
           /\ UNCHANGED <<disk, past>>
  <2>1. DOMAIN run = RunFields /\ run.manifest \in [Paths -> Entries] /\ run.left \subseteq Paths
    BY DEF IInv, TypeInv, RunOK
  <2>2. DOMAIN run' = RunFields /\ run'.left \subseteq Paths /\ run'.manifest = run.manifest /\ run'.pc = "copy"
        /\ Untouched /\ run'.cancelled = run.cancelled
    BY <1>1, <1>3, <2>1 DEF RunFields
  <2>3. LitterInv' /\ ScratchInv' /\ litter' = litter /\ proc' = proc /\ self' = self /\ spent' \in Nat
    BY <1>1, WorldKept
  <2>4. RunOK' /\ JobInv' /\ LoadInv' /\ FormatInv' /\ JudgeInv' /\ OfferInv'
    BY <1>1, <2>1, <2>2, ReadsOn DEF Reading
  <2>5. box.name = "sandbox" /\ box.marker = "materializing" /\ box.tree \in Trees
    BY <1>1 DEF IInv, BoxInv, BoxIs, TypeInv, WorldOK
  <2>6. copySandboxFile(p) \in Contents
    BY DEF copySandboxFile, IInv, TypeInv, WorldOK, Entries
  <2>7. [box.tree EXCEPT ![p] = copySandboxFile(p)] \in Trees
    BY <2>5, <2>6 DEF Trees
  <2>8. box' = [box EXCEPT !.tree = [box.tree EXCEPT ![p] = copySandboxFile(p)]]
    BY <1>3
  <2>9. WorldOK' /\ box'.name = "sandbox" /\ box'.marker = "materializing"
    BY <1>1, <1>3, <2>3, <2>5, <2>7, <2>8 DEF IInv, TypeInv, WorldOK
  <2>10. BoxInv'
    BY <1>1, <2>2, <2>3, <2>9 DEF BoxInv, BoxIs, NothingYet, Reading, Piped, Stages
  <2>11. SourceInv'
    BY <1>1, <1>3, <2>2, SourceKept DEF Reading
  <2> QED BY <2>3, <2>4, <2>9, <2>10, <2>11 DEF IInv, TypeInv
<1> QED BY <1>2, <1>3 DEF materializeEntry

LEMMA KeepsReflinkUnsupported ==
  ASSUME IInv, ReflinkUnsupported
  PROVE  IInv'
<1> USE DEF Untouched
<1>1. /\ run.pc = "copy" /\ self # 0 /\ UNCHANGED <<disk, past, job>> /\ UNCHANGED World /\ Event
      /\ box' = NoBox /\ run' = [run EXCEPT !.pc = "create", !.backend = "safe_copy"]
  BY DEF ReflinkUnsupported, Removed, At
<1>2. DOMAIN run = RunFields /\ run.manifest \in [Paths -> Entries] /\ run.left \subseteq Paths
  BY DEF IInv, TypeInv, RunOK
<1>3. DOMAIN run' = RunFields /\ run'.left = run.left /\ run'.manifest = run.manifest /\ run'.pc = "create"
      /\ Untouched /\ run'.cancelled = run.cancelled
  BY <1>1, <1>2 DEF RunFields
<1>4. LitterInv' /\ ScratchInv' /\ litter' = litter /\ proc' = proc /\ self' = self /\ spent' \in Nat
  BY <1>1, WorldKept
<1>5. RunOK' /\ JobInv' /\ LoadInv' /\ FormatInv' /\ JudgeInv' /\ OfferInv'
  BY <1>1, <1>2, <1>3, ReadsOn DEF Reading
<1>6. WorldOK'
  BY <1>1, <1>4, BoxTypes DEF IInv, TypeInv, WorldOK
<1>7. BoxInv'
  BY <1>1, <1>3, <1>4 DEF BoxInv, BoxIs, NothingYet, Reading, Piped, Stages
<1>8. SourceInv'
  BY <1>1, <1>3, SourceKept DEF Reading
<1> QED BY <1>4, <1>5, <1>6, <1>7, <1>8 DEF IInv, TypeInv

LEMMA KeepsCopied ==
  ASSUME IInv, Copied
  PROVE  IInv'
<1> USE DEF Untouched
<1>1. /\ run.pc = "copy" /\ self # 0 /\ UNCHANGED <<disk, past, box, job>> /\ UNCHANGED World /\ Quiet
      /\ run' = [run EXCEPT !.pc = "verify", !.left = Paths]
  BY DEF Copied, At
<1>2. DOMAIN run = RunFields /\ run.manifest \in [Paths -> Entries] /\ run.left \subseteq Paths
  BY DEF IInv, TypeInv, RunOK
<1>3. DOMAIN run' = RunFields /\ run'.left = Paths /\ run'.manifest = run.manifest /\ run'.pc = "verify"
      /\ Untouched /\ run'.cancelled = run.cancelled
  BY <1>1, <1>2 DEF RunFields
<1>4. LitterInv' /\ ScratchInv' /\ litter' = litter /\ proc' = proc /\ self' = self /\ spent' \in Nat
  BY <1>1, WorldKept
<1>5. RunOK' /\ JobInv' /\ LoadInv' /\ FormatInv' /\ JudgeInv' /\ OfferInv'
  BY <1>1, <1>2, <1>3, ReadsOn DEF Reading
<1>6. WorldOK'
  BY <1>1, <1>4 DEF IInv, TypeInv, WorldOK
<1>7. BoxInv'
  BY <1>1, <1>3, <1>4 DEF IInv, BoxInv, BoxIs, NothingYet, Reading, Piped, Stages
<1>8. SourceInv'
  BY <1>1, <1>3, SourceKept DEF Reading
<1> QED BY <1>4, <1>5, <1>6, <1>7, <1>8 DEF IInv, TypeInv

(* The source is read again, entry by entry: the tree that stood when the inventory ended is
   still the one the manifest lists. *)
LEMMA KeepsVerify ==
  ASSUME IInv, NEW p \in Paths, verifySandboxManifest(p)
  PROVE  IInv'
<1> USE DEF Untouched
<1>1. run.pc = "verify" /\ self # 0 /\ UNCHANGED <<job, World>> /\ Quiet /\ job' = job /\ p \in run.left
  BY DEF verifySandboxManifest, At
<1>2. CASE Removed /\ Fails
  BY <1>1, <1>2, NoCommands, FailsKeeps DEF Removed, CommandStages, NoneRuns
<1>3. DOMAIN run = RunFields /\ run.manifest \in [Paths -> Entries] /\ run.left \subseteq Paths
      /\ disk \in [Paths -> Entries] /\ past \subseteq Trees /\ box.name = "sandbox" /\ box.marker = "materializing"
  BY <1>1 DEF IInv, TypeInv, RunOK, WorldOK, BoxInv, BoxIs
<1>4. PICK tree \in past : /\ \A q \in Paths : StoodAt(q, tree)
                           /\ \A q \in Paths \ run.left : tree[q] = run.manifest[q].content
  BY <1>1 DEF IInv, SourceInv, Reading
<1>5. ASSUME SourceUnchanged(p) PROVE tree[p] = run.manifest[p].content
  <2>1. disk[p].stamp \in Nat /\ disk[p].stamp = run.manifest[p].stamp
    BY <1>3, <1>5 DEF SourceUnchanged, Entries
  <2> QED BY <1>4, <2>1 DEF StoodAt
<1>6. CASE /\ SourceUnchanged(p) /\ run.left = {p} /\ equalSandboxContent(box.tree)
           /\ writeMarker("sealed") /\ run' = [run EXCEPT !.pc = "sealed", !.left = {}]
           /\ UNCHANGED <<disk, past>>
  <2>1. DOMAIN run' = RunFields /\ run'.left = {} /\ run'.manifest = run.manifest /\ run'.pc = "sealed"
        /\ Untouched /\ run'.cancelled = run.cancelled
    BY <1>6, <1>3 DEF RunFields
  <2>2. LitterInv' /\ ScratchInv' /\ litter' = litter /\ proc' = proc /\ self' = self /\ spent' \in Nat
    BY <1>1, WorldKept
  <2>3. RunOK' /\ JobInv' /\ LoadInv' /\ FormatInv' /\ JudgeInv' /\ OfferInv'
    BY <1>1, <1>3, <2>1, ReadsOn DEF Reading
  <2>4. box' = [box EXCEPT !.marker = "sealed"]
    BY <1>6 DEF writeMarker
  <2>5. WorldOK' /\ box'.name = "sandbox" /\ box'.marker = "sealed" /\ box'.tree = box.tree
    BY <1>1, <1>3, <1>6, <2>2, <2>4 DEF IInv, TypeInv, WorldOK
  <2>6. BoxInv'
    BY <1>1, <2>1, <2>2, <2>5 DEF BoxInv, BoxIs, NothingYet, Reading, Piped, Stages
  <2>7. \A q \in Paths : tree[q] = run.manifest[q].content
    BY <1>4, <1>5, <1>6
  <2>8. tree = ContentOf(run.manifest)
    BY <1>3, <2>7 DEF ContentOf, Trees
  <2>9. box.tree = ContentOf(run.manifest) /\ box.tree \in past
    BY <1>6, <2>8 DEF equalSandboxContent
  <2>10. SourceInv'
    BY <1>1, <1>6, <2>1, <2>5, <2>9 DEF IInv, SourceInv, Reading, ContentOf
  <2> QED BY <2>2, <2>3, <2>5, <2>6, <2>10 DEF IInv, TypeInv
<1>7. CASE /\ SourceUnchanged(p)
           /\ run' = [run EXCEPT !.left = @ \ {p}] /\ UNCHANGED box
           /\ UNCHANGED <<disk, past>>
  <2>1. DOMAIN run' = RunFields /\ run'.left = run.left \ {p} /\ run'.manifest = run.manifest /\ run'.pc = "verify"
        /\ Untouched /\ run'.cancelled = run.cancelled
    BY <1>1, <1>7, <1>3 DEF RunFields
  <2>2. LitterInv' /\ ScratchInv' /\ litter' = litter /\ proc' = proc /\ self' = self /\ spent' \in Nat
    BY <1>1, WorldKept
  <2>3. RunOK' /\ JobInv' /\ LoadInv' /\ FormatInv' /\ JudgeInv' /\ OfferInv'
    BY <1>1, <1>3, <2>1, ReadsOn DEF Reading
  <2>4. WorldOK'
    BY <1>1, <1>7, <2>2 DEF IInv, TypeInv, WorldOK
  <2>5. BoxInv'
    BY <1>1, <1>7, <2>1, <2>2 DEF IInv, BoxInv, BoxIs, NothingYet, Reading, Piped, Stages
  <2>6. \A q \in Paths \ run'.left : tree[q] = run.manifest[q].content
    BY <1>4, <1>5, <1>7, <2>1
  <2>7. /\ \A q \in Paths : StoodAt(q, tree)'
        /\ \A q \in Paths : Inventoried(q)'
    BY <1>1, <1>4, <1>7, <2>1 DEF IInv, SourceInv, StoodAt, Inventoried, Reading
  <2>8. past' # {} /\ tree \in past' /\ ContentOf(disk)' \in past'
    BY <1>1, <1>4, <1>7 DEF IInv, SourceInv, Reading, ContentOf
  <2>9. SourceInv'
    BY <2>1, <2>6, <2>7, <2>8 DEF SourceInv, Reading
  <2> QED BY <2>2, <2>3, <2>4, <2>5, <2>9 DEF IInv, TypeInv
<1> QED BY <1>2, <1>6, <1>7 DEF verifySandboxManifest

LEMMA KeepsMaterializeFails ==
  ASSUME IInv, MaterializeFails
  PROVE  IInv'
BY NoCommands, FailsKeeps DEF MaterializeFails, Removed, CommandStages, NoneRuns

LEMMA KeepsStageFails ==
  ASSUME IInv, StageFails
  PROVE  IInv'
BY NoCommands, FailsKeeps DEF StageFails, Removed, CommandStages, At, NoneRuns

(* What the plan writes over the sealed tree is what the pipeline starts from. *)
LEMMA KeepsApplyPrepared ==
  ASSUME IInv, ApplyPrepared
  PROVE  IInv'
<1> DEFINE tree == [p \in Paths |-> IF p \in DOMAIN run.plan THEN run.plan[p] ELSE Afresh(box.tree[p])]
           manifest == [p \in Paths |-> [content |-> Afresh(run.manifest[p].content), stamp |-> 0]]
<1>1. /\ run.pc = "sealed" /\ self # 0 /\ UNCHANGED <<job, World>> /\ Quiet /\ job' = job /\ SourceNoLongerRead
      /\ box' = [box EXCEPT !.tree = tree, !.marker = "prepared"]
      /\ run' = [run EXCEPT !.pc = "load", !.files = run.plan, !.backend = "none", !.manifest = manifest]
  BY DEF ApplyPrepared, At
<1>2. /\ DOMAIN run = RunFields /\ run.manifest \in [Paths -> Entries] /\ run.left \subseteq Paths
      /\ DOMAIN run.plan \subseteq Paths /\ \A p \in DOMAIN run.plan : run.plan[p] \in Contents
  BY DEF IInv, TypeInv, RunOK
<1>3. box.name = "sandbox" /\ box.tree = ContentOf(run.manifest) /\ box.tree \in Trees
  BY <1>1 DEF IInv, BoxInv, BoxIs, SourceInv, TypeInv, WorldOK
<1>4. ASSUME NEW c \in Contents PROVE Afresh(c) \in Contents
  BY DEF Afresh, Contents
<1>5. tree \in Trees
  <2>1. \A p \in Paths : (IF p \in DOMAIN run.plan THEN run.plan[p] ELSE Afresh(box.tree[p])) \in Contents
    BY <1>2, <1>3, <1>4 DEF Trees
  <2> QED BY <2>1 DEF Trees
<1>6. manifest \in [Paths -> Entries]
  <2>1. \A p \in Paths : Afresh(run.manifest[p].content) \in Contents
    BY <1>2, <1>4 DEF Entries
  <2> QED BY <2>1 DEF Entries
<1>7. \A p \in Paths : tree[p] = IF p \in DOMAIN run.plan THEN run.plan[p] ELSE manifest[p].content
  BY <1>3 DEF ContentOf
<1> HIDE DEF tree, manifest
<1>8. /\ DOMAIN run' = RunFields /\ run'.left = run.left /\ run'.manifest = manifest /\ run'.pc = "load"
      /\ Untouched /\ run'.cancelled = run.cancelled /\ run'.files = run.plan
  BY <1>1, <1>2 DEF RunFields, Untouched
<1>9. LitterInv' /\ ScratchInv' /\ litter' = litter /\ proc' = proc /\ self' = self /\ spent' \in Nat
  BY <1>1, WorldKept
<1>10. NoneRuns /\ NothingJudged
  BY <1>1, NoCommands DEF IInv, LoadInv, Reading, CommandStages, NothingJudged
<1>11. NoneRuns' /\ NothingJudged' /\ Group' = {}
  BY <1>1, <1>8, <1>10 DEF NoneRuns, NothingJudged, Untouched, Group, Busy
<1>12. RunOK'
  <2>1. run'.pc \in RunPcs /\ run'.pc \notin Piped
    BY <1>8 DEF RunPcs, Piped, Stages
  <2> QED BY <1>2, <1>6, <1>8, <1>11, <2>1 DEF RunOK, Untouched, IInv, TypeInv
<1>13. disk' \in [Paths -> Entries] /\ past' \subseteq Trees
  BY <1>1, NotRead
<1>14. box'.name = "sandbox" /\ box'.marker = "prepared" /\ box'.tree = tree
       /\ box' \in [name : {"none", "staging", "sandbox"}, marker : {"none", "materializing", "sealed", "prepared"},
                    tree : Trees]
  BY <1>1, <1>3, <1>5 DEF IInv, TypeInv, WorldOK
<1>15. WorldOK'
  BY <1>1, <1>9, <1>13, <1>14 DEF IInv, TypeInv, WorldOK
<1>16. BoxInv'
  BY <1>1, <1>8, <1>9, <1>14 DEF BoxInv, BoxIs, NothingYet, Reading
<1>17. SourceInv'
  BY <1>1, <1>8 DEF SourceInv, SourceNoLongerRead, Reading
<1>18. JobInv'
  BY <1>8, <1>11 DEF JobInv, Taken, NoneRuns, CommandStages, Direct, Mutating
<1>19. Over(run.delta, box.tree)'
  <2>1. DOMAIN run'.delta = {} /\ run'.plan = run.plan
    BY <1>8, <1>11 DEF NothingJudged, Untouched
  <2> QED BY <1>7, <1>8, <1>14, <2>1 DEF Over, Base
<1>20. LoadInv' /\ FormatInv' /\ JudgeInv' /\ OfferInv'
  BY <1>8, <1>11, <1>19 DEF LoadInv, FormatInv, JudgeInv, OfferInv, Judging, NothingJudged, Stages, Untouched
<1> QED BY <1>9, <1>12, <1>15, <1>16, <1>17, <1>18, <1>20 DEF IInv, TypeInv

LEMMA KeepsCleanup ==
  ASSUME IInv, Cleanup
  PROVE  IInv'
<1>1. /\ run.pc \in {"prepared", "failed"} /\ self # 0 /\ UNCHANGED <<disk, past, job, World>> /\ Quiet /\ run' = NoRun
      /\ (box.name = "none" /\ box' = box) \/ box' = NoBox
  BY DEF Cleanup, Removed
<1>2. LitterInv' /\ ScratchInv' /\ litter' = litter /\ proc' = proc /\ self' = self /\ spent' \in Nat
  BY <1>1, WorldKept
<1>3. \A i \in Slots : ~Busy(i)'
  BY <1>1, NoCommands DEF NoneRuns, Busy, CommandStages
<1>4. RunOK' /\ SourceInv' /\ JobInv' /\ LoadInv' /\ FormatInv' /\ JudgeInv' /\ OfferInv'
  BY <1>1, <1>3, Ends
<1>5. run'.pc = "idle"
  BY <1>1 DEF NoRun
<1>6. box' = NoBox
  BY <1>1 DEF IInv, BoxInv, BoxIs, Piped
<1>7. WorldOK'
  BY <1>1, <1>2, <1>6, BoxTypes DEF IInv, TypeInv, WorldOK
<1>8. BoxInv'
  BY <1>1, <1>2, <1>5, <1>6 DEF BoxInv, NothingYet, Piped, Stages, Reading
<1> QED BY <1>2, <1>4, <1>7, <1>8 DEF IInv, TypeInv

-----------------------------------------------------------------------------
(* Others: the pipeline stands still. *)

Same == /\ run'.pc = run.pc /\ run'.plan = run.plan /\ run'.policy = run.policy /\ run'.next = run.next
        /\ run'.stages = run.stages /\ run'.delta = run.delta /\ run'.queue = run.queue
        /\ run'.results = run.results /\ run'.files = run.files /\ run'.claims = run.claims
        /\ run'.manifest = run.manifest /\ run'.left = run.left /\ run'.original = run.original

LEMMA PipelineKept ==
  ASSUME IInv, Same, DOMAIN run' = RunFields, run'.cancelled \in BOOLEAN, UNCHANGED <<job, box>>
  PROVE  RunOK' /\ JobInv' /\ LoadInv' /\ FormatInv' /\ JudgeInv' /\ OfferInv'
<1>1. Group' = Group /\ job' = job /\ box' = box /\ \A i \in Slots : Busy(i)' <=> Busy(i)
  BY DEF Same, Group, Busy
<1>2. RunOK'
  BY <1>1 DEF IInv, TypeInv, RunOK, Same
<1>3. CommandsOf(run.pc)' = CommandsOf(run.pc)
  BY DEF CommandsOf, Mutating, TransformDeclared, Affected, Same
<1>4. Taken' = Taken /\ \A i \in Slots : Direct(i)' <=> Direct(i)
  BY <1>1 DEF Taken, Same, Direct, Busy
<1>5. JobInv'
  <2>1. (Taken # {} => \E last \in DOMAIN CommandsOf(run.pc) : Taken = run.next..last)'
    <3>1. Taken # {} => \E last \in DOMAIN CommandsOf(run.pc) : Taken = run.next..last
      BY DEF IInv, JobInv
    <3> QED BY <3>1, <1>3, <1>4 DEF Same
  <2>2. (run.pc \notin CommandStages => Taken = {} /\ \A i \in Slots : ~Busy(i))'
    BY <1>1, <1>4 DEF IInv, JobInv, Same
  <2>3. (\A i \in Slots : Direct(i) =>
           i = 1 /\ ~Busy(2) /\ run.queue = {} /\ Group = {} /\ job[1].index = run.next)'
    <3>1. Busy(2)' <=> Busy(2)
      BY <1>1 DEF Slots
    <3> QED BY <3>1, <1>1, <1>4 DEF IInv, JobInv, Same
  <2>4. (Mutating(run.pc) => run.next = 1 /\ run.queue = {} /\ Group \subseteq {1}
                             /\ \A i \in Slots : Busy(i) => Direct(i))'
    BY <1>1, <1>4 DEF IInv, JobInv, Same, Mutating
  <2> QED BY <2>1, <2>2, <2>3, <2>4 DEF JobInv
<1>6. Settled' = Settled
  BY <1>1, <1>4 DEF Settled, Slots
<1>7. \A delta, tree : Over(delta, tree)' <=> Over(delta, tree)
  BY DEF Over, Base, Same
<1>8. LoadInv'
  BY <1>1, <1>7 DEF IInv, LoadInv, Same
<1>9. FormatInv'
  BY <1>1, <1>6, <1>7 DEF IInv, FormatInv, Same, Nondeterministic
<1>10. JudgeInv'
  BY <1>1, <1>6, <1>7 DEF IInv, JudgeInv, Same, Speaks
<1>11. OfferInv'
  BY <1>1 DEF IInv, OfferInv, Offered, Same, Speaks, StagesNamed
<1> QED BY <1>2, <1>5, <1>8, <1>9, <1>10, <1>11

LEMMA KeepsOutsideWrite ==
  ASSUME IInv, NEW p \in Paths, NEW content \in Contents, OutsideWrite(p, content)
  PROVE  IInv'
<1>1. /\ past # {} /\ Event /\ UNCHANGED <<box, run, job, World>> /\ run' = run /\ box' = box /\ job' = job
      /\ past' = past \cup {ContentOf(disk')}
      /\ disk' = [disk EXCEPT ![p] = [content |-> content, stamp |-> disk[p].stamp + 1]]
  BY DEF OutsideWrite
<1>2. disk \in [Paths -> Entries] /\ past \subseteq Trees /\ DOMAIN run = RunFields /\ run.cancelled \in BOOLEAN
      /\ run.manifest \in [Paths -> Entries]
  BY DEF IInv, TypeInv, RunOK, WorldOK
<1>3. LitterInv' /\ ScratchInv' /\ litter' = litter /\ proc' = proc /\ self' = self /\ spent' \in Nat
  BY <1>1, WorldKept
<1>4. RunOK' /\ JobInv' /\ LoadInv' /\ FormatInv' /\ JudgeInv' /\ OfferInv'
  BY <1>1, <1>2, PipelineKept DEF Same
<1>5. [content |-> content, stamp |-> disk[p].stamp + 1] \in Entries /\ disk[p].stamp \in Nat
  BY <1>2 DEF Entries
<1>6. /\ disk' \in [Paths -> Entries] /\ disk'[p].stamp = disk[p].stamp + 1
      /\ \A q \in Paths \ {p} : disk'[q] = disk[q]
  BY <1>1, <1>2, <1>5
<1>7. ContentOf(disk') \in Trees
  BY <1>6 DEF ContentOf, Trees, Entries
<1>8. WorldOK'
  BY <1>1, <1>3, <1>6, <1>7 DEF IInv, TypeInv, WorldOK
<1>9. BoxInv'
  BY <1>1, <1>3 DEF IInv, BoxInv, BoxIs
<1>10. ASSUME NEW q \in Paths, Inventoried(q) PROVE Inventoried(q)'
  <2>1. run.manifest[q].stamp \in Nat
    BY <1>2 DEF Entries
  <2>2. CASE q = p
    BY <1>1, <1>5, <1>6, <1>10, <2>1, <2>2 DEF Inventoried
  <2>3. CASE q # p
    BY <1>1, <1>6, <1>10, <2>3 DEF Inventoried
  <2> QED BY <2>2, <2>3
<1>11. ASSUME NEW q \in Paths, NEW tree, Inventoried(q), StoodAt(q, tree) PROVE StoodAt(q, tree)'
  <2>1. run.manifest[q].stamp \in Nat
    BY <1>2 DEF Entries
  <2>2. CASE q = p
    BY <1>1, <1>5, <1>6, <1>11, <2>1, <2>2 DEF Inventoried, StoodAt
  <2>3. CASE q # p
    BY <1>1, <1>6, <1>11, <2>3 DEF StoodAt
  <2> QED BY <2>2, <2>3
<1>12. past' # {} /\ ContentOf(disk)' \in past' /\ past \subseteq past'
  BY <1>1 DEF ContentOf
<1>13. run.pc = "inventory" => \A q \in Paths \ run.left : Inventoried(q)'
  BY <1>10 DEF IInv, SourceInv
<1>14. run.pc \in Reading \ {"inventory"} =>
         /\ \A q \in Paths : Inventoried(q)'
         /\ \E tree \in past' :
              /\ \A q \in Paths : StoodAt(q, tree)'
              /\ run.pc = "verify" => \A q \in Paths \ run.left : tree[q] = run.manifest[q].content
  <2> SUFFICES ASSUME run.pc \in Reading \ {"inventory"}
               PROVE  /\ \A q \in Paths : Inventoried(q)'
                      /\ \E tree \in past' :
                           /\ \A q \in Paths : StoodAt(q, tree)'
                           /\ run.pc = "verify" => \A q \in Paths \ run.left : tree[q] = run.manifest[q].content
    OBVIOUS
  <2>1. \A q \in Paths : Inventoried(q) /\ Inventoried(q)'
    BY <1>10 DEF IInv, SourceInv
  <2>2. PICK tree \in past :
          /\ \A q \in Paths : StoodAt(q, tree)
          /\ run.pc = "verify" => \A q \in Paths \ run.left : tree[q] = run.manifest[q].content
    BY DEF IInv, SourceInv
  <2>3. \A q \in Paths : StoodAt(q, tree)'
    BY <1>11, <2>1, <2>2
  <2> QED BY <1>12, <2>1, <2>2, <2>3
<1>15. run.pc = "sealed" => box.tree = ContentOf(run.manifest) /\ box.tree \in past'
  BY <1>12 DEF IInv, SourceInv
<1>16. SourceInv'
  BY <1>1, <1>12, <1>13, <1>14, <1>15 DEF SourceInv, ContentOf
<1> QED BY <1>3, <1>4, <1>8, <1>9, <1>16 DEF IInv, TypeInv

(* Nothing that the source's part speaks of has changed. *)
LEMMA SourceSame ==
  ASSUME IInv, Same, UNCHANGED <<disk, past, box>>
  PROVE  SourceInv'
BY DEF IInv, SourceInv, Same, ContentOf, Inventoried, StoodAt

LEMMA KeepsCancel ==
  ASSUME IInv, Cancel
  PROVE  IInv'
<1>1. /\ self # 0 /\ Event /\ UNCHANGED <<disk, past, box, job, World>> /\ run' = [run EXCEPT !.cancelled = TRUE]
      /\ box' = box /\ job' = job /\ UNCHANGED <<disk, past, box>>
  BY DEF Cancel
<1>2. DOMAIN run = RunFields
  BY DEF IInv, TypeInv, RunOK
<1>3. DOMAIN run' = RunFields /\ Same /\ run'.cancelled \in BOOLEAN
  BY <1>1, <1>2 DEF Same, RunFields
<1>4. LitterInv' /\ ScratchInv' /\ litter' = litter /\ proc' = proc /\ self' = self /\ spent' \in Nat
  BY <1>1, WorldKept
<1>5. RunOK' /\ JobInv' /\ LoadInv' /\ FormatInv' /\ JudgeInv' /\ OfferInv'
  BY <1>1, <1>3, PipelineKept
<1>6. WorldOK'
  BY <1>1, <1>4 DEF IInv, TypeInv, WorldOK
<1>7. BoxInv'
  BY <1>1, <1>3, <1>4 DEF IInv, BoxInv, BoxIs, Same
<1>8. SourceInv'
  BY <1>1, <1>3, SourceSame
<1> QED BY <1>4, <1>5, <1>6, <1>7, <1>8 DEF IInv, TypeInv

(* What a killed process leaves is in the invariant's sense litter. *)
LEMMA KeepsKilled ==
  ASSUME IInv, Killed
  PROVE  IInv'
<1> DEFINE left == {[name |-> d.name, marked |-> d.marker # "none", young |-> TRUE] : d \in {box} \ {NoBox}}
<1>1. /\ self # 0 /\ Event /\ box' = NoBox /\ run' = NoRun /\ SourceNoLongerRead /\ litter' = litter \cup left
      /\ job' = [i \in Slots |-> NoJob] /\ proc' = [proc EXCEPT ![self] = 0] /\ self' = 0 /\ scratch' = scratch
  BY DEF Killed
<1>2. \A i \in Slots : ~Busy(i)'
  BY <1>1, BoxTypes DEF Busy
<1>3. RunOK' /\ SourceInv' /\ JobInv' /\ LoadInv' /\ FormatInv' /\ JudgeInv' /\ OfferInv'
  BY <1>1, <1>2, Ends
<1>4. run'.pc = "idle"
  BY <1>1 DEF NoRun
<1>5. disk' \in [Paths -> Entries] /\ past' \subseteq Trees
  BY <1>1, NotRead
<1>6. self \in Pids /\ proc \in [Pids -> Nat] /\ spent \in Nat
  BY <1>1 DEF IInv, TypeInv, WorldOK
<1>7. box = NoBox \/ (box.name = "staging" /\ box.marker \in {"none", "materializing"})
      \/ (box.name = "sandbox" /\ box.marker # "none")
  <2>1. run.pc \in RunPcs
    BY DEF IInv, TypeInv, RunOK
  <2> QED BY <2>1 DEF IInv, BoxInv, BoxIs, NothingYet, RunPcs, Reading, Piped, Stages
<1>8. left \subseteq [name : {"staging", "sandbox"}, marked : BOOLEAN, young : BOOLEAN]
      /\ \A d \in left : d.name = "sandbox" => d.marked
  <2>1. ASSUME NEW d \in left
        PROVE  /\ d \in [name : {"staging", "sandbox"}, marked : BOOLEAN, young : BOOLEAN]
               /\ d.name = "sandbox" => d.marked
    <3>1. box # NoBox /\ d = [name |-> box.name, marked |-> box.marker # "none", young |-> TRUE]
      OBVIOUS
    <3>2. box.name \in {"staging", "sandbox"}
      BY <3>1, <1>7
    <3>3. d \in [name : {"staging", "sandbox"}, marked : BOOLEAN, young : BOOLEAN]
      BY <3>1, <3>2
    <3>4. d.name = box.name /\ (d.marked <=> box.marker # "none")
      BY <3>1
    <3>5. d.name = "sandbox" => d.marked
      BY <3>1, <3>4, <1>7
    <3> QED BY <3>3, <3>5
  <2> QED BY <2>1
<1> HIDE DEF left
<1>9. LitterInv'
  BY <1>1, <1>8 DEF IInv, LitterInv
<1>10. job' \in [Slots -> Jobs]
  BY <1>1, BoxTypes
<1>11. proc' \in [Pids -> Nat] /\ self' \in Pids \cup {0} /\ spent' \in Nat
  BY <1>1, <1>6 DEF Event
<1>12. WorldOK'
  BY <1>1, <1>5, <1>8, <1>10, <1>11, BoxTypes DEF IInv, TypeInv, WorldOK
<1>13. BoxInv'
  BY <1>1, <1>4 DEF BoxInv, NothingYet, Piped, Stages, Reading
<1>14. spent' > 0
  BY <1>1, <1>6 DEF Event
<1>15. LiveScratchStays'
  <2>1. ASSUME proc'[Peer] = 1 PROVE proc[Peer] = 1
    BY <1>1, <1>6, <2>1, PidFacts
  <2> QED BY <1>1, <1>2, <2>1 DEF IInv, ScratchInv, LiveScratchStays, Busy
<1> QED BY <1>3, <1>9, <1>12, <1>13, <1>14, <1>15 DEF IInv, TypeInv, ScratchInv

LEMMA KeepsPeerExits ==
  ASSUME IInv, PeerExits
  PROVE  IInv'
<1>1. /\ self # Peer /\ Event /\ proc' = [proc EXCEPT ![Peer] = 0] /\ run' = run /\ job' = job /\ box' = box
      /\ UNCHANGED <<disk, past, box>> /\ litter' = litter /\ scratch' = scratch /\ self' = self
      /\ UNCHANGED <<job, box>>
  BY DEF PeerExits
<1>2. DOMAIN run' = RunFields /\ Same /\ run'.cancelled \in BOOLEAN /\ proc \in [Pids -> Nat] /\ spent \in Nat
      /\ self \in Pids \cup {0}
  BY <1>1 DEF Same, IInv, TypeInv, RunOK, WorldOK
<1>3. RunOK' /\ JobInv' /\ LoadInv' /\ FormatInv' /\ JudgeInv' /\ OfferInv'
  BY <1>1, <1>2, PipelineKept
<1>4. SourceInv'
  BY <1>1, <1>2, SourceSame
<1>5. proc' \in [Pids -> Nat] /\ spent' \in Nat /\ spent' = spent + 1
  <2>1. spent' = spent + 1 /\ spent' \in Nat
    BY <1>1, <1>2 DEF Event
  <2>2. proc' \in [Pids -> Nat]
    BY <1>1, <1>2, PidFacts
  <2> QED BY <2>1, <2>2
<1>6. WorldOK'
  BY <1>1, <1>5 DEF IInv, TypeInv, WorldOK
<1>7. BoxInv' /\ LitterInv'
  BY <1>1 DEF IInv, BoxInv, BoxIs, LitterInv
<1>8. self' = 0 => spent' > 0
  BY <1>2, <1>5
<1>9. LiveScratchStays'
  <2>1. proc'[Peer] # 1
    BY <1>1, <1>2, PidFacts
  <2>2. ASSUME NEW i \in Slots, job'[i].pc \in {"running", "lingering", "reaped"}
        PROVE  Env(i)' \in scratch' /\ (job'[i].clone => Clone(i)' \in scratch')
    <3>1. self \in Pids
      <4>1. run.pc \in CommandStages
        BY <1>1, <2>2 DEF IInv, JobInv, Busy
      <4> QED BY <4>1, <1>2 DEF IInv, BoxInv, CommandStages
    <3>2. proc'[self] = proc[self]
      BY <1>1, <1>2, <3>1
    <3>3. Env(i)' = Env(i) /\ Clone(i)' = Clone(i)
      BY <1>1, <3>2 DEF Env, Clone, Owner
    <3> QED BY <1>1, <2>2, <3>3 DEF IInv, ScratchInv, LiveScratchStays
  <2> QED BY <2>1, <2>2 DEF LiveScratchStays
<1> QED BY <1>3, <1>4, <1>6, <1>7, <1>8, <1>9 DEF IInv, TypeInv, ScratchInv

LEMMA KeepsAge ==
  ASSUME IInv, Age
  PROVE  IInv'
<1>1. /\ Event /\ litter' = {[d EXCEPT !.young = FALSE] : d \in litter} /\ run' = run /\ job' = job /\ box' = box
      /\ UNCHANGED <<disk, past, box>> /\ scratch' = scratch /\ self' = self /\ proc' = proc
      /\ UNCHANGED <<job, box>>
  BY DEF Age
<1>2. DOMAIN run' = RunFields /\ Same /\ run'.cancelled \in BOOLEAN
  BY <1>1 DEF Same, IInv, TypeInv, RunOK
<1>3. RunOK' /\ JobInv' /\ LoadInv' /\ FormatInv' /\ JudgeInv' /\ OfferInv'
  BY <1>1, <1>2, PipelineKept
<1>4. SourceInv'
  BY <1>1, <1>2, SourceSame
<1>5. spent \in Nat /\ spent' = spent + 1
  BY <1>1 DEF Event, IInv, TypeInv, WorldOK
<1>6. litter' \subseteq [name : {"staging", "sandbox"}, marked : BOOLEAN, young : BOOLEAN] /\ LitterInv'
  <2>1. ASSUME NEW d \in litter
        PROVE  /\ [d EXCEPT !.young = FALSE] \in [name : {"staging", "sandbox"}, marked : BOOLEAN, young : BOOLEAN]
               /\ [d EXCEPT !.young = FALSE].name = d.name /\ [d EXCEPT !.young = FALSE].marked = d.marked
    <3>1. d \in [name : {"staging", "sandbox"}, marked : BOOLEAN, young : BOOLEAN]
      BY DEF IInv, TypeInv, WorldOK
    <3> QED BY <3>1
  <2> QED BY <1>1, <2>1 DEF IInv, LitterInv
<1>7. WorldOK'
  BY <1>1, <1>5, <1>6 DEF IInv, TypeInv, WorldOK
<1>8. BoxInv'
  BY <1>1 DEF IInv, BoxInv, BoxIs
<1>9. self' = 0 => spent' > 0
  BY <1>5
<1>10. LiveScratchStays'
  BY <1>1 DEF IInv, ScratchInv, LiveScratchStays, Env, Clone, Owner
<1> QED BY <1>3, <1>4, <1>6, <1>7, <1>8, <1>9, <1>10 DEF IInv, TypeInv, ScratchInv

(* A start sweeps only what no process runs for: the pid of one that is gone may run again, but
   then it has another start time. *)
LEMMA KeepsStart ==
  ASSUME IInv, NEW pid \in Pids, Start(pid)
  PROVE  IInv'
<1>1. /\ self = 0 /\ proc[pid] = 0 /\ self' = pid /\ proc' = [proc EXCEPT ![pid] = LaterStart]
      /\ run' = run /\ job' = job /\ box' = box
      /\ UNCHANGED <<disk, past, box>> /\ UNCHANGED <<job, box>> /\ sweepScratchOwners /\ ReapSandboxes
  BY DEF Start
<1>2. DOMAIN run' = RunFields /\ Same /\ run'.cancelled \in BOOLEAN /\ spent \in Nat /\ proc \in [Pids -> Nat]
      /\ run.pc = "idle"
  BY <1>1 DEF Same, IInv, TypeInv, RunOK, WorldOK, BoxInv
<1>3. RunOK' /\ JobInv' /\ LoadInv' /\ FormatInv' /\ JudgeInv' /\ OfferInv'
  BY <1>1, <1>2, PipelineKept
<1>4. SourceInv'
  BY <1>1, <1>2, SourceSame
<1>5. spent' \in Nat
  BY <1>1, <1>2 DEF sweepScratchOwners, Quiet, Event
<1>6. litter' \subseteq litter
  BY <1>1 DEF ReapSandboxes
<1>7. spent > 0 /\ LaterStart \in Nat /\ LaterStart # 1
  BY <1>1, <1>2 DEF IInv, ScratchInv, LaterStart
<1>8. WorldOK' /\ LitterInv'
  BY <1>1, <1>2, <1>5, <1>6, <1>7 DEF IInv, TypeInv, WorldOK, LitterInv
<1>9. BoxInv'
  BY <1>1, <1>2, PidFacts DEF IInv, BoxInv, BoxIs
<1>10. LiveScratchStays'
  <2>1. \A i \in Slots : ~Busy(i)
    BY <1>2, NoCommands DEF CommandStages, NoneRuns
  <2>2. ASSUME proc'[Peer] = 1
        PROVE  [owner |-> [pid |-> Peer, start |-> 1], name |-> <<"env", 0>>] \in scratch'
    <3>1. pid # Peer /\ proc[Peer] = 1
      BY <1>1, <1>2, <1>7, <2>2, PidFacts
    <3>2. [owner |-> [pid |-> Peer, start |-> 1], name |-> <<"env", 0>>] \in scratch
      BY <3>1 DEF IInv, ScratchInv, LiveScratchStays
    <3>3. \A x \in scratch : processOwnerAlive(x.owner) => x \in scratch'
      BY <1>1 DEF sweepScratchOwners
    <3>4. processOwnerAlive([pid |-> Peer, start |-> 1])
      BY <2>2 DEF processOwnerAlive
    <3> QED BY <3>2, <3>3, <3>4
  <2> QED BY <1>1, <2>1, <2>2 DEF LiveScratchStays, Busy
<1>11. self' # 0
  BY <1>1, PidFacts
<1> QED BY <1>3, <1>4, <1>8, <1>9, <1>10, <1>11 DEF IInv, TypeInv, ScratchInv

-----------------------------------------------------------------------------
(* Every action keeps the invariant: the pipeline. *)

LEMMA ListDomain ==
  ASSUME NEW list, IsList(list)
  PROVE  DOMAIN list = 1..Len(list) /\ Len(list) \in Nat
BY DEF IsList

(* The commands of a stage are numbered from one; the formatter is one command. *)
LEMMA CommandLists ==
  ASSUME IsPolicy(run.policy), NEW stage
  PROVE  \E n \in Nat : /\ DOMAIN CommandsOf(stage) = 1..n
                        /\ Mutating(stage) => n <= 1
                        /\ ~Mutating(stage) => Len(CommandsOf(stage)) = n
<1>1. CASE Mutating(stage)
  <2>1. CommandsOf(stage) = [i \in DOMAIN run.policy.transform |-> TransformDeclared(run.policy.transform[i])]
    BY <1>1 DEF CommandsOf, Mutating
  <2>2. DOMAIN CommandsOf(stage) = DOMAIN run.policy.transform
    BY <2>1
  <2>3. DOMAIN run.policy.transform = 1..Len(run.policy.transform) /\ Len(run.policy.transform) \in Nat
        /\ Len(run.policy.transform) <= 1
    BY ListDomain DEF IsPolicy
  <2> QED BY <1>1, <2>2, <2>3
<1>2. CASE ~Mutating(stage)
  <2>1. CommandsOf(stage) \in {run.policy.gate, run.policy.check, run.policy.tests}
    BY <1>2 DEF CommandsOf
  <2>2. DOMAIN CommandsOf(stage) = 1..Len(CommandsOf(stage)) /\ Len(CommandsOf(stage)) \in Nat
    BY <2>1, ListDomain DEF IsPolicy
  <2> QED BY <1>2, <2>2
<1> QED BY <1>1, <1>2

(* Between commands the pipeline moves on, from stage to stage or within one. *)
RunMoves == /\ DOMAIN run' = RunFields /\ run'.pc \in Piped /\ run'.left = run.left /\ run'.cancelled = run.cancelled
            /\ run'.manifest = run.manifest /\ run'.plan = run.plan /\ IsPolicy(run'.policy)
            /\ run'.next \in Nat \ {0} /\ IsList(run'.stages) /\ DOMAIN run'.delta \subseteq Paths
            /\ run'.original \in Trees

LEMMA Moves ==
  ASSUME IInv, run.pc \in {"load"} \cup Piped, RunMoves, NoneRuns', Mutating(run'.pc) => run'.next = 1,
         UNCHANGED <<disk, past, box, job, World>>, Quiet \/ Event, self # 0,
         LoadInv', FormatInv', JudgeInv', OfferInv'
  PROVE  IInv'
<1>1. LitterInv' /\ ScratchInv' /\ litter' = litter /\ proc' = proc /\ self' = self /\ spent' \in Nat
      /\ UNCHANGED <<disk, past, box, job>>
  BY WorldKept
<1>2. run'.pc \in RunPcs /\ run'.pc \notin Reading \cup {"sealed", "idle", "failed"}
      /\ run.pc \notin Reading \cup {"sealed", "idle", "failed"}
  BY DEF RunMoves, RunPcs, Piped, Stages, Reading
<1>3. RunOK'
  BY <1>2 DEF RunOK, RunMoves, IInv, TypeInv, NoneRuns
<1>4. WorldOK'
  BY <1>1 DEF IInv, TypeInv, WorldOK
<1>5. BoxIs("sandbox", "prepared") /\ BoxIs("sandbox", "prepared")'
  BY <1>1 DEF IInv, BoxInv, BoxIs
<1>6. BoxInv'
  BY <1>1, <1>2, <1>5 DEF BoxInv, NothingYet, Reading
<1>7. SourceInv'
  BY <1>1, <1>2 DEF IInv, SourceInv, Reading, ContentOf
<1>8. JobInv'
  BY DEF JobInv, Taken, NoneRuns, Direct
<1> QED BY <1>1, <1>3, <1>4, <1>6, <1>7, <1>8 DEF IInv, TypeInv

(* Nothing runs, so the tree is settled. *)
LEMMA SettledNow ==
  ASSUME NoneRuns
  PROVE  Settled = box.tree
BY DEF Settled, NoneRuns, Direct, Slots

LEMMA KeepsTransformStaged ==
  ASSUME IInv, NEW project \in Projects, transformStaged(project)
  PROVE  IInv'
<1> DEFINE policy == LoadPipelinePolicyForTrustedRoot(project)
<1>1. run.pc = "load" /\ self # 0 /\ UNCHANGED <<disk, past, box, job, World>> /\ Quiet /\ job' = job /\ box' = box
  BY DEF transformStaged, At
<1>2. NoneRuns
  BY <1>1, NoCommands DEF CommandStages
<1>3. CASE Fails
  <2>1. box'.tree \in Trees /\ box' = [box EXCEPT !.tree = box'.tree]
    BY <1>1 DEF IInv, TypeInv, WorldOK
  <2> QED BY <1>1, <1>2, <1>3, <2>1, FailsKeeps DEF NoneRuns
<1>4. CASE run' = [run EXCEPT !.policy = policy, !.next = 1, !.original = box.tree,
                              !.pc = IF TransformWanted(policy) THEN "format" ELSE "format_gate"]
  <2>1. IsPolicy(policy)
    BY Loaded
  <2> HIDE DEF policy
  <2>2. PICK to \in {"format", "format_gate"} : to = IF TransformWanted(policy) THEN "format" ELSE "format_gate"
    OBVIOUS
  <2>3. DOMAIN run = RunFields
    BY DEF IInv, TypeInv, RunOK
  <2>4. /\ DOMAIN run' = RunFields /\ run'.pc = to /\ run'.left = run.left /\ run'.cancelled = run.cancelled
        /\ run'.manifest = run.manifest /\ run'.plan = run.plan /\ run'.policy = policy
        /\ run'.next = 1 /\ run'.stages = run.stages /\ run'.delta = run.delta
        /\ run'.queue = run.queue /\ run'.results = run.results /\ run'.files = run.files /\ run'.original = box.tree
    BY <1>4, <2>2, <2>3 DEF RunFields
  <2>5. RunMoves
    BY <2>1, <2>4 DEF RunMoves, Piped, Stages, IInv, TypeInv, RunOK, WorldOK
  <2>6. NoneRuns' /\ Group' = {}
    BY <1>1, <1>2, <2>4 DEF NoneRuns, Group, Busy
  <2>7. Settled' = box.tree
    BY <1>1, <2>6 DEF Settled, NoneRuns, Direct, Slots
  <2>8. run.stages = <<>> /\ DOMAIN run.delta = {} /\ Over(run.delta, box.tree) /\ run.files = run.plan
    BY <1>1 DEF IInv, LoadInv
  <2>9. Over(run.delta, Settled)'
    BY <2>4, <2>7, <2>8 DEF Over, Base
  <2>10. LoadInv' /\ FormatInv'
    BY <2>4, <2>6, <2>8, <2>9 DEF LoadInv, FormatInv
  <2>11. JudgeInv'
    <3>1. DOMAIN run'.stages = {}
      BY <2>4, <2>8
    <3>2. \A i \in Slots : ~Busy(i)'
      BY <2>6 DEF NoneRuns
    <3> QED BY <2>6, <2>9, <3>1, <3>2 DEF JudgeInv
  <2>12. OfferInv'
    BY <2>4 DEF OfferInv
  <2> QED BY <1>1, <2>4, <2>5, <2>6, <2>10, <2>11, <2>12, Moves
<1> QED BY <1>3, <1>4 DEF transformStaged

LEMMA TrustKeeps ==
  ASSUME IInv, UNCHANGED <<disk, past, box, litter, run, job, scratch, proc, self>>, Quiet
  PROVE  IInv'
<1>1. /\ run' = run /\ job' = job /\ box' = box /\ UNCHANGED <<disk, past, box>> /\ UNCHANGED <<job, box>>
      /\ disk' = disk /\ past' = past
      /\ litter' = litter /\ scratch' = scratch /\ self' = self /\ proc' = proc /\ spent' = spent
  BY DEF Quiet
<1>2. DOMAIN run' = RunFields /\ Same /\ run'.cancelled \in BOOLEAN
  BY <1>1 DEF Same, IInv, TypeInv, RunOK
<1>3. RunOK' /\ JobInv' /\ LoadInv' /\ FormatInv' /\ JudgeInv' /\ OfferInv'
  BY <1>1, <1>2, PipelineKept
<1>4. SourceInv'
  BY <1>1, <1>2, SourceSame
<1>5. WorldOK' /\ BoxInv' /\ LitterInv'
  BY <1>1 DEF IInv, TypeInv, WorldOK, BoxInv, BoxIs, LitterInv
<1>6. ScratchInv'
  BY <1>1 DEF IInv, ScratchInv, LiveScratchStays, Env, Clone, Owner
<1> QED BY <1>3, <1>4, <1>5, <1>6 DEF IInv, TypeInv

LEMMA KeepsTrust ==
  ASSUME IInv, NEW root \in TrustRoots, TrustRoot(root) \/ UntrustRoot(root)
  PROVE  IInv'
BY TrustKeeps DEF TrustRoot, UntrustRoot

(* The records of a stage after those before it. *)
Judged(records, tree) == \A i \in DOMAIN records : records[i].stage # "format" => Speaks(records[i], tree)

LEMMA JudgedJoined ==
  ASSUME NEW s, NEW t, IsList(s), IsList(t), NEW tree, Judged(s, tree), Judged(t, tree)
  PROVE  Judged(s \o t, tree)
<1>1. PICK list : list = s \o t
  OBVIOUS
<1>2. HoldsOf(list, s, t)
  BY <1>1, Joined
<1>3. Judged(list, tree)
  BY <1>2 DEF HoldsOf, Judged
<1> QED BY <1>1, <1>3

(* A stage that is over goes on to the next, with what it recorded. *)
NextStage(to, stages, delta) ==
  /\ DOMAIN run' = RunFields /\ run'.pc = to /\ run'.left = run.left /\ run'.cancelled = run.cancelled
  /\ run'.manifest = run.manifest /\ run'.plan = run.plan /\ run'.policy = run.policy
  /\ run'.next \in Nat \ {0} /\ run'.stages = stages /\ run'.delta = delta /\ DOMAIN run'.results = {} /\ run'.queue = {}
  /\ run'.files = run.files /\ run'.original = run.original

LEMMA MovesToJudging ==
  ASSUME IInv, self # 0, run.pc \in Stages, NEW to \in Judging, NEW stages, NEW delta, NextStage(to, stages, delta),
         \A i \in Slots : ~Busy(i), UNCHANGED <<disk, past, box, job, World>>, Quiet \/ Event,
         IsList(stages), DOMAIN delta \subseteq Paths, Over(delta, box.tree), Judged(stages, box.tree)
  PROVE  IInv'
<1>1. run.pc \in Piped /\ to \in Piped /\ ~Mutating(to) /\ to \notin {"load", "format", "idempotency", "diagnose", "prepared"}
      /\ to \notin Reading \cup {"sealed"}
  BY DEF Piped, Judging, Stages, Mutating, Reading
<1>2. NoneRuns' /\ Group' = {}
  BY DEF NextStage, NoneRuns, Group, Busy
<1>3. RunMoves
  BY <1>1 DEF RunMoves, NextStage, IInv, TypeInv, RunOK
<1>4. box' = box /\ Settled' = box.tree
  BY <1>2 DEF Settled, NoneRuns, Direct, Slots
<1>5. Over(run.delta, Settled)'
  BY <1>4 DEF Over, Base, NextStage
<1>6. run.files = run.plan
  BY DEF IInv, LoadInv
<1>7. LoadInv' /\ FormatInv' /\ OfferInv'
  BY <1>1, <1>6 DEF LoadInv, FormatInv, OfferInv, NextStage
<1>8. \A i \in DOMAIN run'.stages : run'.stages[i].stage # "format" => Speaks(run'.stages[i], box.tree)
  BY DEF NextStage, Judged
<1>9. JudgeInv'
  BY <1>2, <1>4, <1>5, <1>8 DEF JudgeInv, NoneRuns, Speaks
<1>10. Mutating(run'.pc) => run'.next = 1
  BY <1>1 DEF NextStage
<1>11. UNCHANGED <<disk, past, box, job, World>>
  OBVIOUS
<1> QED BY <1>1, <1>2, <1>3, <1>7, <1>9, <1>10, <1>11, Moves

(* What the stages recorded before the one that ends. *)
LEMMA JudgedSoFar ==
  ASSUME IInv, NoneRuns, run.pc \in Stages
  PROVE  IsList(run.stages) /\ Judged(run.stages, box.tree) /\ DOMAIN run.delta \subseteq Paths
         /\ Over(run.delta, box.tree)
<1>1. IsList(run.stages) /\ DOMAIN run.delta \subseteq Paths
  BY DEF IInv, TypeInv, RunOK
<1>2. Settled = box.tree /\ Group = {}
  BY SettledNow DEF NoneRuns
<1>3. CASE run.pc \in Judging
  BY <1>1, <1>2, <1>3 DEF IInv, JudgeInv, Judged
<1>4. CASE run.pc = "format"
  <2>1. DOMAIN run.stages = {}
    BY <1>4 DEF IInv, LoadInv
  <2> QED BY <1>1, <1>2, <1>4, <2>1 DEF IInv, FormatInv, Judged
<1>5. CASE run.pc = "idempotency"
  BY <1>1, <1>2, <1>5 DEF IInv, FormatInv, Judged
<1> QED BY <1>3, <1>4, <1>5 DEF Stages, Judging

LEMMA KeepsSkipStage ==
  ASSUME IInv, SkipStage
  PROVE  IInv'
<1> DEFINE record == Record(run.pc, "none", "unavailable", box.tree)
           stages == <<record>>
<1>1. /\ self # 0 /\ run.pc \in CommandStages /\ run.queue = {} /\ run.results = <<>> /\ run.next = 1
      /\ \A i \in Slots : job[i].pc = "idle"
      /\ UNCHANGED <<disk, past, box, job, World>> /\ Quiet /\ box' = box /\ EndStage(stages)
  BY DEF SkipStage, GroupStarts
<1>2. NoneRuns /\ run.pc \in Stages
  BY <1>1 DEF NoneRuns, Group, Busy, CommandStages, Stages
<1>3. IsList(stages) /\ DOMAIN stages = {1} /\ stages[1] = record
  BY OneIsList, ListDomain
<1>4. record.status = "unavailable"
  BY DEF Record
<1> HIDE DEF record, stages
<1>5. Judged(stages, box.tree)
  BY <1>3, <1>4 DEF Judged, Speaks
<1>6. IsList(run.stages) /\ Judged(run.stages, box.tree) /\ DOMAIN run.delta \subseteq Paths
      /\ Over(run.delta, box.tree)
  BY <1>2, JudgedSoFar
<1>7. CASE Fails
  <2>1. box'.tree \in Trees /\ box' = [box EXCEPT !.tree = box'.tree]
    BY <1>1 DEF IInv, TypeInv, WorldOK
  <2>2. run.pc \in {"load"} \cup Piped
    BY <1>2 DEF Piped
  <2> QED BY <1>1, <1>2, <1>7, <2>1, <2>2, FailsKeeps DEF NoneRuns
<1>8. PICK to : to = IF run.pc = "format" THEN "format_gate" ELSE After(run.pc)
  OBVIOUS
<1>9. to \in Judging
  BY <1>1, <1>8, Afters DEF CommandStages, Judging
<1>10. PICK all : all = IF run.pc = "idempotency" THEN run.stages ELSE run.stages \o stages
  OBVIOUS
<1>11. IsList(all) /\ Judged(all, box.tree)
  BY <1>3, <1>5, <1>6, <1>10, Joined, JudgedJoined
<1>12. ~(\A i \in DOMAIN stages : stages[i].status = "passed")
  BY <1>3, <1>4
<1>13. CASE run' = [run EXCEPT !.pc = to, !.next = 1, !.stages = all]
  <2>1. DOMAIN run = RunFields
    BY DEF IInv, TypeInv, RunOK
  <2>2. NextStage(to, all, run.delta)
    BY <1>1, <1>13, <2>1 DEF NextStage, RunFields
  <2>3. \A i \in Slots : ~Busy(i)
    BY <1>2 DEF NoneRuns
  <2> QED BY <1>1, <1>2, <1>6, <1>9, <1>11, <2>2, <2>3, MovesToJudging
<1> QED BY <1>1, <1>7, <1>8, <1>10, <1>12, <1>13 DEF EndStage

LEMMA KeepsParser ==
  ASSUME IInv, parser
  PROVE  IInv'
<1> DEFINE status == parserStage(box.tree, Affected)
           record == Record("parser", "native", status, box.tree)
           stages == Append(run.stages, record)
<1>1. run.pc = "parser" /\ self # 0 /\ UNCHANGED <<disk, past, box, job, World>> /\ Quiet
      /\ (Fails \/ run' = [run EXCEPT !.stages = stages, !.pc = "check"])
  BY Afters DEF parser, At
<1>2. NoneRuns
  BY <1>1, NoCommands DEF CommandStages
<1>3. CASE Fails
  <2>1. box'.tree \in Trees /\ box' = [box EXCEPT !.tree = box'.tree]
    BY <1>1 DEF IInv, TypeInv, WorldOK
  <2>2. run.pc \in {"load"} \cup Piped
    BY <1>1 DEF Piped, Stages
  <2> QED BY <1>1, <1>2, <1>3, <2>1, <2>2, FailsKeeps DEF NoneRuns
<1>4. CASE run' = [run EXCEPT !.stages = stages, !.pc = "check"]
  <2>1. Speaks(record, box.tree)
    BY DEF Record, Speaks
  <2> HIDE DEF record
  <2>2. run.pc \in Stages
    BY <1>1 DEF Stages
  <2>3. IsList(run.stages) /\ Judged(run.stages, box.tree) /\ DOMAIN run.delta \subseteq Paths
        /\ Over(run.delta, box.tree)
    BY <1>2, <2>2, JudgedSoFar
  <2>4. IsList(stages) /\ HoldsAlso(stages, run.stages, record)
    BY <2>3, Appended
  <2> HIDE DEF stages
  <2>5. Judged(stages, box.tree)
    BY <2>1, <2>3, <2>4 DEF Judged, HoldsAlso
  <2>6. PICK to \in Judging : to = "check"
    BY DEF Judging
  <2>7. DOMAIN run = RunFields /\ run.next \in Nat \ {0}
    BY DEF IInv, TypeInv, RunOK
  <2>8. NextStage(to, stages, run.delta)
    BY <1>1, <1>2, <1>4, <2>6, <2>7 DEF NextStage, RunFields, NoneRuns, Group
  <2> QED BY <1>1, <1>2, <2>2, <2>3, <2>4, <2>5, <2>8, MovesToJudging DEF NoneRuns
<1> QED BY <1>1, <1>3, <1>4

LEMMA KeepsCommandCannotStart ==
  ASSUME IInv, CommandCannotStart
  PROVE  IInv'
<1>1. /\ self # 0 /\ run.pc \in Stages /\ Fails /\ UNCHANGED <<disk, past, box, job, World>> /\ (Quiet \/ Event)
      /\ NoneRuns
  <2>1. Fails /\ UNCHANGED <<disk, past, box, job, World>> /\ (Quiet \/ Event) /\ (At("collect") \/ GroupStarts)
    BY DEF CommandCannotStart, Captures
  <2>2. CASE At("collect")
    BY <2>1, <2>2, NoCommands DEF At, Stages, CommandStages
  <2>3. CASE GroupStarts
    BY <2>1, <2>3 DEF GroupStarts, Stages, CommandStages, NoneRuns, Group, Busy
  <2> QED BY <2>1, <2>2, <2>3
<1>2. box'.tree \in Trees /\ box' = [box EXCEPT !.tree = box'.tree]
  BY <1>1 DEF IInv, TypeInv, WorldOK
<1>3. run.pc \in {"load"} \cup Piped
  BY <1>1 DEF Piped
<1> QED BY <1>1, <1>2, <1>3, FailsKeeps DEF NoneRuns

LEMMA KeepsRecordStagedDiagnostics ==
  ASSUME IInv, NEW works \in BOOLEAN, recordStagedDiagnostics(works)
  PROVE  IInv'
<1>1. run.pc = "diagnose" /\ self # 0 /\ UNCHANGED <<disk, past, box, job, World>> /\ (Quiet \/ Event)
      /\ (Fails \/ run' = [run EXCEPT !.pc = "prepared"])
  BY DEF recordStagedDiagnostics, At
<1>2. NoneRuns
  BY <1>1, NoCommands DEF CommandStages
<1>3. CASE Fails
  <2>1. box'.tree \in Trees /\ box' = [box EXCEPT !.tree = box'.tree]
    BY <1>1 DEF IInv, TypeInv, WorldOK
  <2>2. run.pc \in {"load"} \cup Piped
    BY <1>1 DEF Piped
  <2> QED BY <1>1, <1>2, <1>3, <2>1, <2>2, FailsKeeps DEF NoneRuns
<1>4. CASE run' = [run EXCEPT !.pc = "prepared"]
  <2>1. DOMAIN run = RunFields /\ run.next \in Nat \ {0} /\ IsPolicy(run.policy) /\ IsList(run.stages)
        /\ DOMAIN run.delta \subseteq Paths /\ run.original \in Trees
    BY <1>1 DEF IInv, TypeInv, RunOK, Piped
  <2>2. /\ DOMAIN run' = RunFields /\ run'.pc = "prepared" /\ run'.left = run.left /\ run'.cancelled = run.cancelled
        /\ run'.manifest = run.manifest /\ run'.plan = run.plan /\ run'.policy = run.policy
        /\ run'.next = run.next /\ run'.stages = run.stages /\ run'.delta = run.delta
        /\ run'.queue = run.queue /\ run'.results = run.results /\ run'.files = run.files
        /\ run'.original = run.original /\ run'.claims = run.claims
    BY <1>4, <2>1 DEF RunFields
  <2>3. RunMoves
    BY <2>1, <2>2 DEF RunMoves, Piped
  <2>4. NoneRuns'
    BY <1>1, <1>2, <2>2 DEF NoneRuns, Group, Busy
  <2>5. LoadInv' /\ FormatInv' /\ JudgeInv'
    BY <2>2 DEF LoadInv, FormatInv, JudgeInv, Judging, Stages, Reading
  <2>6. box' = box
    BY <1>1
  <2>7. OfferInv'
    BY <1>1, <2>2, <2>6 DEF IInv, OfferInv, Offered, StagesNamed, Speaks
  <2>8. ~Mutating("prepared") /\ run.pc \in Piped
    BY <1>1 DEF Mutating, Piped
  <2> QED BY <1>1, <2>2, <2>3, <2>4, <2>5, <2>7, <2>8, Moves
<1> QED BY <1>1, <1>3, <1>4

(* The files offered are the plan's and the formatter's. *)
LEMMA KeepsCollect ==
  ASSUME IInv, Collect
  PROVE  IInv'
<1> DEFINE tool == DOMAIN run.delta
           files == IF tool = {} THEN run.plan
                    ELSE [p \in Affected \cup tool |->
                            IF p \in Affected THEN collectPreparedFiles[p] ELSE StageFileForToolDelta(p)]
           claims == [formatting |-> formattingClaims, tests |-> FullTestGate,
                      corroborated |-> corroborateParserWithProjectCheck]
<1>1. run.pc = "collect" /\ self # 0 /\ UNCHANGED <<disk, past, box, job, World>> /\ Quiet
      /\ run' = [run EXCEPT !.pc = "diagnose", !.files = files, !.claims = claims]
  BY DEF Collect, At
<1>2. NoneRuns /\ run.pc \in Stages
  BY <1>1, NoCommands DEF CommandStages, Stages
<1>3. IsList(run.stages) /\ Judged(run.stages, box.tree) /\ DOMAIN run.delta \subseteq Paths
      /\ Over(run.delta, box.tree)
  BY <1>2, JudgedSoFar
<1>4. \A p \in Paths : box.tree[p] = IF p \in DOMAIN files THEN files[p] ELSE run.manifest[p].content
  <2> SUFFICES ASSUME NEW p \in Paths
               PROVE  box.tree[p] = IF p \in DOMAIN files THEN files[p] ELSE run.manifest[p].content
    OBVIOUS
  <2>1. box.tree[p] = IF p \in DOMAIN run.delta THEN run.delta[p] ELSE Base(p)
    BY <1>3 DEF Over
  <2>2. CASE tool = {}
    BY <2>1, <2>2 DEF Base
  <2>3. CASE tool # {}
    <3>1. files = [q \in Affected \cup tool |->
                    IF q \in Affected THEN collectPreparedFiles[q] ELSE StageFileForToolDelta(q)]
      BY <2>3
    <3>2. DOMAIN files = Affected \cup tool
      BY <3>1
    <3>3. CASE p \in Affected
      BY <3>1, <3>2, <3>3 DEF collectPreparedFiles
    <3>4. CASE p \in tool \ Affected
      BY <2>1, <3>1, <3>2, <3>4 DEF StageFileForToolDelta
    <3>5. CASE p \notin Affected \cup tool
      BY <2>1, <3>2, <3>5 DEF Base, Affected
    <3> QED BY <3>3, <3>4, <3>5
  <2> QED BY <2>2, <2>3
<1>5. claims.tests = "full_tests_passed" => \A stage \in StagesNamed("tests") : stage.tree = box.tree
  <2>1. claims.tests = "full_tests_passed" => \A stage \in StagesNamed("tests") : stage.status = "passed"
    BY DEF FullTestGate, labelFullTest
  <2>2. ASSUME NEW stage \in StagesNamed("tests"), stage.status = "passed" PROVE stage.tree = box.tree
    BY <1>3, <2>2 DEF StagesNamed, Judged, Speaks
  <2> QED BY <2>1, <2>2
<1> HIDE DEF files, claims
<1>6. DOMAIN run = RunFields /\ run.next \in Nat \ {0} /\ IsPolicy(run.policy) /\ IsList(run.stages)
      /\ DOMAIN run.delta \subseteq Paths /\ run.original \in Trees
  BY <1>1 DEF IInv, TypeInv, RunOK, Piped, Stages
<1>7. /\ DOMAIN run' = RunFields /\ run'.pc = "diagnose" /\ run'.left = run.left /\ run'.cancelled = run.cancelled
      /\ run'.manifest = run.manifest /\ run'.plan = run.plan /\ run'.policy = run.policy
      /\ run'.next = run.next /\ run'.stages = run.stages /\ run'.delta = run.delta
      /\ run'.queue = run.queue /\ run'.results = run.results /\ run'.files = files
      /\ run'.original = run.original /\ run'.claims = claims
  BY <1>1, <1>6 DEF RunFields
<1>8. RunMoves
  BY <1>6, <1>7 DEF RunMoves, Piped
<1>9. NoneRuns'
  BY <1>1, <1>2, <1>7 DEF NoneRuns, Group, Busy
<1>10. LoadInv' /\ FormatInv' /\ JudgeInv'
  BY <1>7 DEF LoadInv, FormatInv, JudgeInv, Judging, Stages, Reading
<1>11. box' = box
  BY <1>1
<1>12. OfferInv'
  BY <1>3, <1>4, <1>5, <1>7, <1>11 DEF OfferInv, Offered, StagesNamed, Judged, Speaks
<1>13. ~Mutating("diagnose") /\ run.pc \in Piped
  BY <1>2 DEF Mutating, Piped
<1> QED BY <1>1, <1>7, <1>8, <1>9, <1>10, <1>12, <1>13, Moves

(* The results of a group, in the order of the policy. *)
LEMMA GroupRecords ==
  ASSUME IInv, Group # {}, run.queue = {}, \A i \in Slots : ~Busy(i)
  PROVE  \E last \in DOMAIN CommandsOf(run.pc) :
            /\ Group = run.next..last /\ run.next <= last /\ run.next \in Nat \ {0} /\ last \in Nat
            /\ Cardinality(Group) = last - run.next + 1
            /\ IsList(InOrder(run.pc)) /\ DOMAIN InOrder(run.pc) = 1..(last - run.next + 1)
            /\ \A k \in DOMAIN InOrder(run.pc) :
                 /\ run.next + k - 1 \in Group
                 /\ InOrder(run.pc)[k].stage = run.pc
                 /\ InOrder(run.pc)[k].status = run.results[run.next + k - 1].status
                 /\ InOrder(run.pc)[k].tree = run.results[run.next + k - 1].tree
<1>1. Taken = Group
  BY DEF Taken
<1>2. run.pc \in Piped
  BY <1>1 DEF IInv, JobInv, CommandStages, Piped, Stages
<1>3. PICK last \in DOMAIN CommandsOf(run.pc) : Group = run.next..last
  BY <1>1 DEF IInv, JobInv
<1>4. last \in Nat /\ run.next \in Nat \ {0}
  <2>1. IsPolicy(run.policy) /\ run.next \in Nat \ {0}
    BY <1>2 DEF IInv, TypeInv, RunOK
  <2>2. PICK n \in Nat : DOMAIN CommandsOf(run.pc) = 1..n
    BY <2>1, CommandLists
  <2> QED BY <2>1, <2>2
<1>5. run.next <= last
  BY <1>3, <1>4
<1>6. Cardinality(Group) = last - run.next + 1
  BY <1>3, <1>4, <1>5, FS_Interval
<1> DEFINE m == last - run.next + 1
           records == InOrder(run.pc)
           record(k) == LET index == run.next + k - 1
                        IN Record(run.pc, CommandsOf(run.pc)[index].name, run.results[index].status, run.results[index].tree)
<1>7. records = [k \in 1..m |-> record(k)]
  BY <1>6 DEF InOrder
<1>8. \A k \in 1..m : /\ record(k).stage = run.pc /\ record(k).status = run.results[run.next + k - 1].status
                      /\ record(k).tree = run.results[run.next + k - 1].tree
  BY DEF Record
<1>9. m \in Nat /\ \A k \in 1..m : run.next + k - 1 \in run.next..last
  BY <1>4, <1>5
<1> HIDE DEF m, record, records
<1>10. DOMAIN records = 1..m /\ \A k \in 1..m : records[k] = record(k)
  BY <1>7
<1>11. IsList(records)
  <2>1. \A k \in 1..m : records[k] \in Range(records)
    BY <1>10 DEF Range
  <2>2. records = [k \in 1..m |-> records[k]]
    BY <1>7, <1>10
  <2>3. [k \in 1..m |-> records[k]] \in Seq(Range(records))
    BY <1>9, <2>1
  <2> QED BY <2>2, <2>3 DEF IsList
<1>12. \A k \in DOMAIN records :
         /\ run.next + k - 1 \in Group
         /\ records[k].stage = run.pc
         /\ records[k].status = run.results[run.next + k - 1].status
         /\ records[k].tree = run.results[run.next + k - 1].tree
  BY <1>3, <1>8, <1>9, <1>10
<1> QED BY <1>3, <1>4, <1>5, <1>6, <1>10, <1>11, <1>12 DEF records, m

(* After the first pass of the formatter comes the second. *)
LEMMA MovesToSecondPass ==
  ASSUME IInv, self # 0, run.pc = "format", NEW stages, NEW delta, NextStage("idempotency", stages, delta),
         run'.next = 1, \A i \in Slots : ~Busy(i), UNCHANGED <<disk, past, box, job, World>>, Quiet,
         IsList(stages), DOMAIN delta \subseteq Paths, Over(delta, box.tree),
         \A i \in DOMAIN stages : stages[i].stage = "format"
  PROVE  IInv'
<1>1. run.pc \in Piped /\ "idempotency" \in Piped
  BY DEF Piped, Stages
<1>2. NoneRuns' /\ Group' = {}
  BY DEF NextStage, NoneRuns, Group, Busy
<1>3. RunMoves
  BY <1>1 DEF RunMoves, NextStage, IInv, TypeInv, RunOK
<1>4. box' = box /\ Settled' = box.tree
  BY <1>2 DEF Settled, NoneRuns, Direct, Slots
<1>5. Over(run.delta, Settled)'
  BY <1>4 DEF Over, Base, NextStage
<1>6. run.files = run.plan
  BY DEF IInv, LoadInv, Stages
<1>7. LoadInv' /\ FormatInv' /\ JudgeInv' /\ OfferInv'
  BY <1>2, <1>5, <1>6 DEF LoadInv, FormatInv, JudgeInv, OfferInv, NextStage, Judging, Stages, Reading
<1>8. UNCHANGED <<disk, past, box, job, World>> /\ (Quiet \/ Event)
  OBVIOUS
<1> QED BY <1>1, <1>2, <1>3, <1>7, <1>8, Moves

LEMMA KeepsEndGroup ==
  ASSUME IInv, EndGroup
  PROVE  IInv'
<1> DEFINE records == InOrder(run.pc)
           end == run.next + Cardinality(Group) - 1
           all == IF run.pc = "idempotency" THEN run.stages ELSE run.stages \o records
           delta == IF run.pc = "format" THEN run.results[1].delta ELSE run.delta
           done == [run EXCEPT !.results = <<>>, !.stages = all, !.delta = delta]
           repeated == run.pc = "idempotency" /\ Nondeterministic(run.results[1])
           bad == run.pc # "idempotency" /\ \E k \in DOMAIN records : records[k].status # "passed"
<1>1. /\ self # 0 /\ Group # {} /\ run.queue = {} /\ \A i \in Slots : ~Busy(i)
      /\ UNCHANGED <<disk, past, job, World>> /\ Quiet
  BY DEF EndGroup, Busy
<1>2. PICK last \in DOMAIN CommandsOf(run.pc) :
        /\ Group = run.next..last /\ run.next <= last /\ run.next \in Nat \ {0} /\ last \in Nat
        /\ Cardinality(Group) = last - run.next + 1
        /\ IsList(InOrder(run.pc)) /\ DOMAIN InOrder(run.pc) = 1..(last - run.next + 1)
        /\ \A k \in DOMAIN InOrder(run.pc) :
             /\ run.next + k - 1 \in Group
             /\ InOrder(run.pc)[k].stage = run.pc
             /\ InOrder(run.pc)[k].status = run.results[run.next + k - 1].status
             /\ InOrder(run.pc)[k].tree = run.results[run.next + k - 1].tree
  BY <1>1, GroupRecords
<1>3. end = last
  BY <1>2
<1>4. run.pc \in CommandStages /\ run.pc \in Stages /\ run.pc \in Piped
  BY <1>1 DEF IInv, JobInv, Taken, CommandStages, Stages, Piped
<1>5. \/ /\ Fails /\ (box' = box \/ box' = [box EXCEPT !.tree = run.original])
      \/ /\ ~repeated /\ ~bad /\ box' = box
         /\ run' = IF last + 1 \in DOMAIN CommandsOf(run.pc) THEN [done EXCEPT !.next = last + 1]
                   ELSE [done EXCEPT !.pc = After(run.pc), !.next = 1]
  <2> HIDE DEF records, all, delta, done
  <2>1. CASE repeated
    BY <2>1 DEF EndGroup, records
  <2>2. CASE bad
    BY <2>2 DEF EndGroup, records
  <2>3. CASE ~repeated /\ ~bad
    BY <1>3, <2>3 DEF EndGroup, records, done, all, delta
  <2> QED BY <2>1, <2>2, <2>3
<1>6. CASE Fails /\ (box' = box \/ box' = [box EXCEPT !.tree = run.original])
  <2>1. run.original \in Trees /\ box.tree \in Trees
    BY DEF IInv, TypeInv, RunOK, WorldOK
  <2>2. box'.tree \in Trees /\ box' = [box EXCEPT !.tree = box'.tree]
    BY <1>6, <2>1 DEF IInv, TypeInv, WorldOK
  <2> QED BY <1>1, <1>4, <1>6, <2>2, FailsKeeps
<1>7. CASE /\ ~repeated /\ ~bad /\ box' = box
           /\ run' = IF last + 1 \in DOMAIN CommandsOf(run.pc) THEN [done EXCEPT !.next = last + 1]
                     ELSE [done EXCEPT !.pc = After(run.pc), !.next = 1]
  <2>1. DOMAIN run = RunFields /\ IsList(run.stages) /\ IsPolicy(run.policy) /\ DOMAIN run.delta \subseteq Paths
        /\ \A k \in Group : DOMAIN run.results[k].delta \subseteq Paths
    BY <1>4 DEF IInv, TypeInv, RunOK
  <2>2. run.pc \in {"format", "idempotency"} => Group = {1} /\ last = 1 /\ run.next = 1
    <3> SUFFICES ASSUME run.pc \in {"format", "idempotency"} PROVE Group = {1} /\ last = 1 /\ run.next = 1
      OBVIOUS
    <3>1. run.next = 1
      BY DEF IInv, JobInv, Mutating
    <3>2. PICK n \in Nat : DOMAIN CommandsOf(run.pc) = 1..n /\ n <= 1
      BY <2>1, CommandLists DEF Mutating
    <3>3. last = 1
      BY <1>2, <3>2
    <3> QED BY <1>2, <3>1, <3>3
  <2>3. run.pc # "idempotency" => \A k \in Group : run.results[k].status = "passed"
    <3> SUFFICES ASSUME run.pc # "idempotency", NEW n \in Group PROVE run.results[n].status = "passed"
      OBVIOUS
    <3>1. n - run.next + 1 \in DOMAIN InOrder(run.pc) /\ run.next + (n - run.next + 1) - 1 = n
      BY <1>2
    <3>2. InOrder(run.pc)[n - run.next + 1].status = run.results[n].status
      <4>1. InOrder(run.pc)[n - run.next + 1].status = run.results[run.next + (n - run.next + 1) - 1].status
        BY <1>2, <3>1
      <4> QED BY <3>1, <4>1
    <3> QED BY <1>7, <3>1, <3>2
  <2>4. run.pc \in Judging => Over(run.delta, box.tree) /\ Judged(run.stages, box.tree) /\ Judged(InOrder(run.pc), box.tree)
    <3> SUFFICES ASSUME run.pc \in Judging
                 PROVE  Over(run.delta, box.tree) /\ Judged(run.stages, box.tree) /\ Judged(InOrder(run.pc), box.tree)
      OBVIOUS
    <3>1. Settled = box.tree
      BY <1>1 DEF Settled, Direct, Slots
    <3>2. Over(run.delta, box.tree) /\ Judged(run.stages, box.tree) /\ \A k \in Group : Speaks(run.results[k], box.tree)
      BY <3>1 DEF IInv, JudgeInv, Judged
    <3>3. Judged(InOrder(run.pc), box.tree)
      BY <1>2, <3>2 DEF Judged, Speaks
    <3> QED BY <3>2, <3>3
  <2>5. run.pc = "idempotency" => Over(run.delta, box.tree) /\ Judged(run.stages, box.tree)
    BY <1>1, <1>7 DEF IInv, FormatInv, Judged
  <2>6. run.pc = "format" => /\ Over(run.results[1].delta, box.tree) /\ run.stages = <<>>
                             /\ DOMAIN run.results[1].delta \subseteq Paths
    BY <1>1, <2>1, <2>2, <2>3 DEF IInv, FormatInv, LoadInv
  <2>7. IsList(all)
    BY <1>2, <2>1, Joined
  <2>8. run.pc \in Judging => Judged(all, box.tree)
    BY <1>2, <2>1, <2>4, JudgedJoined DEF Judging
  <2>9. DOMAIN done = RunFields /\ done.stages = all /\ done.delta = delta /\ done.results = <<>>
        /\ done.pc = run.pc /\ done.left = run.left /\ done.cancelled = run.cancelled
        /\ done.manifest = run.manifest /\ done.plan = run.plan /\ done.policy = run.policy
        /\ done.queue = run.queue /\ done.files = run.files /\ done.original = run.original
    BY <2>1 DEF RunFields
  <2> HIDE DEF done
  <2>10. CASE last + 1 \in DOMAIN CommandsOf(run.pc)
    <3>1. run.pc \notin {"format", "idempotency"}
      <4>1. PICK n \in Nat : DOMAIN CommandsOf(run.pc) = 1..n /\ (Mutating(run.pc) => n <= 1)
        BY <2>1, CommandLists
      <4> QED BY <1>2, <2>10, <4>1 DEF Mutating
    <3>2. run.pc \in Judging /\ delta = run.delta
      BY <1>4, <3>1 DEF Judging, CommandStages
    <3>3. run' = [done EXCEPT !.next = last + 1]
      BY <1>7, <2>10
    <3> HIDE DEF all, delta
    <3>4. NextStage(run.pc, all, run.delta)
      BY <1>1, <1>2, <2>9, <3>2, <3>3 DEF NextStage, RunFields
    <3>5. UNCHANGED <<disk, past, box, job, World>>
      BY <1>1, <1>7
    <3> QED BY <1>1, <1>4, <2>1, <2>4, <2>7, <2>8, <3>2, <3>4, <3>5, MovesToJudging
  <2>11. CASE last + 1 \notin DOMAIN CommandsOf(run.pc)
    <3>1. run' = [done EXCEPT !.pc = After(run.pc), !.next = 1]
      BY <1>7, <2>11
    <3>2. PICK to : to = After(run.pc)
      OBVIOUS
    <3> HIDE DEF all, delta
    <3>3. NextStage(to, all, delta) /\ run'.next = 1
      BY <1>1, <2>9, <3>1, <3>2 DEF NextStage, RunFields
    <3>4. UNCHANGED <<disk, past, box, job, World>>
      BY <1>1, <1>7
    <3>5. CASE run.pc = "format"
      <4>1. to = "idempotency" /\ delta = run.results[1].delta
        BY <3>2, <3>5, Afters DEF delta
      <4>2. \A i \in DOMAIN all : all[i].stage = "format"
        <5>1. all = run.stages \o InOrder(run.pc)
          BY <3>5 DEF all
        <5>2. HoldsOf(all, run.stages, InOrder(run.pc))
          BY <1>2, <2>1, <5>1, Joined
        <5>3. DOMAIN run.stages = {}
          BY <2>6, <3>5, NoneIsList
        <5>4. \A j \in DOMAIN InOrder(run.pc) : InOrder(run.pc)[j].stage = "format"
          BY <1>2, <3>5
        <5> QED BY <5>2, <5>3, <5>4 DEF HoldsOf
      <4> QED BY <1>1, <2>6, <2>7, <3>3, <3>4, <3>5, <4>1, <4>2, MovesToSecondPass
    <3>6. CASE run.pc = "idempotency"
      <4>1. to = "format_gate" /\ delta = run.delta /\ all = run.stages
        BY <3>2, <3>6, Afters DEF delta, all
      <4>2. to \in Judging
        BY <4>1 DEF Judging
      <4> QED BY <1>1, <1>4, <2>1, <2>5, <2>7, <3>3, <3>4, <3>6, <4>1, <4>2, MovesToJudging
    <3>7. CASE run.pc \notin {"format", "idempotency"}
      <4>1. to \in Judging /\ run.pc \in Judging /\ delta = run.delta
        BY <1>4, <3>2, <3>7, Afters DEF CommandStages, Judging, delta
      <4> QED BY <1>1, <1>4, <2>1, <2>4, <2>7, <2>8, <3>3, <3>4, <4>1, MovesToJudging
    <3> QED BY <3>5, <3>6, <3>7
  <2> QED BY <2>10, <2>11
<1> QED BY <1>5, <1>6, <1>7

-----------------------------------------------------------------------------
(* Every action keeps the invariant: the commands. *)

RunOn == /\ DOMAIN run' = RunFields /\ run'.pc = run.pc /\ run'.left = run.left /\ run'.cancelled = run.cancelled
         /\ run'.manifest = run.manifest /\ run'.plan = run.plan /\ run'.policy = run.policy /\ run'.next = run.next
         /\ run'.stages = run.stages /\ run'.delta = run.delta /\ run'.files = run.files
         /\ run'.original = run.original /\ run'.claims = run.claims

BoxSteps == box' = box \/ (box'.tree \in Trees /\ box' = [box EXCEPT !.tree = box'.tree])

LEMMA CommandKeeps ==
  ASSUME IInv, run.pc \in CommandStages, RunOn, run'.queue \subseteq Nat, Group' \subseteq Nat,
         \A k \in Group' : DOMAIN run'.results[k].delta \subseteq Paths,
         UNCHANGED <<disk, past, litter, proc, self, roots>>, Quiet, BoxSteps, job' \in [Slots -> Jobs],
         JobInv', FormatInv', JudgeInv', LiveScratchStays'
  PROVE  IInv'
<1>1. /\ run.pc \in Piped /\ run.pc \in Stages
      /\ run.pc \notin Reading \cup {"sealed", "idle", "failed", "load", "diagnose", "prepared"}
  BY DEF CommandStages, Piped, Stages, Reading
<1>2. RunOK'
  BY DEF RunOK, RunOn, IInv, TypeInv
<1>3. WorldOK' /\ box'.name = box.name /\ box'.marker = box.marker
  BY DEF WorldOK, IInv, TypeInv, BoxSteps, Quiet
<1>4. BoxInv'
  <2>1. BoxIs("sandbox", "prepared") /\ self' = self /\ self # 0
    BY <1>1 DEF IInv, BoxInv
  <2>2. BoxIs("sandbox", "prepared")'
    BY <1>3, <2>1 DEF BoxIs
  <2>3. run'.pc = run.pc
    BY DEF RunOn
  <2> QED BY <1>1, <2>1, <2>2, <2>3 DEF BoxInv, NothingYet, Reading
<1>5. LitterInv' /\ (self' = 0 => spent' > 0)
  BY DEF IInv, LitterInv, ScratchInv, Quiet
<1>6. SourceInv'
  BY <1>1 DEF IInv, SourceInv, RunOn, ContentOf, Reading
<1>7. LoadInv'
  BY <1>1 DEF IInv, LoadInv, RunOn
<1>8. OfferInv'
  BY <1>1 DEF OfferInv, RunOn
<1> QED BY <1>2, <1>3, <1>4, <1>5, <1>6, <1>7, <1>8 DEF IInv, TypeInv, ScratchInv

LEMMA CommandsSame ==
  ASSUME RunOn
  PROVE  CommandsOf(run.pc)' = CommandsOf(run.pc) /\ \A delta, tree : Over(delta, tree)' <=> Over(delta, tree)
<1>1. CommandsOf(run.pc)' = CommandsOf(run.pc)
  BY DEF CommandsOf, Mutating, TransformDeclared, Affected, RunOn
<1>2. \A delta, tree : Over(delta, tree)' <=> Over(delta, tree)
  BY DEF Over, Base, RunOn
<1> QED BY <1>1, <1>2

(* What the invariant says of the commands and of their stage, part by part. *)
LEMMA JobParts ==
  ASSUME IInv
  PROVE  /\ \A i \in Slots : Busy(i) => run.pc \in CommandStages /\ job[i] \in Jobs
         /\ run.queue # {} => run.pc \in CommandStages
         /\ \A i \in Slots : Direct(i) =>
              i = 1 /\ ~Busy(2) /\ run.queue = {} /\ Group = {} /\ job[1].index = run.next
         /\ Mutating(run.pc) => run.next = 1 /\ run.queue = {} /\ Group \subseteq {1}
                                /\ \A i \in Slots : Busy(i) => Direct(i)
         /\ Taken # {} => \E last \in DOMAIN CommandsOf(run.pc) : Taken = run.next..last
<1>1. \A i \in Slots : Busy(i) => run.pc \in CommandStages /\ job[i] \in Jobs
  BY DEF IInv, JobInv, TypeInv, WorldOK
<1>2. run.queue # {} => run.pc \in CommandStages
  BY DEF IInv, JobInv, Taken
<1> QED BY <1>1, <1>2 DEF IInv, JobInv

(* A command that runs takes a step: it may write where it runs. *)
LEMMA JobSteps ==
  ASSUME IInv, NEW i \in Slots, Busy(i), Busy(i)', job' = [job EXCEPT ![i] = job'[i]], job'[i] \in Jobs,
         job'[i].index = job[i].index, job'[i].clone = job[i].clone, job'[i].before = job[i].before,
         UNCHANGED <<disk, past, run, World>>, Quiet,
         box' = box \/ (Direct(i) /\ box'.tree \in Trees /\ box' = [box EXCEPT !.tree = box'.tree])
  PROVE  IInv'
<1>1. /\ run' = run /\ litter' = litter /\ scratch' = scratch /\ proc' = proc /\ self' = self
      /\ UNCHANGED <<disk, past, litter, proc, self, roots>>
  BY DEF World
<1>2. job \in [Slots -> Jobs] /\ run.pc \in CommandStages
  BY JobParts DEF IInv, TypeInv, WorldOK
<1>3. job' \in [Slots -> Jobs] /\ \A j \in Slots : /\ Busy(j)' <=> Busy(j) /\ job'[j].index = job[j].index
                                                  /\ job'[j].before = job[j].before
  BY <1>2 DEF Busy
<1>4. \A j \in Slots : job'[j].clone <=> job[j].clone
  BY <1>2
<1>5. \A j \in Slots : Direct(j)' <=> Direct(j)
  BY <1>3, <1>4 DEF Direct
<1>6. RunOn /\ Group' = Group
  BY <1>1 DEF RunOn, IInv, TypeInv, RunOK, Group
<1>7. Taken' = Taken
  BY <1>1, <1>3, <1>6 DEF Taken
<1>8. JobInv'
  <2>1. (run.pc \notin CommandStages => Taken = {} /\ \A j \in Slots : ~Busy(j))'
    BY <1>1, <1>2
  <2>2. (\A j \in Slots : Direct(j) =>
           j = 1 /\ ~Busy(2) /\ run.queue = {} /\ Group = {} /\ job[1].index = run.next)'
    BY <1>1, <1>3, <1>5, <1>6, JobParts DEF Slots
  <2>3. (Mutating(run.pc) => run.next = 1 /\ run.queue = {} /\ Group \subseteq {1}
                             /\ \A j \in Slots : Busy(j) => Direct(j))'
    BY <1>1, <1>3, <1>5, <1>6, JobParts DEF Mutating
  <2>4. (Taken # {} => \E last \in DOMAIN CommandsOf(run.pc) : Taken = run.next..last)'
    BY <1>1, <1>6, <1>7, JobParts, CommandsSame
  <2> QED BY <2>1, <2>2, <2>3, <2>4 DEF JobInv
<1>9. Settled' = Settled
  <2>1. CASE Direct(1)
    BY <1>3, <1>5, <2>1 DEF Settled, Slots
  <2>2. CASE ~Direct(1)
    <3>1. ~Direct(i)
      BY <2>2, JobParts
    <3> QED BY <1>5, <2>2, <3>1 DEF Settled, Slots
  <2> QED BY <2>1, <2>2
<1>10. FormatInv'
  <2>1. Mutating(run.pc) => Group = {}
    BY JobParts
  <2> QED BY <1>1, <1>6, <1>9, <2>1, CommandsSame DEF IInv, FormatInv, Mutating
<1>11. JudgeInv'
  BY <1>1, <1>3, <1>6, <1>9, CommandsSame DEF IInv, JudgeInv, Speaks
<1>12. LiveScratchStays'
  <2>1. \A j \in Slots : job'[j].pc \in {"running", "lingering", "reaped"} => job[j].pc \in {"running", "lingering", "reaped"}
    BY <1>2, <1>3 DEF Busy, Jobs
  <2>2. \A j \in Slots : Env(j)' = Env(j) /\ Clone(j)' = Clone(j)
    BY <1>1 DEF Env, Clone, Owner
  <2> QED BY <1>1, <1>4, <2>1, <2>2 DEF IInv, ScratchInv, LiveScratchStays
<1>13. BoxSteps
  BY DEF BoxSteps
<1>14. run'.queue \subseteq Nat /\ Group' \subseteq Nat /\ \A k \in Group' : DOMAIN run'.results[k].delta \subseteq Paths
  BY <1>1, <1>6 DEF IInv, TypeInv, RunOK
<1> QED BY <1>1, <1>2, <1>3, <1>6, <1>8, <1>10, <1>11, <1>12, <1>13, <1>14, CommandKeeps

LEMMA KeepsCommandWrites ==
  ASSUME IInv, NEW i \in Slots, NEW p \in Paths, NEW content \in ToolWrites, CommandWrites(i, p, content)
  PROVE  IInv'
<1> DEFINE tree == [TreeOf(i) EXCEPT ![p] = content]
           wrote == [job[i] EXCEPT !.wrote = TRUE]
<1>1. /\ job[i].pc \in {"running", "lingering"} /\ SetTree(i, tree, wrote)
      /\ UNCHANGED <<disk, past, run, World>> /\ Quiet
  BY DEF CommandWrites
<1>2. Busy(i) /\ job[i] \in Jobs /\ box.tree \in Trees /\ job \in [Slots -> Jobs]
  BY <1>1 DEF Busy, IInv, TypeInv, WorldOK
<1>3. tree \in Trees
  <2>1. TreeOf(i) \in Trees
    BY <1>2 DEF TreeOf, Jobs
  <2>2. content \in Contents
    BY WritesAssumption
  <2> QED BY <2>1, <2>2 DEF Trees
<1> HIDE DEF tree
<1>4. wrote \in Jobs /\ wrote.pc = job[i].pc /\ wrote.index = job[i].index /\ wrote.before = job[i].before
  BY <1>2 DEF Jobs
<1>5. wrote.clone = job[i].clone
  BY <1>2 DEF Jobs
<1> HIDE DEF wrote
<1>6. CASE job[i].clone
  <2> DEFINE there == [wrote EXCEPT !.tree = tree]
  <2>1. job' = [job EXCEPT ![i] = there] /\ box' = box
    BY <1>1, <1>6 DEF SetTree
  <2>2. there \in Jobs /\ there.pc = wrote.pc /\ there.index = wrote.index /\ there.before = wrote.before
    BY <1>3, <1>4 DEF Jobs
  <2>3. there.clone = wrote.clone
    BY <1>3, <1>4 DEF Jobs
  <2> HIDE DEF there
  <2>4. job'[i] = there
    BY <1>2, <2>1
  <2>5. Busy(i)'
    BY <1>1, <1>4, <2>2, <2>4 DEF Busy
  <2> QED BY <1>1, <1>2, <1>4, <1>5, <2>1, <2>2, <2>3, <2>4, <2>5, JobSteps
<1>7. CASE ~job[i].clone
  <2>1. job' = [job EXCEPT ![i] = wrote] /\ box' = [box EXCEPT !.tree = tree] /\ Direct(i)
    BY <1>1, <1>2, <1>7 DEF SetTree, Direct
  <2>2. job'[i] = wrote /\ box'.tree = tree
    BY <1>2, <2>1 DEF IInv, TypeInv, WorldOK
  <2>3. Busy(i)'
    BY <1>1, <1>4, <2>2 DEF Busy
  <2> QED BY <1>1, <1>2, <1>3, <1>4, <1>5, <2>1, <2>2, <2>3, JobSteps
<1> QED BY <1>6, <1>7

LEMMA KeepsCommandExits ==
  ASSUME IInv, NEW i \in Slots, NEW exit \in {"ok", "failed", "timed_out", "stopped"}, CommandExits(i, exit)
  PROVE  IInv'
<1> DEFINE after == [job[i] EXCEPT !.pc = "lingering", !.exit = exit]
<1>1. /\ job[i].pc = "running" /\ UNCHANGED <<disk, past, box, run, World>> /\ Quiet
      /\ job' = [job EXCEPT ![i].pc = "lingering", ![i].exit = exit]
  BY DEF CommandExits
<1>2. Busy(i) /\ job[i] \in Jobs /\ job \in [Slots -> Jobs]
  BY <1>1 DEF Busy, IInv, TypeInv, WorldOK
<1>3. job' = [job EXCEPT ![i] = after]
  BY <1>1, <1>2
<1>4. after \in Jobs /\ after.pc = "lingering" /\ after.index = job[i].index /\ after.before = job[i].before
  BY <1>2 DEF Jobs
<1>5. after.clone = job[i].clone
  BY <1>2 DEF Jobs
<1> HIDE DEF after
<1>6. job'[i] = after /\ Busy(i)'
  BY <1>2, <1>3, <1>4 DEF Busy
<1>7. UNCHANGED <<disk, past, run, World>> /\ box' = box
  BY <1>1
<1> QED BY <1>1, <1>2, <1>3, <1>4, <1>5, <1>6, <1>7, JobSteps

LEMMA KeepsKillDescendants ==
  ASSUME IInv, NEW i \in Slots, killDescendants(i)
  PROVE  IInv'
<1> DEFINE after == [job[i] EXCEPT !.pc = "reaped"]
<1>1. /\ job[i].pc = "lingering" /\ UNCHANGED <<disk, past, box, run, World>> /\ Quiet
      /\ job' = [job EXCEPT ![i].pc = "reaped"]
  BY DEF killDescendants, descendants
<1>2. Busy(i) /\ job[i] \in Jobs /\ job \in [Slots -> Jobs]
  BY <1>1 DEF Busy, IInv, TypeInv, WorldOK
<1>3. job' = [job EXCEPT ![i] = after]
  BY <1>1, <1>2
<1>4. after \in Jobs /\ after.pc = "reaped" /\ after.index = job[i].index /\ after.before = job[i].before
  BY <1>2 DEF Jobs
<1>5. after.clone = job[i].clone
  BY <1>2 DEF Jobs
<1> HIDE DEF after
<1>6. job'[i] = after /\ Busy(i)'
  BY <1>2, <1>3, <1>4 DEF Busy
<1>7. UNCHANGED <<disk, past, run, World>> /\ box' = box
  BY <1>1
<1> QED BY <1>1, <1>2, <1>3, <1>4, <1>5, <1>6, <1>7, JobSteps

(* A command starts in the tree itself, when nothing else runs. *)
LEMMA KeepsCommandStage ==
  ASSUME IInv, commandStage
  PROVE  IInv'
<1> DEFINE started == [NoJob EXCEPT !.pc = "running", !.index = run.next, !.clone = FALSE, !.before = box.tree,
                                    !.tree = box.tree]
<1>1. /\ run.pc \in CommandStages /\ run.queue = {} /\ Group = {} /\ \A i \in Slots : ~Busy(i)
      /\ run.next \in DOMAIN CommandsOf(run.pc) /\ job' = [job EXCEPT ![1] = started]
      /\ scratch' = scratch \cup {Env(1)} /\ UNCHANGED <<disk, past, litter, proc, self, roots>>
      /\ box' = box /\ run' = run /\ Quiet
  BY DEF commandStage, MayRun, GroupStarts, StartedJob, Busy, Group
<1>2. job \in [Slots -> Jobs] /\ box.tree \in Trees /\ run.next \in Nat \ {0} /\ 1 \in Slots /\ 2 \in Slots
  BY DEF IInv, TypeInv, WorldOK, RunOK, Slots
<1>3. started \in Jobs /\ started.pc = "running" /\ started.index = run.next /\ ~started.clone
      /\ started.before = box.tree
  BY <1>2, BoxTypes DEF NoJob, Jobs
<1> HIDE DEF started
<1>4. job' \in [Slots -> Jobs] /\ job'[1] = started /\ \A i \in Slots : i # 1 => job'[i] = job[i]
  BY <1>1, <1>2, <1>3
<1>5. Direct(1)' /\ \A i \in Slots : Busy(i)' => i = 1
  BY <1>1, <1>3, <1>4 DEF Direct, Busy
<1>6. RunOn /\ Group' = {}
  BY <1>1 DEF RunOn, IInv, TypeInv, RunOK, Group
<1>7. Taken' = {run.next}
  <2>1. {job'[i].index : i \in {j \in Slots : Busy(j)'}} = {run.next}
    BY <1>2, <1>3, <1>4, <1>5 DEF Direct
  <2> QED BY <1>1, <1>6, <2>1 DEF Taken
<1>8. JobInv'
  <2>1. (run.pc \notin CommandStages => Taken = {} /\ \A j \in Slots : ~Busy(j))'
    BY <1>1
  <2>2. (\A j \in Slots : Direct(j) =>
           j = 1 /\ ~Busy(2) /\ run.queue = {} /\ Group = {} /\ job[1].index = run.next)'
    BY <1>1, <1>2, <1>3, <1>4, <1>5, <1>6 DEF Direct
  <2>3. (Mutating(run.pc) => run.next = 1 /\ run.queue = {} /\ Group \subseteq {1}
                             /\ \A j \in Slots : Busy(j) => Direct(j))'
    BY <1>1, <1>5, <1>6, JobParts DEF Mutating
  <2>4. (Taken # {} => \E last \in DOMAIN CommandsOf(run.pc) : Taken = run.next..last)'
    BY <1>1, <1>2, <1>6, <1>7, CommandsSame
  <2> QED BY <2>1, <2>2, <2>3, <2>4 DEF JobInv
<1>9. Settled = box.tree /\ Settled' = box.tree
  BY <1>1, <1>2, <1>3, <1>4, <1>5 DEF Settled, Direct
<1>10. FormatInv'
  BY <1>1, <1>6, <1>9, CommandsSame DEF IInv, FormatInv
<1>11. JudgeInv'
  BY <1>1, <1>3, <1>4, <1>5, <1>6, <1>9, CommandsSame DEF IInv, JudgeInv, Speaks
<1>12. LiveScratchStays'
  <2>1. Env(1)' = Env(1)
    BY <1>1 DEF Env, Owner
  <2>2. \A i \in Slots : job'[i].pc \in {"running", "lingering", "reaped"} => i = 1
    BY <1>5 DEF Busy
  <2> QED BY <1>1, <1>3, <1>4, <2>1, <2>2 DEF IInv, ScratchInv, LiveScratchStays
<1>13. run'.queue \subseteq Nat /\ Group' \subseteq Nat /\ \A k \in Group' : DOMAIN run'.results[k].delta \subseteq Paths
  BY <1>1, <1>6
<1> QED BY <1>1, <1>4, <1>6, <1>8, <1>10, <1>11, <1>12, <1>13, CommandKeeps DEF BoxSteps

(* A batch is the commands up to the first that may not run beside others. *)
LEMMA KeepsRunIsolatedCommandBatch ==
  ASSUME IInv, runIsolatedCommandBatch
  PROVE  IInv'
<1> DEFINE queue == run.next..(BatchEnd - 1)
<1>1. /\ run.pc \in CommandStages /\ run.queue = {} /\ Group = {} /\ \A i \in Slots : ~Busy(i)
      /\ run.next \in DOMAIN CommandsOf(run.pc) /\ job' = job /\ scratch' = scratch
      /\ UNCHANGED <<disk, past, litter, proc, self, roots>>
      /\ box' = box /\ run' = [run EXCEPT !.queue = queue] /\ Quiet /\ ~Mutating(run.pc)
  BY DEF runIsolatedCommandBatch, MayRun, GroupStarts, Busy, Group, World, Alone, Mutating
<1>2. /\ DOMAIN run = RunFields /\ run.next \in Nat \ {0} /\ IsPolicy(run.policy) /\ job \in [Slots -> Jobs]
  BY <1>1 DEF IInv, TypeInv, WorldOK, RunOK, Piped, Stages, CommandStages
<1>3. PICK n \in Nat : DOMAIN CommandsOf(run.pc) = 1..n /\ Len(CommandsOf(run.pc)) = n
  BY <1>1, <1>2, CommandLists
<1>4. BatchEnd - 1 \in DOMAIN CommandsOf(run.pc) /\ run.next <= BatchEnd - 1
  <2> DEFINE barriers == {i \in DOMAIN CommandsOf(run.pc) : i > run.next /\ ~CommandsOf(run.pc)[i].parallel}
             ends == barriers \cup {Len(CommandsOf(run.pc)) + 1}
  <2>1. ends \subseteq (run.next + 1)..(n + 1) /\ ends \subseteq Nat /\ ends # {}
    <3>1. barriers \subseteq (run.next + 1)..n
      BY <1>2, <1>3
    <3>2. n + 1 \in (run.next + 1)..(n + 1)
      BY <1>1, <1>2, <1>3
    <3> HIDE DEF barriers
    <3> QED BY <1>2, <1>3, <3>1, <3>2
  <2> HIDE DEF ends
  <2>2. Min(ends) \in ends
    BY <2>1, Minimum
  <2>3. BatchEnd = Min(ends)
    BY DEF BatchEnd, ends
  <2>4. PICK e : e = BatchEnd
    OBVIOUS
  <2>5. e \in (run.next + 1)..(n + 1)
    BY <2>1, <2>2, <2>3, <2>4
  <2>6. e - 1 \in 1..n /\ run.next <= e - 1
    BY <1>2, <1>3, <2>5
  <2> QED BY <1>3, <2>4, <2>6
<1>5. queue \subseteq Nat
  BY <1>2, <1>3, <1>4
<1> HIDE DEF queue
<1>6. /\ RunOn /\ run'.queue = queue /\ run'.results = run.results
  BY <1>1, <1>2 DEF RunOn, RunFields
<1>7. Group' = {}
  BY <1>1, <1>6 DEF Group
<1>8. \A i \in Slots : ~Busy(i)' /\ ~Direct(i)'
  BY <1>1 DEF Busy, Direct
<1>9. Taken' = queue
  BY <1>6, <1>7, <1>8 DEF Taken
<1>10. JobInv'
  <2>1. (run.pc \notin CommandStages => Taken = {} /\ \A j \in Slots : ~Busy(j))'
    BY <1>1, <1>6 DEF RunOn
  <2>2. (\A j \in Slots : Direct(j) =>
           j = 1 /\ ~Busy(2) /\ run.queue = {} /\ Group = {} /\ job[1].index = run.next)'
    BY <1>8
  <2>3. (Mutating(run.pc) => run.next = 1 /\ run.queue = {} /\ Group \subseteq {1}
                             /\ \A j \in Slots : Busy(j) => Direct(j))'
    BY <1>1, <1>6 DEF Mutating, RunOn
  <2>4. (Taken # {} => \E last \in DOMAIN CommandsOf(run.pc) : Taken = run.next..last)'
    BY <1>4, <1>6, <1>9, CommandsSame DEF queue, RunOn
  <2> QED BY <2>1, <2>2, <2>3, <2>4 DEF JobInv
<1>11. Settled = box.tree /\ Settled' = box.tree
  BY <1>1, <1>8 DEF Settled, Direct, Slots
<1>12. FormatInv'
  BY <1>1, <1>6 DEF FormatInv, Mutating, RunOn
<1>13. JudgeInv'
  BY <1>1, <1>6, <1>7, <1>8, <1>11, CommandsSame DEF IInv, JudgeInv, Speaks, RunOn
<1>14. LiveScratchStays'
  BY <1>1, <1>8 DEF IInv, ScratchInv, LiveScratchStays, Busy
<1> QED BY <1>1, <1>2, <1>5, <1>6, <1>7, <1>10, <1>12, <1>13, <1>14, CommandKeeps DEF BoxSteps

(* A worker takes the first command of the batch, or reports that it was cancelled. *)
LEMMA KeepsWorkerTakes ==
  ASSUME IInv, NEW i \in Slots, WorkerTakes(i)
  PROVE  IInv'
<1> DEFINE index == Min(run.queue)
           taken == [NoJob EXCEPT !.pc = "running", !.index = index, !.clone = TRUE, !.before = box.tree,
                                  !.tree = box.tree]
<1>1. /\ run.queue # {} /\ ~Busy(i) /\ UNCHANGED <<disk, past, litter, proc, self, roots>> /\ Quiet /\ box' = box
      /\ run' = [run EXCEPT !.queue = run.queue \ {index},
                            !.results = IF run.cancelled THEN Report(index, commandStageFailure) ELSE run.results]
      /\ IF run.cancelled THEN UNCHANGED <<job, scratch>>
         ELSE job' = [job EXCEPT ![i] = taken] /\ scratch' = scratch \cup {Env(i), Clone(i)}
  BY DEF WorkerTakes, Busy, StartedJob
<1>2. DOMAIN run = RunFields /\ run.queue \subseteq Nat /\ Group \subseteq Nat /\ job \in [Slots -> Jobs] /\ box.tree \in Trees
      /\ \A k \in Group : DOMAIN run.results[k].delta \subseteq Paths
  BY DEF IInv, TypeInv, RunOK, WorldOK
<1>3. index \in run.queue /\ index \in Nat
  BY <1>1, <1>2, Minimum
<1> HIDE DEF index
<1>4. /\ run.pc \in CommandStages /\ ~Mutating(run.pc) /\ \A j \in Slots : ~Direct(j)
  BY <1>1, JobParts
<1>5. taken \in Jobs /\ taken.pc = "running" /\ taken.index = index /\ taken.before = box.tree
  BY <1>2, <1>3, BoxTypes DEF NoJob, Jobs
<1>6. taken.clone
  BY <1>2, <1>3, BoxTypes DEF NoJob, Jobs
<1> HIDE DEF taken
<1>7. PICK results : results = IF run.cancelled THEN Report(index, commandStageFailure) ELSE run.results
  OBVIOUS
<1>8. RunOn /\ run'.queue = run.queue \ {index} /\ run'.results = results
  BY <1>1, <1>2, <1>7 DEF RunOn, RunFields
<1>9. Settled = box.tree
  BY <1>4 DEF Settled, Slots
<1>10. /\ Group' = IF run.cancelled THEN Group \cup {index} ELSE Group
       /\ \A k \in Group' : (k \in Group /\ run'.results[k] = run.results[k])
                            \/ run'.results[k] = commandStageFailure
  BY <1>7, <1>8 DEF Group, Report
<1>11. DOMAIN commandStageFailure.delta = {} /\ commandStageFailure.status = "cancelled"
  BY NoneIsList DEF commandStageFailure
<1>12. /\ job' \in [Slots -> Jobs] /\ \A j \in Slots : ~Direct(j)'
       /\ \A j \in Slots : Busy(j)' => (Busy(j) /\ job'[j] = job[j]) \/ (~run.cancelled /\ j = i /\ job'[j] = taken)
       /\ \A j \in Slots : Busy(j) => Busy(j)' /\ job'[j] = job[j]
       /\ ~run.cancelled => Busy(i)' /\ job'[i] = taken
  <2>1. CASE run.cancelled
    BY <1>1, <1>2, <1>4, <2>1 DEF Direct, Busy
  <2>2. CASE ~run.cancelled
    <3>1. job' = [job EXCEPT ![i] = taken]
      BY <1>1, <2>2
    <3>2. job' \in [Slots -> Jobs] /\ job'[i] = taken /\ \A j \in Slots : j # i => job'[j] = job[j]
      BY <1>2, <1>5, <3>1
    <3>3. \A j \in Slots : ~Direct(j)'
      BY <1>4, <1>6, <3>2 DEF Direct, Busy
    <3>4. Busy(i)'
      BY <1>5, <3>2 DEF Busy
    <3>5. \A j \in Slots : Busy(j) => j # i /\ Busy(j)' /\ job'[j] = job[j]
      BY <1>1, <3>2 DEF Busy
    <3>6. \A j \in Slots : Busy(j)' => (Busy(j) /\ job'[j] = job[j]) \/ (j = i /\ job'[j] = taken)
      BY <3>2 DEF Busy
    <3> QED BY <2>2, <3>2, <3>3, <3>4, <3>5, <3>6
  <2> QED BY <2>1, <2>2
<1>13. Taken' = Taken
  <2> DEFINE running == {job[j].index : j \in {k \in Slots : Busy(k)}}
             runs == {job'[j].index : j \in {k \in Slots : Busy(k)'}}
  <2>1. CASE run.cancelled
    <3>1. runs = running
      BY <1>12, <2>1
    <3> HIDE DEF runs, running
    <3>2. Taken = Group \cup run.queue \cup running /\ Taken' = Group' \cup run'.queue \cup runs
      BY DEF Taken, runs, running
    <3> QED BY <1>3, <1>8, <1>10, <2>1, <3>1, <3>2
  <2>2. CASE ~run.cancelled
    <3>1. runs = running \cup {index}
      BY <1>5, <1>12, <2>2
    <3> HIDE DEF runs, running
    <3>2. Taken = Group \cup run.queue \cup running /\ Taken' = Group' \cup run'.queue \cup runs
      BY DEF Taken, runs, running
    <3> QED BY <1>3, <1>8, <1>10, <2>2, <3>1, <3>2
  <2> QED BY <2>1, <2>2
<1>14. JobInv'
  <2>1. (run.pc \notin CommandStages => Taken = {} /\ \A j \in Slots : ~Busy(j))'
    BY <1>4, <1>8 DEF RunOn
  <2>2. (\A j \in Slots : Direct(j) =>
           j = 1 /\ ~Busy(2) /\ run.queue = {} /\ Group = {} /\ job[1].index = run.next)'
    BY <1>12
  <2>3. (Mutating(run.pc) => run.next = 1 /\ run.queue = {} /\ Group \subseteq {1}
                             /\ \A j \in Slots : Busy(j) => Direct(j))'
    BY <1>4, <1>8 DEF Mutating, RunOn
  <2>4. (Taken # {} => \E last \in DOMAIN CommandsOf(run.pc) : Taken = run.next..last)'
    BY <1>8, <1>13, JobParts, CommandsSame DEF RunOn
  <2> QED BY <2>1, <2>2, <2>3, <2>4 DEF JobInv
<1>15. Settled' = box.tree
  BY <1>1, <1>12 DEF Settled, Slots
<1>16. FormatInv'
  BY <1>4, <1>8 DEF FormatInv, Mutating, RunOn
<1>17. JudgeInv'
  <2> SUFFICES ASSUME run.pc \in Judging
               PROVE  /\ Over(run.delta, box.tree)
                      /\ \A k \in DOMAIN run.stages : run.stages[k].stage # "format" => Speaks(run.stages[k], box.tree)
                      /\ \A k \in Group' : Speaks(run'.results[k], box.tree)
                      /\ \A j \in Slots : Busy(j)' => job'[j].before = box.tree
    BY <1>8, <1>15, CommandsSame DEF JudgeInv, RunOn, Speaks
  <2>1. /\ Over(run.delta, box.tree)
        /\ \A k \in DOMAIN run.stages : run.stages[k].stage # "format" => Speaks(run.stages[k], box.tree)
        /\ \A k \in Group : Speaks(run.results[k], box.tree)
        /\ \A j \in Slots : Busy(j) => job[j].before = box.tree
    BY <1>9 DEF IInv, JudgeInv
  <2>2. Speaks(commandStageFailure, box.tree)
    BY <1>11 DEF Speaks
  <2>3. \A k \in Group' : Speaks(run'.results[k], box.tree)
    BY <1>10, <2>1, <2>2
  <2>4. \A j \in Slots : Busy(j)' => job'[j].before = box.tree
    BY <1>5, <1>12, <2>1
  <2> QED BY <2>1, <2>3, <2>4
<1>18. LiveScratchStays'
  <2>1. \A j \in Slots : Env(j)' = Env(j) /\ Clone(j)' = Clone(j)
    BY <1>1 DEF Env, Clone, Owner
  <2>2. scratch \subseteq scratch' /\ (~run.cancelled => Env(i) \in scratch' /\ Clone(i) \in scratch')
    BY <1>1
  <2>3. ASSUME NEW j \in Slots, job'[j].pc \in {"running", "lingering", "reaped"}
        PROVE  Env(j) \in scratch' /\ (job'[j].clone => Clone(j) \in scratch')
    <3>1. Busy(j)'
      BY <2>3 DEF Busy
    <3>2. CASE Busy(j) /\ job'[j] = job[j]
      BY <2>2, <2>3, <3>2 DEF IInv, ScratchInv, LiveScratchStays
    <3>3. CASE ~run.cancelled /\ j = i
      BY <2>2, <3>3
    <3> QED BY <1>12, <3>1, <3>2, <3>3
  <2>4. (proc[Peer] = 1)' => proc[Peer] = 1
    BY <1>1
  <2> QED BY <2>1, <2>2, <2>3, <2>4 DEF IInv, ScratchInv, LiveScratchStays
<1>19. Group' \subseteq Nat /\ run'.queue \subseteq Nat /\ \A k \in Group' : DOMAIN run'.results[k].delta \subseteq Paths
  BY <1>2, <1>3, <1>8, <1>10, <1>11
<1> QED BY <1>1, <1>4, <1>8, <1>12, <1>14, <1>16, <1>17, <1>18, <1>19, CommandKeeps DEF BoxSteps

(* A command has ended, with all it started: what it leaves is a tree every stage before it
   judged, or the formatter's. *)
LEMMA KeepsFinishCommand ==
  ASSUME IInv, NEW i \in Slots, FinishCommand(i)
  PROVE  IInv'
<1> DEFINE tree == TreeOf(i)
           before == job[i].before
           delta == diffTrees(before, tree)
           mutating == Mutating(run.pc)
           clean == captureTree(tree) /\ auditToolDelta(delta, tree, CommandsOf(run.pc)[job[i].index], mutating)
           status == IF clean THEN commandRunStatus(job[i].exit) ELSE "failed"
           restored == IF ~clean \/ (mutating /\ status # "passed") THEN before ELSE tree
           written == IF clean THEN [p \in delta |-> tree[p]] ELSE <<>>
           result == [status |-> status, tree |-> before, delta |-> written]
           index == job[i].index
<1>1. /\ job[i].pc = "reaped" /\ SetTree(i, restored, NoJob) /\ scratch' = scratch \ {Env(i), Clone(i)}
      /\ run' = [run EXCEPT !.results = Report(index, result)]
      /\ UNCHANGED <<disk, past, litter, proc, self, roots>> /\ Quiet
  BY DEF FinishCommand, Wait
<1>2. /\ DOMAIN run = RunFields /\ run.queue \subseteq Nat /\ Group \subseteq Nat /\ job \in [Slots -> Jobs]
      /\ box.tree \in Trees /\ job[i] \in Jobs
      /\ \A k \in Group : DOMAIN run.results[k].delta \subseteq Paths
  BY DEF IInv, TypeInv, RunOK, WorldOK
<1>3. Busy(i) /\ run.pc \in CommandStages /\ index \in Nat /\ before \in Trees /\ tree \in Trees
  BY <1>1, <1>2, JobParts DEF Busy, Jobs, TreeOf
<1>4. /\ delta \subseteq Paths /\ \A p \in Paths \ delta : before[p] = tree[p]
      /\ delta = {} => tree = before
  <2>1. delta = {p \in Paths : before[p] # tree[p]}
    BY DEF diffTrees
  <2>2. delta = {} => \A p \in Paths : before[p] = tree[p]
    BY <2>1
  <2>3. delta = {} => tree = before
    BY <1>3, <2>2 DEF Trees
  <2> QED BY <2>1, <2>3
<1>5. clean /\ ~mutating => delta = {}
  BY DEF auditToolDelta
<1>6. status = "passed" => clean
  OBVIOUS
<1>7. /\ DOMAIN written \subseteq Paths
      /\ clean => DOMAIN written = delta /\ \A p \in delta : written[p] = tree[p]
  BY <1>4, NoneIsList
<1>8. result.status = status /\ result.tree = before /\ result.delta = written
  OBVIOUS
<1>9. restored \in Trees /\ (~mutating => restored = before) /\ (status = "passed" => restored = tree)
  BY <1>3, <1>4, <1>5, <1>6
<1>10. mutating <=> Mutating(run.pc)
  OBVIOUS
<1> HIDE DEF tree, delta, mutating, clean, status, restored, written, result
<1>11. PICK results : results = Report(index, result)
  OBVIOUS
<1>12. /\ RunOn /\ run'.queue = run.queue /\ run'.results = results
  BY <1>1, <1>2, <1>11 DEF RunOn, RunFields
<1>13. index \notin Group => run'.results[index] = result
  BY <1>11, <1>12 DEF Report, Group
<1>14. Group' = Group \cup {index}
       /\ \A k \in Group' : (k \in Group /\ run'.results[k] = run.results[k]) \/ (k = index /\ run'.results[k] = result)
  BY <1>11, <1>12 DEF Report, Group
<1>15. /\ job' \in [Slots -> Jobs] /\ job'[i].pc = "idle"
       /\ \A j \in Slots : j # i => job'[j] = job[j]
       /\ job[i].clone => box' = box
       /\ ~job[i].clone => box' = [box EXCEPT !.tree = restored] /\ box'.tree = restored
  <2>1. CASE job[i].clone
    <3> DEFINE there == [NoJob EXCEPT !.tree = restored]
    <3>1. job' = [job EXCEPT ![i] = there] /\ box' = box
      BY <1>1, <2>1 DEF SetTree
    <3>2. there \in Jobs /\ there.pc = "idle"
      BY <1>9, BoxTypes DEF Jobs
    <3> HIDE DEF there
    <3> QED BY <1>2, <2>1, <3>1, <3>2
  <2>2. CASE ~job[i].clone
    <3>1. job' = [job EXCEPT ![i] = NoJob] /\ box' = [box EXCEPT !.tree = restored]
      BY <1>1, <2>2 DEF SetTree
    <3>2. box'.tree = restored
      BY <3>1 DEF IInv, TypeInv, WorldOK
    <3> QED BY <1>2, <2>2, <3>1, <3>2, BoxTypes
  <2> QED BY <2>1, <2>2
<1>16. /\ ~Busy(i)' /\ \A j \in Slots : j # i => (Busy(j)' <=> Busy(j)) /\ (Direct(j)' <=> Direct(j))
  BY <1>15 DEF Busy, Direct
<1>17. \A j \in Slots : ~Direct(j)'
  <2>1. ASSUME NEW j \in Slots, Direct(j)' PROVE FALSE
    <3>1. j # i /\ Direct(j)
      BY <1>16, <2>1 DEF Direct
    <3>2. j = 1 /\ ~Busy(2)
      BY <3>1, JobParts
    <3>3. i = 2
      BY <3>1, <3>2 DEF Slots
    <3> QED BY <1>3, <3>2, <3>3
  <2> QED BY <2>1
<1>18. Direct(i) => i = 1 /\ run.queue = {} /\ Group = {} /\ index = run.next /\ \A j \in Slots : j # i => ~Busy(j)
  BY JobParts DEF Slots
<1>19. mutating => Direct(i) /\ index = 1 /\ Group = {} /\ Group' = {1} /\ run'.results[1] = result
  <2>1. mutating => Direct(i) /\ run.next = 1
    BY <1>3, <1>10, JobParts
  <2> QED BY <1>13, <1>14, <1>18, <2>1
<1>20. Taken' = Taken
  <2> DEFINE running == {job[j].index : j \in {k \in Slots : Busy(k)}}
             runs == {job'[j].index : j \in {k \in Slots : Busy(k)'}}
  <2>1. running = runs \cup {index}
    BY <1>3, <1>15, <1>16
  <2> HIDE DEF runs, running
  <2>2. Taken = Group \cup run.queue \cup running /\ Taken' = Group' \cup run'.queue \cup runs
    BY DEF Taken, runs, running
  <2> QED BY <1>12, <1>14, <2>1, <2>2
<1>21. JobInv'
  <2>1. (run.pc \notin CommandStages => Taken = {} /\ \A j \in Slots : ~Busy(j))'
    BY <1>3, <1>12 DEF RunOn
  <2>2. (\A j \in Slots : Direct(j) =>
           j = 1 /\ ~Busy(2) /\ run.queue = {} /\ Group = {} /\ job[1].index = run.next)'
    BY <1>17
  <2>3. (Mutating(run.pc) => run.next = 1 /\ run.queue = {} /\ Group \subseteq {1}
                             /\ \A j \in Slots : Busy(j) => Direct(j))'
    <3> SUFFICES ASSUME mutating
                 PROVE  run'.next = 1 /\ run'.queue = {} /\ Group' \subseteq {1} /\ \A j \in Slots : ~Busy(j)'
      BY <1>10, <1>12 DEF RunOn, Mutating
    <3>1. run.next = 1 /\ run.queue = {}
      BY <1>10, JobParts
    <3> QED BY <1>12, <1>16, <1>18, <1>19, <3>1 DEF RunOn
  <2>4. (Taken # {} => \E last \in DOMAIN CommandsOf(run.pc) : Taken = run.next..last)'
    BY <1>12, <1>20, JobParts, CommandsSame DEF RunOn
  <2> QED BY <2>1, <2>2, <2>3, <2>4 DEF JobInv
<1>22. Settled' = box'.tree
  BY <1>17 DEF Settled, Slots
<1>23. Direct(i) => Settled = before /\ box'.tree = restored
  BY <1>15, <1>18 DEF Settled, Direct
<1>24. ~Direct(i) => Settled = box.tree /\ box' = box
  <2>1. ASSUME ~Direct(i) PROVE ~Direct(1)
    <3>1. ASSUME Direct(1) PROVE FALSE
      <4>1. ~Busy(2) /\ i # 1
        BY <2>1, <3>1, JobParts DEF Slots
      <4> QED BY <1>3, <4>1 DEF Slots
    <3> QED BY <3>1
  <2> QED BY <1>3, <1>15, <2>1 DEF Settled, Direct
<1>25. FormatInv'
  <2>1. CASE run.pc = "format"
    <3>1. mutating /\ DOMAIN run.delta = {} /\ Over(run.delta, before)
      BY <1>10, <1>18, <1>19, <1>23, <2>1 DEF Mutating, IInv, FormatInv, LoadInv
    <3>2. status = "passed" => Over(written, restored)
      <4> SUFFICES ASSUME status = "passed", NEW p \in Paths
                   PROVE  restored[p] = IF p \in DOMAIN written THEN written[p] ELSE Base(p)
        BY DEF Over
      <4>1. restored = tree /\ DOMAIN written = delta /\ before[p] = Base(p)
        BY <1>6, <1>7, <1>9, <3>1 DEF Over
      <4> QED BY <1>4, <1>6, <1>7, <4>1
    <3> QED BY <1>8, <1>12, <1>19, <1>23, <2>1, <3>1, <3>2, CommandsSame DEF FormatInv, RunOn
  <2>2. CASE run.pc = "idempotency"
    <3>1. mutating /\ Over(run.delta, before) /\ \A k \in DOMAIN run.stages : run.stages[k].stage = "format"
      BY <1>10, <1>18, <1>19, <1>23, <2>2 DEF Mutating, IInv, FormatInv
    <3>2. ~Nondeterministic(result) => Over(run.delta, restored)
      <4>1. ~Nondeterministic(result) => status = "passed" /\ DOMAIN written = {}
        BY <1>8 DEF Nondeterministic
      <4> QED BY <1>4, <1>6, <1>7, <1>9, <3>1, <4>1
    <3> QED BY <1>12, <1>19, <1>23, <2>2, <3>1, <3>2, CommandsSame DEF FormatInv, RunOn, Nondeterministic
  <2>3. CASE run.pc \notin {"format", "idempotency"}
    BY <1>12, <2>3 DEF FormatInv, RunOn
  <2> QED BY <2>1, <2>2, <2>3
<1>26. JudgeInv'
  <2> SUFFICES ASSUME run.pc \in Judging
               PROVE  /\ Over(run.delta, Settled')
                      /\ \A k \in DOMAIN run.stages : run.stages[k].stage # "format" => Speaks(run.stages[k], Settled')
                      /\ \A k \in Group' : Speaks(run'.results[k], Settled')
                      /\ \A j \in Slots : Busy(j)' => job'[j].before = Settled'
    BY <1>12, CommandsSame DEF JudgeInv, RunOn, Speaks
  <2>1. /\ Over(run.delta, Settled)
        /\ \A k \in DOMAIN run.stages : run.stages[k].stage # "format" => Speaks(run.stages[k], Settled)
        /\ \A k \in Group : Speaks(run.results[k], Settled)
        /\ \A j \in Slots : Busy(j) => job[j].before = Settled
    BY DEF IInv, JudgeInv
  <2>2. ~mutating
    BY <1>10 DEF Mutating, Judging
  <2>3. Settled' = Settled
    BY <1>9, <1>22, <1>23, <1>24, <2>2
  <2>4. Speaks(result, Settled)
    BY <1>3, <1>8, <2>1 DEF Speaks
  <2>5. \A k \in Group' : Speaks(run'.results[k], Settled)
    BY <1>14, <2>1, <2>4
  <2>6. \A j \in Slots : Busy(j)' => job'[j].before = Settled
    BY <1>15, <1>16, <2>1
  <2> QED BY <2>1, <2>3, <2>5, <2>6
<1>27. LiveScratchStays'
  <2>1. \A j \in Slots : Env(j)' = Env(j) /\ Clone(j)' = Clone(j)
    BY <1>1 DEF Env, Clone, Owner
  <2>2. \A j \in Slots : j # i => Env(j) \notin {Env(i), Clone(i)} /\ Clone(j) \notin {Env(i), Clone(i)}
    BY DEF Env, Clone
  <2>3. [owner |-> [pid |-> Peer, start |-> 1], name |-> <<"env", 0>>] \notin {Env(i), Clone(i)}
    BY DEF Env, Clone, Slots
  <2>4. ASSUME NEW j \in Slots, job'[j].pc \in {"running", "lingering", "reaped"}
        PROVE  Env(j) \in scratch' /\ (job'[j].clone => Clone(j) \in scratch')
    <3>1. j # i /\ job'[j] = job[j]
      BY <1>15, <2>4
    <3>2. Env(j) \in scratch /\ (job[j].clone => Clone(j) \in scratch)
      BY <2>4, <3>1 DEF IInv, ScratchInv, LiveScratchStays
    <3> QED BY <1>1, <2>2, <3>1, <3>2
  <2>5. (proc[Peer] = 1)' => proc[Peer] = 1
    BY <1>1
  <2>6. proc[Peer] = 1 => [owner |-> [pid |-> Peer, start |-> 1], name |-> <<"env", 0>>] \in scratch'
    BY <1>1, <2>3 DEF IInv, ScratchInv, LiveScratchStays
  <2> QED BY <2>1, <2>4, <2>5, <2>6 DEF LiveScratchStays
<1>28. BoxSteps
  BY <1>9, <1>15 DEF BoxSteps
<1>29. Group' \subseteq Nat /\ run'.queue \subseteq Nat /\ \A k \in Group' : DOMAIN run'.results[k].delta \subseteq Paths
  BY <1>2, <1>3, <1>7, <1>8, <1>12, <1>14
<1> QED BY <1>1, <1>3, <1>12, <1>15, <1>21, <1>25, <1>26, <1>27, <1>28, <1>29, CommandKeeps

-----------------------------------------------------------------------------
(* The invariant, and what it shows. *)

LEMMA InitInv == Init => IInv
<1> SUFFICES ASSUME Init PROVE IInv
  OBVIOUS
<1>1. /\ disk = Fresh /\ past = {} /\ box = NoBox /\ litter = {} /\ run = NoRun /\ job = [i \in Slots |-> NoJob]
      /\ self = Min(Pids) /\ proc = [n \in Pids |-> IF n \in {self, Peer} THEN 1 ELSE 0] /\ spent = 0
      /\ scratch = {[owner |-> [pid |-> Peer, start |-> 1], name |-> <<"env", 0>>]}
  BY DEF Init
<1>2. \A i \in Slots : ~Busy(i) /\ job[i].pc = "idle"
  BY <1>1, BoxTypes DEF Busy
<1> DEFINE none == [p \in Paths |-> NoEntry]
           empty == <<>>
<1>3. /\ DOMAIN run = RunFields /\ run.pc = "idle" /\ run.left = {} /\ run.cancelled = FALSE
      /\ run.manifest = none /\ run.plan = empty /\ run.next = 1 /\ run.stages = empty /\ run.delta = empty
      /\ run.queue = {} /\ run.results = empty /\ run.original = NoTree
  BY <1>1 DEF NoRun, RunFields
<1>4. IsList(empty) /\ DOMAIN empty = {}
  BY NoneIsList
<1>5. none \in [Paths -> Entries] /\ Fresh \in [Paths -> Entries]
  BY DEF NoEntry, Entries, Contents, Fresh
<1> HIDE DEF none, empty
<1>6. run.pc \in RunPcs /\ run.pc \notin Piped /\ Group = {}
  BY <1>3, <1>4 DEF RunPcs, Piped, Stages, Group
<1>7. run.next \in Nat \ {0}
  BY <1>3
<1>8. RunOK
  BY <1>3, <1>4, <1>5, <1>6, <1>7, BoxTypes DEF RunOK
<1>9. proc \in [Pids -> Nat] /\ self \in Pids /\ self # 0
  BY <1>1, PidFacts
<1>10. job \in [Slots -> Jobs]
  BY <1>1, BoxTypes
<1>11. WorldOK
  BY <1>1, <1>5, <1>9, <1>10, BoxTypes DEF WorldOK
<1>12. BoxInv /\ LitterInv /\ SourceInv
  BY <1>1, <1>3, <1>9 DEF BoxInv, LitterInv, SourceInv, Reading, Piped, Stages
<1>13. JobInv
  BY <1>2, <1>3, <1>6 DEF JobInv, Taken, Direct, CommandStages, Mutating
<1>14. ScratchInv
  BY <1>1, <1>2, <1>9 DEF ScratchInv, LiveScratchStays
<1>15. LoadInv /\ FormatInv /\ JudgeInv /\ OfferInv
  BY <1>3 DEF LoadInv, FormatInv, JudgeInv, OfferInv, Reading, Stages, Judging
<1> QED BY <1>8, <1>11, <1>12, <1>13, <1>14, <1>15 DEF IInv, TypeInv

LEMMA StutterInv ==
  ASSUME IInv, UNCHANGED vars
  PROVE  IInv'
BY TrustKeeps DEF vars, Quiet

LEMMA StepInv == IInv /\ [Next]_vars => IInv'
<1> SUFFICES ASSUME IInv, [Next]_vars PROVE IInv'
  OBVIOUS
<1>1. CASE SandboxNext
  <2>1. CASE \E plan \in Plans, explicit \in BOOLEAN : Begin(plan, explicit)
    BY <2>1, KeepsBegin
  <2>2. CASE \E p \in Paths : inventorySandboxTree(p) \/ materializeEntry(p) \/ verifySandboxManifest(p)
    BY <2>2, KeepsInventory, KeepsMaterialize, KeepsVerify
  <2>3. CASE createStaging \/ markStaging \/ createOwnedRoot \/ ReflinkUnsupported \/ Copied
    BY <2>3, KeepsCreateStaging, KeepsMarkStaging, KeepsCreateOwnedRoot, KeepsReflinkUnsupported, KeepsCopied
  <2>4. CASE MaterializeFails \/ ApplyPrepared \/ StageFails \/ Cleanup
    BY <2>4, KeepsMaterializeFails, KeepsApplyPrepared, KeepsStageFails, KeepsCleanup
  <2>5. CASE \E p \in Paths, content \in {"none", "base", "edited", "link"} : OutsideWrite(p, content)
    BY <2>5, KeepsOutsideWrite DEF Contents
  <2>6. CASE Cancel \/ Killed \/ PeerExits \/ Age
    BY <2>6, KeepsCancel, KeepsKilled, KeepsPeerExits, KeepsAge
  <2>7. CASE \E pid \in Pids : Start(pid)
    BY <2>7, KeepsStart
  <2> QED BY <1>1, <2>1, <2>2, <2>3, <2>4, <2>5, <2>6, <2>7 DEF SandboxNext
<1>2. CASE VerificationNext
  <2>1. CASE \E project \in Projects : transformStaged(project)
    BY <2>1, KeepsTransformStaged
  <2>2. CASE \E root \in TrustRoots : TrustRoot(root) \/ UntrustRoot(root)
    BY <2>2, KeepsTrust
  <2>3. CASE SkipStage \/ commandStage \/ runIsolatedCommandBatch \/ EndGroup \/ CommandCannotStart
    BY <2>3, KeepsSkipStage, KeepsCommandStage, KeepsRunIsolatedCommandBatch, KeepsEndGroup,
       KeepsCommandCannotStart
  <2>4. CASE \E i \in Slots : WorkerTakes(i) \/ killDescendants(i) \/ FinishCommand(i)
    BY <2>4, KeepsWorkerTakes, KeepsKillDescendants, KeepsFinishCommand
  <2>5. CASE \E i \in Slots, exit \in {"ok", "failed", "timed_out", "stopped"} : CommandExits(i, exit)
    BY <2>5, KeepsCommandExits
  <2>6. CASE \E i \in Slots, p \in Paths, content \in ToolWrites : CommandWrites(i, p, content)
    BY <2>6, KeepsCommandWrites
  <2>7. CASE parser \/ Collect
    BY <2>7, KeepsParser, KeepsCollect
  <2>8. CASE \E works \in BOOLEAN : recordStagedDiagnostics(works)
    BY <2>8, KeepsRecordStagedDiagnostics
  <2> QED BY <1>2, <2>1, <2>2, <2>3, <2>4, <2>5, <2>6, <2>7, <2>8 DEF VerificationNext
<1>3. CASE UNCHANGED vars
  BY <1>3, StutterInv
<1> QED BY <1>1, <1>2, <1>3 DEF Next

LEMMA Invariance == Spec => []IInv
<1>1. Init => IInv
  BY InitInv
<1>2. IInv /\ [Next]_vars => IInv'
  BY StepInv
<1> QED BY <1>1, <1>2, PTL DEF Spec

(* However the source is written while it is read and copied, a sealed sandbox holds a tree the
   workspace had (verifySandboxManifest). *)
THEOREM SealedSnapshot == Spec => []SealedIsSnapshot
<1>1. IInv => SealedIsSnapshot
  <2> SUFFICES ASSUME IInv, box.marker = "sealed" PROVE box.tree \in past
    BY DEF SealedIsSnapshot
  <2>1. run.pc \in RunPcs
    BY DEF IInv, TypeInv, RunOK
  <2>2. run.pc = "sealed"
    BY <2>1, BoxTypes DEF IInv, BoxInv, BoxIs, NothingYet, RunPcs, Reading, Piped, Stages
  <2> QED BY <2>2 DEF IInv, SourceInv
<1> QED BY <1>1, Invariance, PTL

(* What is offered to apply is what every stage that passed judged, whatever commands write and
   leave behind (transform, commandStage, auditToolDelta). *)
THEOREM OfferedIsVerified == Spec => []PreparedIsVerified
<1>1. IInv => PreparedIsVerified
  BY DEF IInv, OfferInv, Offered, Speaks, PreparedIsVerified
<1> QED BY <1>1, Invariance, PTL

(* No sweep removes the scratch directory of a command that runs, here or in the other process
   (processOwnerAlive). *)
THEOREM ScratchStays == Spec => []LiveScratchStays
<1>1. IInv => LiveScratchStays
  BY DEF IInv, ScratchInv
<1> QED BY <1>1, Invariance, PTL

(* Only a start brings the service back. *)
LEMMA OnlyStart ==
  ASSUME Next, self = 0, self' # 0
  PROVE  \E pid \in Pids : Start(pid)
<1>1. ASSUME SandboxNext PROVE \E pid \in Pids : Start(pid)
  BY <1>1 DEF SandboxNext, Begin, inventorySandboxTree, materializeEntry, verifySandboxManifest, createStaging,
     markStaging, createOwnedRoot, ReflinkUnsupported, Copied, MaterializeFails, ApplyPrepared, StageFails, Cleanup,
     OutsideWrite, Cancel, Killed, PeerExits, Age, World, At
<1>2. ASSUME VerificationNext PROVE FALSE
  BY <1>2 DEF VerificationNext, transformStaged, TrustRoot, UntrustRoot, SkipStage, commandStage,
     runIsolatedCommandBatch, EndGroup, CommandCannotStart, WorkerTakes, killDescendants, FinishCommand,
     CommandExits, CommandWrites, parser, Collect, recordStagedDiagnostics, World, At
<1> QED BY <1>1, <1>2 DEF Next

(* A start leaves nothing of the processes that were killed: what they left is marked, or young
   (ReapSandboxes, sweepScratchOwners). *)
THEOREM StartReaps == Spec => LeftoversReaped
<1> DEFINE Reaps == self = 0 /\ self' # 0 =>
                      /\ \A d \in litter' : d.name = "staging" /\ d.young
                      /\ spent' = spent => \A x \in scratch' : proc'[x.owner.pid] = x.owner.start
<1>1. IInv /\ [Next]_vars => [Reaps]_vars
  <2> SUFFICES ASSUME IInv, Next, self = 0, self' # 0
               PROVE  /\ \A d \in litter' : d.name = "staging" /\ d.young
                      /\ spent' = spent => \A x \in scratch' : proc'[x.owner.pid] = x.owner.start
    BY DEF vars
  <2>1. PICK pid \in Pids : Start(pid)
    BY OnlyStart
  <2>2. ASSUME NEW d \in litter' PROVE d.name = "staging" /\ d.young
    <3>1. d \in litter /\ ~Reapable(d)
      BY <2>1 DEF Start, ReapSandboxes
    <3>2. d.name \in {"staging", "sandbox"} /\ (d.name = "sandbox" => d.marked)
      BY <3>1 DEF IInv, TypeInv, WorldOK, LitterInv
    <3> QED BY <3>1, <3>2 DEF Reapable
  <2>3. ASSUME spent' = spent, NEW x \in scratch' PROVE proc'[x.owner.pid] = x.owner.start
    <3>1. PICK stuck \in SUBSET {y \in scratch : ~processOwnerAlive(y.owner)} :
            /\ IF stuck = {} THEN Quiet ELSE Event
            /\ scratch' = {y \in scratch : processOwnerAlive(y.owner)} \cup stuck
      BY <2>1 DEF Start, sweepScratchOwners
    <3>2. stuck = {}
      <4>1. spent \in Nat
        BY DEF IInv, TypeInv, WorldOK
      <4> QED BY <2>3, <3>1, <4>1 DEF Event
    <3> QED BY <2>3, <3>1, <3>2 DEF processOwnerAlive
  <2> QED BY <2>2, <2>3
<1> QED BY <1>1, Invariance, PTL DEF Spec, LeftoversReaped
=============================================================================
