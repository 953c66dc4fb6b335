------------------------------- MODULE Sandbox -------------------------------
(***************************************************************************)
(* The sandbox a change plan is prepared in                                *)
(* (internal/workspace/sandbox.go), the scratch directories its commands   *)
(* run in (scratch.go) and what a start of the service clears away of both *)
(* (service/dispatch.go loadState).                                        *)
(*                                                                         *)
(* The canonical tree is inventoried, copied and inventoried again one     *)
(* file at a time while others write it; the service may be killed between *)
(* any two steps and a process identifier may be used again.               *)
(*                                                                         *)
(* A file's content is one of a few: "broken" does not parse, "odd" is a   *)
(* change no formatter may make (another kind of object, a literal or a    *)
(* comment), "huge" exceeds the snapshot quota, "link" is a symbolic link  *)
(* that leads into the canonical tree.                                     *)
(***************************************************************************)
EXTENDS Integers, FiniteSetsExt, SequencesExt

CONSTANTS
  Paths,
  Plans,         \* what plans make of the files they name
  Pids,
  MaxEvents      \* outside writes, failures, cancellations, kills

Contents == {"none", "base", "edited", "nice", "odd", "broken", "huge", "link"}

ASSUME PlansAssumption == \A plan \in Plans : DOMAIN plan \subseteq Paths /\ Range(plan) \subseteq Contents
ASSUME PidsAssumption ==
  /\ \E low, top \in Pids : low < top /\ Pids \subseteq low..top
  /\ Pids \subseteq Nat \ {0} /\ MaxEvents \in Nat

VARIABLES
  disk,      \* the canonical tree: content and modification stamp
  past,      \* history: its contents since the inventory began
  box,       \* the sandbox directory of the preparation
  litter,    \* sandbox directories a killed process left
  run,       \* the preparation: SandboxStager.Stage, with its pipelineRun
  job,       \* the commands of the group that is running
  scratch,   \* scratch directories, each with its owner's pid and start time
  proc,      \* the start time of the process that has a pid, 0 for none
  self,      \* the service's pid, 0 while it is down
  roots,     \* the user policy's [trust].roots
  spent

vars == <<disk, past, box, litter, run, job, scratch, proc, self, roots, spent>>

Event == spent < MaxEvents /\ spent' = spent + 1
Quiet == UNCHANGED spent
World == <<litter, scratch, proc, self, roots>>

NoTree == [p \in Paths |-> "none"]
NoBox == [name |-> "none", marker |-> "none", tree |-> NoTree]
NoEntry == [content |-> "none", stamp |-> 0]
Slots == 1..2
NoJob == [pc |-> "idle", index |-> 0, clone |-> FALSE, before |-> NoTree, tree |-> NoTree, wrote |-> FALSE,
          exit |-> "none"]
NoPolicy == [trusted |-> FALSE]
NoRun == [pc |-> "idle", left |-> {}, backend |-> "none", manifest |-> [p \in Paths |-> NoEntry], plan |-> <<>>,
          explicit |-> FALSE, policy |-> NoPolicy, original |-> NoTree, next |-> 1, stages |-> <<>>, delta |-> <<>>,
          queue |-> {}, results |-> <<>>, files |-> <<>>, claims |-> <<>>, cancelled |-> FALSE]

(* Nothing reads the canonical tree between the seal and the next inventory; *)
(* it may change at will, and its contents are named afresh.               *)
Fresh == [p \in Paths |-> [content |-> "base", stamp |-> 0]]
SourceNoLongerRead == disk' = Fresh /\ past' = {}
Afresh(content) == IF content = "none" THEN "none" ELSE "base"

At(pc) == self # 0 /\ run.pc = pc

(* comparableSandboxEntry: an entry without device, inode and time. *)
ContentOf(d) == [p \in Paths |-> d[p].content]

(* This process, the owner a scratch directory is named for. *)
Owner == [pid |-> self, start |-> proc[self]]
Peer == Max(Pids)

Init ==
  /\ disk = Fresh
  /\ past = {} /\ box = NoBox /\ litter = {} /\ run = NoRun
  /\ job = [i \in Slots |-> NoJob]
  /\ self = Min(Pids)
  /\ proc = [n \in Pids |-> IF n \in {self, Peer} THEN 1 ELSE 0]
  /\ scratch = {[owner |-> [pid |-> Peer, start |-> 1], name |-> <<"env", 0>>]}
  /\ roots = <<>> /\ spent = 0

-----------------------------------------------------------------------------
(* MaterializeSandbox. *)

Begin(plan, explicit) ==
  /\ At("idle")
  /\ past' = {ContentOf(disk)}
  /\ run' = [NoRun EXCEPT !.pc = "inventory", !.left = Paths, !.plan = plan, !.explicit = explicit]
  /\ UNCHANGED <<disk, box, job, World>> /\ Quiet

(* stableFileHash reads one file whole or fails, so an entry is one reading. *)
inventorySandboxTree(p) ==
  /\ At("inventory") /\ ~run.cancelled /\ p \in run.left
  /\ run' = [run EXCEPT !.left = @ \ {p}, !.manifest[p] = disk[p],
                        !.pc = IF run.left = {p} THEN "create" ELSE @, !.backend = "reflink"]
  /\ UNCHANGED <<disk, past, box, job, World>> /\ Quiet

NamedFirst ==
  /\ At("create") /\ ~run.cancelled
  /\ box' = [NoBox EXCEPT !.name = "sandbox"]
  /\ run' = [run EXCEPT !.pc = "mark"]
  /\ UNCHANGED <<disk, past, job, World>> /\ Quiet

(* createOwnedRoot: the directory, its marker, and only then its name. *)
createStaging ==
  /\ At("create") /\ ~run.cancelled
  /\ box' = [NoBox EXCEPT !.name = "staging"]
  /\ run' = [run EXCEPT !.pc = "mark"]
  /\ UNCHANGED <<disk, past, job, World>> /\ Quiet

writeMarker(state) == box' = [box EXCEPT !.marker = state]

markStaging ==
  /\ At("mark")
  /\ writeMarker("materializing")
  /\ run' = [run EXCEPT !.pc = "name"]
  /\ UNCHANGED <<disk, past, job, World>> /\ Quiet

createOwnedRoot ==
  /\ At("name")
  /\ box' = [box EXCEPT !.name = "sandbox"]
  /\ run' = [run EXCEPT !.pc = "copy", !.left = {p \in Paths : run.manifest[p].content # "none"}]
  /\ UNCHANGED <<disk, past, job, World>> /\ Quiet

(* The deferred removal of materializeCandidate, and Cleanup. *)
Removed == box' = NoBox

(* Stage returns an error; the preparation is over and Release cleans up. *)
Fails == run' = [NoRun EXCEPT !.pc = "failed"] /\ SourceNoLongerRead

(* A command behind such a link could write the canonical tree unseen. *)
refuseSymlinkIntoCanonical(content) == content = "link"

(* The bytes of the file as it is now; it may be gone. *)
copySandboxFile(p) == disk[p].content

materializeEntry(p) ==
  /\ At("copy") /\ ~run.cancelled /\ p \in run.left
  /\ IF copySandboxFile(p) # "none" /\ ~refuseSymlinkIntoCanonical(run.manifest[p].content)
     THEN /\ box' = [box EXCEPT !.tree[p] = copySandboxFile(p)]
          /\ run' = [run EXCEPT !.left = @ \ {p}]
          /\ UNCHANGED <<disk, past>>
     ELSE Removed /\ Fails
  /\ UNCHANGED <<job, World>> /\ Quiet

(* ErrReflinkUnsupported: the candidate is removed and made again by copying. *)
ReflinkUnsupported ==
  /\ At("copy") /\ run.backend = "reflink" /\ run.left # {}
  /\ Event
  /\ Removed
  /\ run' = [run EXCEPT !.pc = "create", !.backend = "safe_copy"]
  /\ UNCHANGED <<disk, past, job, World>>

Copied ==
  /\ At("copy") /\ run.left = {}
  /\ run' = [run EXCEPT !.pc = "verify", !.left = Paths]
  /\ UNCHANGED <<disk, past, box, job, World>> /\ Quiet

(* What the second inventory of the source finds of one path. *)
SourceUnchanged(p) == disk[p] = run.manifest[p]

(* verifySandboxManifest compares the source again, entry by entry, and     *)
(* then the copy, whose device, inode and time differ.                     *)
equalSandboxContent(tree) == tree = ContentOf(run.manifest)

SealUnverified(p) ==
  /\ At("verify") /\ p \in run.left
  /\ writeMarker("sealed") /\ run' = [run EXCEPT !.pc = "sealed", !.left = {}]
  /\ UNCHANGED <<disk, past, job, World>> /\ Quiet

verifySandboxManifest(p) ==
  /\ At("verify") /\ ~run.cancelled /\ p \in run.left
  /\ IF SourceUnchanged(p) /\ (run.left = {p} => equalSandboxContent(box.tree))
     THEN /\ IF run.left = {p}
             THEN writeMarker("sealed") /\ run' = [run EXCEPT !.pc = "sealed", !.left = {}]
             ELSE run' = [run EXCEPT !.left = @ \ {p}] /\ UNCHANGED box
          /\ UNCHANGED <<disk, past>>
     ELSE Removed /\ Fails
  /\ UNCHANGED <<job, World>> /\ Quiet

(* A quota, a special file, a link into the canonical root, the wall time   *)
(* or a cancelled call ends materialisation.                               *)
MaterializeFails ==
  /\ self # 0 /\ run.pc \in {"inventory", "create", "mark", "name", "copy", "verify"}
  /\ IF run.cancelled THEN Quiet ELSE Event
  /\ Removed /\ Fails
  /\ UNCHANGED <<job, World>>

-----------------------------------------------------------------------------
(* stageIntoSandbox after materialisation: the disposable provider          *)
(* transaction, and ApplyPrepared, which writes each file and reads it      *)
(* back.                                                                   *)
ApplyPrepared ==
  /\ At("sealed")
  /\ box' = [box EXCEPT !.tree = [p \in Paths |-> IF p \in DOMAIN run.plan THEN run.plan[p] ELSE Afresh(@[p])],
                        !.marker = "prepared"]
  /\ run' = [run EXCEPT !.pc = "load", !.files = run.plan, !.backend = "none",
                        !.manifest = [p \in Paths |-> [content |-> Afresh(@[p].content), stamp |-> 0]]]
  /\ SourceNoLongerRead
  /\ UNCHANGED <<job, World>> /\ Quiet

StageFails ==
  /\ At("sealed")
  /\ IF run.cancelled THEN Quiet ELSE Event
  /\ Removed /\ Fails
  /\ UNCHANGED <<job, World>>

(* Cleanup of the sandbox when the plan is applied, discarded or failed: it *)
(* removes only a directory whose marker names the plan.                   *)
validateSandboxRoot(d) == d.name = "sandbox" /\ d.marker # "none"

Cleanup ==
  /\ self # 0 /\ run.pc \in {"prepared", "failed"}
  /\ IF box.name = "none" THEN UNCHANGED box ELSE validateSandboxRoot(box) /\ Removed
  /\ run' = NoRun
  /\ UNCHANGED <<disk, past, job, World>> /\ Quiet

-----------------------------------------------------------------------------
(* Others: writers of the canonical tree, a caller that gives up, kills.    *)
OutsideWrite(p, content) ==
  /\ past # {}       \* at other times nothing here reads the canonical tree
  /\ Event
  /\ disk' = [disk EXCEPT ![p] = [content |-> content, stamp |-> @.stamp + 1]]
  /\ past' = past \cup {ContentOf(disk')}
  /\ UNCHANGED <<box, run, job, World>>

Cancel ==
  /\ self # 0 /\ run.pc \notin {"idle", "prepared", "failed"} /\ ~run.cancelled
  /\ Event
  /\ run' = [run EXCEPT !.cancelled = TRUE]
  /\ UNCHANGED <<disk, past, box, job, World>>

(* SIGKILL: no deferred removal runs; the guards see the owner's pipe close *)
(* and kill the commands.                                                  *)
Killed ==
  /\ self # 0
  /\ Event
  /\ litter' = litter \cup {[name |-> d.name, marked |-> d.marker # "none", young |-> TRUE] : d \in {box} \ {NoBox}}
  /\ box' = NoBox /\ run' = NoRun /\ SourceNoLongerRead
  /\ job' = [i \in Slots |-> NoJob]
  /\ proc' = [proc EXCEPT ![self] = 0]
  /\ self' = 0
  /\ UNCHANGED <<scratch, roots>>

PeerExits ==
  /\ proc[Peer] = 1 /\ self # Peer
  /\ Event
  /\ proc' = [proc EXCEPT ![Peer] = 0]
  /\ UNCHANGED <<disk, past, box, litter, run, job, scratch, self, roots>>

(* An hour passes: sandboxStagingMaxAge. *)
Age ==
  /\ \E d \in litter : d.young
  /\ Event
  /\ litter' = {[d EXCEPT !.young = FALSE] : d \in litter}
  /\ UNCHANGED <<disk, past, box, run, job, scratch, proc, self, roots>>

-----------------------------------------------------------------------------
(* The start of the service: SweepCommandScratch and ReapSandboxes.         *)

AliveIfOurs(owner) == owner.pid = self'

(* The pid runs and its start time is the one in the directory's name. *)
processOwnerAlive(owner) == proc'[owner.pid] = owner.start

(* A directory that cannot be removed does not stop the sweep. *)
sweepScratchOwners ==
  \E stuck \in SUBSET {x \in scratch : ~processOwnerAlive(x.owner)} :
     /\ IF stuck = {} THEN Quiet ELSE Event
     /\ scratch' = {x \in scratch : processOwnerAlive(x.owner)} \cup stuck

(* Referenced plans: none at a start. *)
Reapable(d) == IF d.name = "staging" THEN ~d.young ELSE d.marked
ReapSandboxes == litter' = {d \in litter : ~Reapable(d)}

(* A start follows a kill, so the count of events tells one from another. *)
LaterStart == 1 + spent

Start(pid) ==
  /\ self = 0 /\ proc[pid] = 0
  /\ self' = pid
  /\ proc' = [proc EXCEPT ![pid] = LaterStart]
  /\ sweepScratchOwners
  /\ ReapSandboxes
  /\ UNCHANGED <<disk, past, box, run, job, roots>>

SandboxNext ==
  \/ \E plan \in Plans, explicit \in BOOLEAN : Begin(plan, explicit)
  \/ \E p \in Paths : inventorySandboxTree(p) \/ materializeEntry(p) \/ verifySandboxManifest(p)
  \/ createStaging \/ markStaging \/ createOwnedRoot \/ ReflinkUnsupported \/ Copied
  \/ MaterializeFails \/ ApplyPrepared \/ StageFails \/ Cleanup
  \/ \E p \in Paths, content \in {"none", "base", "edited", "link"} : OutsideWrite(p, content)
  \/ Cancel \/ Killed \/ PeerExits \/ Age
  \/ \E pid \in Pids : Start(pid)
=============================================================================
