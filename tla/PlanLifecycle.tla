--------------------------- MODULE PlanLifecycle ---------------------------
(***************************************************************************)
(* The life of one change plan: its record in memory and on disk           *)
(* (internal/workspace/plan.go, prepare.go, plan_expiry.go), the prepare   *)
(* lease, the sandbox stagers of the provider pool                         *)
(* (internal/providerpool/stagers.go, stager_expiry.go) and the change_plan*)
(* handlers that drive them (internal/handlers/plan.go).                   *)
(*                                                                         *)
(* Calls of change_plan prepare run in the sandbox lanes and overlap with  *)
(* each other; every other action runs in the one canonical lane.  The idle*)
(* sweep runs beside both.  One step is what the code does under one lock. *)
(* Plans share no state with each other but retention, so one is modelled. *)
(***************************************************************************)
EXTENDS Integers, FiniteSets

CONSTANTS
  Preparers,     \* the calls the sandbox lanes admit at a time
  Canonical,     \* the call in the canonical lane
  Stagers,       \* stager objects
  Variants,      \* what the tools of a sandbox make of the same staged bytes
  Plain,         \* the variant in which they change nothing
  Verdicts,      \* the states its verification can give the plan
  None,
  MaxRevision, MaxCanon,                             \* bounds of the model
  MaxFaults,
  Restarts, Sweeps     \* whether the service restarts, and whether the idle sweep runs

ASSUME CallersAssumption == Canonical \notin Preparers
ASSUME PlainAssumption == Plain \in Variants
ASSUME VerdictsAssumption == Verdicts \subseteq {"READY", "PROVISIONAL"}
ASSUME BoundsAssumption ==
  /\ MaxRevision \in Nat \ {0} /\ MaxCanon \in Nat \ {0}
  /\ MaxFaults \in Nat
  /\ {Restarts, Sweeps} \subseteq BOOLEAN

Callers == Preparers \cup {Canonical}
Revisions == 1..MaxRevision
Canons == 0..MaxCanon

VARIABLES
  mem,        \* the plan record in memory
  disk,       \* the plan record on disk
  lease,      \* whether activePlans holds the plan
  slot,       \* the pool's stager of the plan, or None
  stager,     \* the stager objects
  call,       \* the calls in flight
  reaper,     \* the idle sweep
  canon,      \* version of the canonical bytes the plan reads and writes
  persistFaults, releaseFaults,
  committed,  \* history: the bytes the last commit wrote
  leaked,     \* history: a failed rollback or reset kept the lease
  overtaken,  \* history: the sweep expired the plan beside a call of it
  displaced   \* history: a stager in use lost its place to one of another revision

bounds  == <<persistFaults, releaseFaults>>
history == <<committed, leaked, overtaken, displaced>>
vars == <<mem, disk, lease, slot, stager, call, reaper, canon, bounds, history>>

PlanStates == {"OPEN", "PREVIEWED", "PREPARING", "FAILED", "PROVISIONAL", "READY",
               "COMMITTING", "COMMITTED", "RECOVERY_REQUIRED", "ROLLING_BACK",
               "ROLLED_BACK", "DISCARDED", "CONFLICTED", "EXPIRED", "GONE"}
Prepared == {"READY", "PROVISIONAL"}
Terminal == {"COMMITTED", "ROLLED_BACK", "DISCARDED", "EXPIRED", "FAILED", "CONFLICTED"}

(* planTransitions.  GONE stands for a record retention removed. *)
PlanTransitions ==
  [s \in PlanStates |->
     CASE s \in {"OPEN", "PREVIEWED"} -> {"OPEN", "PREVIEWED", "PREPARING", "DISCARDED", "EXPIRED"}
       [] s = "PREPARING"    -> {"CONFLICTED", "FAILED", "PROVISIONAL", "READY"}
       [] s = "CONFLICTED"   -> {"OPEN", "PREPARING", "ROLLING_BACK", "DISCARDED"}
       [] s = "FAILED"       -> {"OPEN", "PREPARING", "ROLLING_BACK", "DISCARDED", "EXPIRED"}
       [] s \in Prepared     -> {"COMMITTING", "ROLLING_BACK", "FAILED", "CONFLICTED", "EXPIRED"}
       [] s = "COMMITTING"   -> {"COMMITTED", "RECOVERY_REQUIRED", "CONFLICTED", "FAILED"}
       [] s = "ROLLING_BACK" -> {"ROLLED_BACK", "FAILED", "OPEN"}
       [] s = "RECOVERY_REQUIRED" -> {"ROLLED_BACK", "COMMITTED"}
       [] s = "EXPIRED"      -> {"OPEN", "PREPARING", "DISCARDED"}
       [] OTHER -> {}]
CanTransition(from, to) == to \in PlanTransitions[from]

(* The prepared revision names the plan revision, the canonical bytes and what
   the tools made of them. *)
Tokens == [rev : Revisions, seen : Canons, variant : Variants]
Previews == [rev : Revisions, seen : Canons, ok : BOOLEAN]
ASSUME NoneAssumption == None \notin Stagers \cup Variants \cup Tokens \cup Previews
Records == [state : PlanStates, rev : Revisions, preview : Previews \cup {None},
            prep : Tokens \cup {None}, restored : BOOLEAN, compacted : BOOLEAN,
            fresh : BOOLEAN]

(* A SandboxStager: box is its sandbox field, made the request it prepared, and
   used how long ago a caller looked it up: within the release grace, within the
   idle limit, or longer. *)
StagerRecords == [rev : Revisions, box : BOOLEAN, made : Tokens \cup {None},
                  done : BOOLEAN, used : {"now", "recent", "old"}]
FreshStager(rev) == [rev |-> rev, box |-> FALSE, made |-> None, done |-> FALSE, used |-> "now"]

PreparePcs == {"lookup", "evict", "create", "lease", "preview", "save", "mark", "request",
               "stage", "staging", "record", "ready", "undo", "failed", "unlease"}
CanonicalPcs == {"edit", "discard", "rolling", "rollback", "rbfailed", "reset", "reopen",
                 "rolledback", "editable", "ended", "compare", "mismatch", "admit", "writeset",
                 "committing", "applying", "sealed", "recovery", "refuse", "finish"}
Calls == [pc : {"idle"} \cup PreparePcs \cup CanonicalPcs,
          op : {"prepare", "preview", "edit", "discard", "apply"},
          rev : Revisions, want : Revisions, st : Stagers \cup {None},
          tok : Tokens \cup {None}, seen : Canons, ok : BOOLEAN]
NoCall == [pc |-> "idle", op |-> "prepare", rev |-> 1, want |-> 1, st |-> None,
           tok |-> None, seen |-> 0, ok |-> FALSE]
Reapers == [pc : {"idle", "expire", "unlease", "drop", "dropping"},
            snap : Stagers \cup {None}, used : {"now", "recent", "old"}, expired : BOOLEAN]
NoReaper == [pc |-> "idle", snap |-> None, used |-> "old", expired |-> FALSE]

TypeOK ==
  /\ mem \in Records /\ disk \in Records
  /\ lease \in BOOLEAN
  /\ slot \in Stagers \cup {None}
  /\ stager \in [Stagers -> StagerRecords]
  /\ call \in [Callers -> Calls]
  /\ reaper \in Reapers
  /\ canon \in Canons
  /\ persistFaults \in Nat /\ releaseFaults \in Nat
  /\ committed \in {"none", "prepared", "other"}
  /\ leaked \in BOOLEAN /\ overtaken \in BOOLEAN /\ displaced \in BOOLEAN

(* CreatePlan: the record is written before the call returns. *)
NewPlan == [state |-> "OPEN", rev |-> 1, preview |-> None, prep |-> None,
            restored |-> FALSE, compacted |-> FALSE, fresh |-> TRUE]
Init ==
  /\ mem = NewPlan /\ disk = NewPlan
  /\ lease = FALSE /\ slot = None
  /\ stager = [s \in Stagers |-> FreshStager(1)]
  /\ call = [p \in Callers |-> NoCall]
  /\ reaper = NoReaper
  /\ canon = 0
  /\ persistFaults = 0 /\ releaseFaults = 0
  /\ committed = "none" /\ leaked = FALSE /\ overtaken = FALSE /\ displaced = FALSE

-----------------------------------------------------------------------------
(* Calls, plan records and stagers. *)

At(p, pc) == call[p].pc = pc
Goto(p, pc) == call' = [call EXCEPT ![p].pc = pc]
Return(p) == call' = [call EXCEPT ![p] = NoCall]
GotoOrReturn(p, pc) == IF pc = "idle" THEN Return(p) ELSE Goto(p, pc)
C == call[Canonical]

(* How a durable write ends: done, failed, or failed after it took effect (the
   directory sync, or the retention that follows a terminal state). *)
Ends == {"ok", "failed", "landed"}
Room == persistFaults + releaseFaults < MaxFaults
Persist(record, end) ==
  /\ end = "ok" \/ Room
  /\ persistFaults' = IF end = "ok" THEN persistFaults ELSE persistFaults + 1
  /\ disk' = IF end = "failed" THEN disk ELSE record

MayMove(rev, state) ==
  /\ mem.rev = rev
  /\ CanTransition(mem.state, state)
  /\ mem.compacted => state \in Terminal

(* transitionPlan: an error leaves the memory at the previous record.  The
   restart event counts until the next prepare or prepare_failed event. *)
Moved(p, state, prep) == [mem EXCEPT !.state = state, !.prep = prep, !.fresh = TRUE,
                            !.restored = @ /\ call[p].pc \notin {"ready", "failed"}]
TransitionPlan(p, rev, state, prep, end, good, bad) ==
  IF MayMove(rev, state)
  THEN /\ Persist(Moved(p, state, prep), end)
       /\ mem' = IF end = "ok" THEN Moved(p, state, prep) ELSE mem
       /\ GotoOrReturn(p, IF end = "ok" THEN good ELSE bad)
  ELSE /\ end = "ok" /\ UNCHANGED <<mem, disk, persistFaults>>
       /\ GotoOrReturn(p, bad)

Reusable(s, rev) == ~stager[s].done /\ stager[s].rev = rev
Touch(s) == stager' = [stager EXCEPT ![s].used = "now"]

(* opMu: held while a call stages through the stager. *)
Unlocked(s) == \A p \in Callers : ~(At(p, "staging") /\ call[p].st = s)

(* release closes the provider and removes the sandbox, at most once; it can
   only fail when it has something to give back. *)
Release(s, ok) ==
  /\ Unlocked(s)
  /\ ok \/ (stager[s].box /\ ~stager[s].done /\ Room)
  /\ releaseFaults' = IF ok THEN releaseFaults ELSE releaseFaults + 1
  /\ stager' = [stager EXCEPT ![s].done = @ \/ ok]

(* PreparedRequest: the fields survive a release. *)
Durable(s) == stager[s].box /\ stager[s].made # None

(* PlanStager without create. *)
Lookup(rev) ==
  IF slot = None THEN "gone"
  ELSE IF Reusable(slot, rev) THEN "found"
  ELSE IF stager[slot].done THEN "gone" ELSE "mismatch"

Referenced == {slot, reaper.snap} \cup {call[p].st : p \in Callers}
NewStager(s) == s \in Stagers \ Referenced

-----------------------------------------------------------------------------
(* planPrepare and PreparePlan.  A restart recovery by apply takes the same
   steps. *)

StartPrepare(p, rev) ==
  /\ p \in Preparers /\ At(p, "idle")
  /\ call' = [call EXCEPT ![p] = [NoCall EXCEPT !.pc = "lookup", !.rev = rev]]
  /\ UNCHANGED <<mem, disk, lease, slot, stager, reaper, canon, bounds, history>>

(* PlanStager with create: the stager of this revision, or the stale one to be
   given back first. *)
LookupStager(p) ==
  /\ At(p, "lookup")
  /\ CASE slot = None -> Goto(p, "create") /\ UNCHANGED stager
       [] slot # None /\ Reusable(slot, call[p].rev) ->
            call' = [call EXCEPT ![p].pc = "lease", ![p].st = slot] /\ Touch(slot)
       [] OTHER -> call' = [call EXCEPT ![p].pc = "evict", ![p].st = slot] /\ UNCHANGED stager
  /\ UNCHANGED <<mem, disk, lease, slot, reaper, canon, bounds, history>>

EvictStager(p, ok) ==
  /\ At(p, "evict")
  /\ Release(call[p].st, ok)
  /\ slot' = IF slot = call[p].st THEN None ELSE slot
  /\ call' = [call EXCEPT ![p].pc = "create", ![p].st = None]
  /\ UNCHANGED <<mem, disk, lease, reaper, canon, persistFaults, history>>

CreateStager(p, s) ==
  /\ At(p, "create")
  /\ IF slot # None /\ Reusable(slot, call[p].rev)
     THEN /\ Touch(slot) /\ UNCHANGED <<slot, displaced>>
          /\ call' = [call EXCEPT ![p].pc = "lease", ![p].st = slot]
     ELSE /\ NewStager(s) /\ slot' = s
          /\ stager' = [stager EXCEPT ![s] = FreshStager(call[p].rev)]
          /\ call' = [call EXCEPT ![p].pc = "lease", ![p].st = s]
          /\ displaced' = (displaced \/ (slot # None /\ ~stager[slot].done))
  /\ UNCHANGED <<mem, disk, lease, reaper, canon, bounds, committed, leaked, overtaken>>

(* Where a PreparePlan that found the plan prepared, or prepared it, goes on. *)
PreparedPc(p) == IF call[p].op = "apply" THEN "compare" ELSE "idle"

AcquirePrepareLease(p) ==
  /\ At(p, "lease")
  /\ IF lease
     THEN /\ GotoOrReturn(p, IF mem.rev = call[p].rev /\ mem.state \in Prepared
                             THEN PreparedPc(p) ELSE "idle")
          /\ UNCHANGED lease
     ELSE lease' = TRUE /\ Goto(p, "preview")
  /\ UNCHANGED <<mem, disk, slot, stager, reaper, canon, bounds, history>>

CurrentPreview(rev) == mem.preview # None /\ mem.preview.rev = rev
Previewable(rev) == mem.rev = rev /\ mem.state \in {"OPEN", "PREVIEWED"}

(* previewedPlan: a preview of this revision is reused, otherwise PreviewPlan
   reads the canonical bytes. *)
PreviewedPlan(p, ok) ==
  /\ At(p, "preview")
  /\ LET rev == call[p].rev
         fits == mem.rev = rev /\ CanTransition(mem.state, "PREPARING") /\ ~mem.compacted
     IN CASE fits /\ CurrentPreview(rev) ->
               call' = [call EXCEPT ![p].pc = IF mem.preview.ok THEN "mark" ELSE "unlease",
                                    ![p].seen = mem.preview.seen]
          [] fits /\ ~CurrentPreview(rev) /\ Previewable(rev) ->
               call' = [call EXCEPT ![p].pc = "save", ![p].seen = canon, ![p].ok = ok]
          [] OTHER -> Goto(p, "unlease")
  /\ UNCHANGED <<mem, disk, lease, slot, stager, reaper, canon, bounds, history>>

(* PreviewPlan, second half.  Memory keeps the preview when its write fails. *)
SavePreview(p, end) ==
  /\ At(p, "save")
  /\ LET rev == call[p].rev
         record == [mem EXCEPT !.state = "PREVIEWED", !.fresh = TRUE,
                      !.preview = [rev |-> rev, seen |-> call[p].seen, ok |-> call[p].ok]]
         error == IF call[p].op = "preview" THEN "idle" ELSE "unlease"
     IN IF Previewable(rev)
        THEN /\ Persist(record, end) /\ mem' = record
             /\ GotoOrReturn(p, IF end = "ok" /\ call[p].ok /\ call[p].op # "preview"
                                THEN "mark" ELSE error)
        ELSE end = "ok" /\ GotoOrReturn(p, error) /\ UNCHANGED <<mem, disk, persistFaults>>
  /\ UNCHANGED <<lease, slot, stager, reaper, canon, releaseFaults, history>>

MarkPreparing(p, end) ==
  /\ At(p, "mark")
  /\ TransitionPlan(p, call[p].rev, "PREPARING", None, end, "request", "unlease")
  /\ UNCHANGED <<lease, slot, stager, reaper, canon, releaseFaults, history>>

(* planStageRequest compares the previewed bytes with the canonical ones. *)
StageRequest(p) ==
  /\ At(p, "request")
  /\ Goto(p, IF canon = call[p].seen THEN "stage" ELSE "failed")
  /\ UNCHANGED <<mem, disk, lease, slot, stager, reaper, canon, bounds, history>>

(* Stage takes opMu, and refuses a stager that is closed or staged already. *)
StageBegin(p) ==
  LET s == call[p].st IN
  /\ At(p, "stage") /\ Unlocked(s)
  /\ IF stager[s].done \/ stager[s].box
     THEN Goto(p, "undo") /\ UNCHANGED stager
     ELSE Goto(p, "staging") /\ stager' = [stager EXCEPT ![s].box = TRUE]
  /\ UNCHANGED <<mem, disk, lease, slot, reaper, canon, bounds, history>>

Staged(p, variant) == [rev |-> call[p].rev, seen |-> call[p].seen, variant |-> variant]

StageEnd(p, variant) ==
  LET s == call[p].st IN
  /\ At(p, "staging")
  /\ \/ /\ call' = [call EXCEPT ![p].pc = "record"]
        /\ stager' = [stager EXCEPT ![s].made = Staged(p, variant), ![s].used = "now"]
     \/ \E keeps \in BOOLEAN :      \* the sandbox is removed, or left to the rollback
          Goto(p, "undo") /\ stager' = [stager EXCEPT ![s].box = keeps]
  /\ UNCHANGED <<mem, disk, lease, slot, reaper, canon, bounds, history>>

(* evaluateInvariants persists the answers; a failure does not roll the stager
   back.  A plan that declares none goes straight on. *)
RecordInvariants(p, end) ==
  /\ At(p, "record")
  /\ IF mem.rev = call[p].rev
     THEN Persist(mem, end) /\ Goto(p, IF end = "ok" THEN "ready" ELSE "failed")
     ELSE end = "ok" /\ Goto(p, "failed") /\ UNCHANGED <<disk, persistFaults>>
  /\ UNCHANGED <<mem, lease, slot, stager, reaper, canon, releaseFaults, history>>

NoInvariants(p) ==
  /\ At(p, "record") /\ Goto(p, "ready")
  /\ UNCHANGED <<mem, disk, lease, slot, stager, reaper, canon, bounds, history>>

(* Mutant: the prepared revision names the bytes before the tools ran. *)
MarkPreparedRequested(p, state, end) ==
  /\ At(p, "ready")
  /\ TransitionPlan(p, call[p].rev, state, Staged(p, Plain), end, PreparedPc(p), "undo")
  /\ UNCHANGED <<lease, slot, stager, reaper, canon, releaseFaults, history>>

(* The lease is kept from here on. *)
MarkPrepared(p, state, end) ==
  /\ At(p, "ready")
  /\ TransitionPlan(p, call[p].rev, state, stager[call[p].st].made, end, PreparedPc(p), "undo")
  /\ UNCHANGED <<lease, slot, stager, reaper, canon, releaseFaults, history>>

UndoStage(p, ok) ==
  /\ At(p, "undo")
  /\ Release(call[p].st, ok)
  /\ Goto(p, "failed")
  /\ UNCHANGED <<mem, disk, lease, slot, reaper, canon, persistFaults, history>>

MarkFailed(p, end) ==
  /\ At(p, "failed")
  /\ TransitionPlan(p, call[p].rev, "FAILED", None, end, "unlease", "unlease")
  /\ UNCHANGED <<lease, slot, stager, reaper, canon, releaseFaults, history>>

ReleasePrepareLease(p) ==
  /\ At(p, "unlease")
  /\ lease' = FALSE /\ Return(p)
  /\ UNCHANGED <<mem, disk, slot, stager, reaper, canon, bounds, history>>

-----------------------------------------------------------------------------
(* The canonical lane: planEdit, planPreview, planDiscard. *)

Start(op, rev, pc, st) ==
  call' = [call EXCEPT ![Canonical] = [NoCall EXCEPT !.op = op, !.rev = rev, !.want = rev,
                                                     !.pc = pc, !.st = st]]
(* A lookup marks the stager it returns as used. *)
TouchFound(rev) == IF Lookup(rev) = "found" THEN Touch(slot) ELSE UNCHANGED stager
Found(rev) == IF Lookup(rev) = "found" THEN slot ELSE None

StartPreview(ok) ==
  /\ At(Canonical, "idle") /\ Previewable(mem.rev)
  /\ call' = [call EXCEPT ![Canonical] = [NoCall EXCEPT !.op = "preview", !.rev = mem.rev,
                                             !.pc = "save", !.seen = canon, !.ok = ok]]
  /\ UNCHANGED <<mem, disk, lease, slot, stager, reaper, canon, bounds, history>>

(* planEdit and reopenForEdit: a prepared plan is reopened first, without its
   sandbox when that is gone. *)
StartEdit ==
  /\ At(Canonical, "idle")
  /\ IF mem.state \in Prepared
     THEN /\ Lookup(mem.rev) # "mismatch"
          /\ TouchFound(mem.rev) /\ Start("edit", mem.rev, "rolling", Found(mem.rev))
     ELSE Start("edit", mem.rev, "edit", None) /\ UNCHANGED stager
  /\ UNCHANGED <<mem, disk, lease, slot, reaper, canon, bounds, history>>

(* planDiscard: a plan that may hold a sandbox is rolled back when there is one. *)
StartDiscard ==
  /\ At(Canonical, "idle")
  /\ IF mem.state \in Prepared \cup {"FAILED", "CONFLICTED"} /\ Lookup(mem.rev) = "found"
     THEN Start("discard", mem.rev, "rolling", slot) /\ Touch(slot)
     ELSE /\ mem.state \in {"FAILED", "CONFLICTED"} => Lookup(mem.rev) = "gone"
          /\ mem.state \notin Prepared
          /\ Start("discard", mem.rev, "discard", None) /\ UNCHANGED stager
  /\ UNCHANGED <<mem, disk, lease, slot, reaper, canon, bounds, history>>

(* EditPlan.  Memory keeps the edit when its write fails. *)
EditPlan(end) ==
  LET record == [mem EXCEPT !.state = "OPEN", !.rev = @ + 1, !.preview = None,
                            !.prep = None, !.fresh = TRUE] IN
  /\ At(Canonical, "edit")
  /\ IF CanTransition(mem.state, "OPEN") /\ ~mem.compacted /\ mem.rev = C.rev
        /\ mem.rev < MaxRevision
     THEN Persist(record, end) /\ mem' = record
     ELSE end = "ok" /\ UNCHANGED <<mem, disk, persistFaults>>
  /\ Return(Canonical)
  /\ UNCHANGED <<lease, slot, stager, reaper, canon, releaseFaults, history>>

(* DiscardPlan.  Memory keeps the new state when its write fails. *)
DiscardPlan(end) ==
  LET record == [mem EXCEPT !.state = "DISCARDED", !.fresh = TRUE] IN
  /\ At(Canonical, "discard")
  /\ IF mem.rev = C.rev /\ CanTransition(mem.state, "DISCARDED")
     THEN Persist(record, end) /\ mem' = record
     ELSE end = "ok" /\ UNCHANGED <<mem, disk, persistFaults>>
  /\ Return(Canonical)
  /\ UNCHANGED <<lease, slot, stager, reaper, canon, releaseFaults, history>>

(* RollbackPlan, ReopenPlan and ReopenPlanWithoutSandbox start alike; a stager is
   rolled back, its absence is not. *)
MarkRollingBack(end) ==
  /\ At(Canonical, "rolling")
  /\ TransitionPlan(Canonical, C.rev, "ROLLING_BACK", mem.prep, end,
                    IF C.st = None THEN "reset" ELSE "rollback", "idle")
  /\ UNCHANGED <<lease, slot, stager, reaper, canon, releaseFaults, history>>

RollbackStager(ok) ==
  /\ At(Canonical, "rollback")
  /\ Release(C.st, ok)
  /\ Goto(Canonical, IF ~ok THEN "rbfailed" ELSE IF C.op = "edit" THEN "reset" ELSE "rolledback")
  /\ UNCHANGED <<mem, disk, lease, slot, reaper, canon, persistFaults, history>>

(* The stager could not be rolled back: FAILED, and the lease stays. *)
RollbackFailed(end) ==
  /\ At(Canonical, "rbfailed")
  /\ TransitionPlan(Canonical, C.rev, "FAILED", None, end, "idle", "idle")
  /\ leaked' = (leaked \/ lease)
  /\ UNCHANGED <<lease, slot, stager, reaper, canon, releaseFaults, committed, overtaken, displaced>>

(* recordInvariants with the proofs reset; its failure returns with the lease. *)
ResetProofs(end) ==
  /\ At(Canonical, "reset")
  /\ IF mem.rev = C.rev
     THEN Persist(mem, end) /\ GotoOrReturn(Canonical, IF end = "ok" THEN "reopen" ELSE "idle")
     ELSE end = "ok" /\ Return(Canonical) /\ UNCHANGED <<disk, persistFaults>>
  /\ leaked' = (leaked \/ (lease /\ (end # "ok" \/ mem.rev # C.rev)))
  /\ UNCHANGED <<mem, lease, slot, stager, reaper, canon, releaseFaults, committed, overtaken, displaced>>

ReopenPlan(end) ==
  /\ At(Canonical, "reopen")
  /\ TransitionPlan(Canonical, C.rev, "OPEN", None, end, "editable", "ended")
  /\ UNCHANGED <<lease, slot, stager, reaper, canon, releaseFaults, history>>

MarkRolledBack(end) ==
  /\ At(Canonical, "rolledback")
  /\ TransitionPlan(Canonical, C.rev, "ROLLED_BACK", None, end, "ended", "ended")
  /\ UNCHANGED <<lease, slot, stager, reaper, canon, releaseFaults, history>>

(* The lease goes with the rollback or the commit, whether its last transition
   was persisted or not. *)
ReleaseLease ==
  /\ C.pc \in {"editable", "ended"}
  /\ lease' = FALSE
  /\ IF C.pc = "editable" THEN Goto(Canonical, "edit") ELSE Return(Canonical)
  /\ UNCHANGED <<mem, disk, slot, stager, reaper, canon, bounds, history>>

-----------------------------------------------------------------------------
(* The canonical lane: planApply and CommitPlan.  What CommitPlan does to the
   tree and its journal is CommitJournal's; here it is one outcome. *)

(* RecoverablePreparedPlan: a preparation a restart discarded. *)
Recoverable(tok) == mem.state = "FAILED" /\ mem.restored /\ mem.prep # None /\ mem.prep = tok

StartApply(rev, tok) ==
  /\ At(Canonical, "idle") /\ rev <= mem.rev
  /\ tok \in {mem.prep} \cup {stager[s].made : s \in Stagers} /\ tok # None
  /\ \/ /\ Lookup(rev) = "found" /\ Touch(slot)
        /\ call' = [call EXCEPT ![Canonical] = [NoCall EXCEPT !.op = "apply", !.rev = rev,
                       !.want = rev, !.pc = "admit", !.st = slot, !.tok = tok]]
     \/ /\ Lookup(rev) # "found" /\ Recoverable(tok) /\ UNCHANGED stager
        /\ call' = [call EXCEPT ![Canonical] = [NoCall EXCEPT !.op = "apply", !.rev = mem.rev,
                       !.want = rev, !.pc = "lookup", !.tok = tok]]
  /\ UNCHANGED <<mem, disk, lease, slot, reaper, canon, bounds, history>>

(* recoverPreparedStager: the recreated preparation must have the same name. *)
CompareRecovered ==
  /\ At(Canonical, "compare")
  /\ call' = [call EXCEPT ![Canonical].rev = C.want,
                          ![Canonical].pc = IF mem.prep = C.tok THEN "admit" ELSE "mismatch"]
  /\ UNCHANGED <<mem, disk, lease, slot, stager, reaper, canon, bounds, history>>

DropMismatch(ok) ==
  /\ At(Canonical, "mismatch")
  /\ Release(C.st, ok) /\ Return(Canonical)
  /\ UNCHANGED <<mem, disk, lease, slot, reaper, canon, persistFaults, history>>

(* Mutant: neither the state nor the preparation is checked. *)
AdmitCommitUnchecked(epochsAgree) ==
  /\ At(Canonical, "admit")
  /\ IF mem.rev = C.rev /\ mem.preview # None /\ (Durable(C.st) \/ epochsAgree)
     THEN call' = [call EXCEPT ![Canonical].pc = "writeset", ![Canonical].seen = mem.preview.seen]
     ELSE Return(Canonical)
  /\ UNCHANGED <<mem, disk, lease, slot, stager, reaper, canon, bounds, history>>

(* admitCommit.  Whether the stager's epoch is the preparation's depends on the
   canonical provider.  A refusal returns before finish is deferred. *)
AdmitCommit(epochsAgree) ==
  /\ At(Canonical, "admit")
  /\ IF /\ mem.rev = C.rev /\ mem.state \in Prepared /\ mem.prep = C.tok
        /\ Durable(C.st) \/ epochsAgree
     THEN call' = [call EXCEPT ![Canonical].pc = "writeset", ![Canonical].seen = mem.preview.seen]
     ELSE Return(Canonical)
  /\ UNCHANGED <<mem, disk, lease, slot, stager, reaper, canon, bounds, history>>

(* The evidence a PROVISIONAL plan lacks, or a required invariant, refuses it. *)
RefuseAdmission ==
  /\ At(Canonical, "admit") /\ mem.state \in Prepared
  /\ Return(Canonical)
  /\ UNCHANGED <<mem, disk, lease, slot, stager, reaper, canon, bounds, history>>

(* stageWriteSet: the fresh preview must equal the prepared one; the write set
   is the stager's, or rebuilt from the preview when it has none, without what
   the tools made of it.  ok says whether it is of the plan revision and of the
   canonical bytes the preparation names. *)
WriteSet == IF Durable(C.st) THEN stager[C.st].made
            ELSE [rev |-> C.rev, seen |-> C.seen, variant |-> Plain]
StageWriteSet(journaled) ==
  /\ At(Canonical, "writeset")
  /\ call' = [call EXCEPT
       ![Canonical].pc = IF canon = C.seen /\ journaled THEN "committing" ELSE "refuse",
       ![Canonical].ok = WriteSet.rev = C.tok.rev /\ WriteSet.seen = C.tok.seen]
  /\ UNCHANGED <<mem, disk, lease, slot, stager, reaper, canon, bounds, history>>

(* Mutant: the commit goes on when COMMITTING could not be recorded. *)
MarkCommittingUnsaved(end) ==
  /\ At(Canonical, "committing")
  /\ TransitionPlan(Canonical, C.rev, "COMMITTING", C.tok, end, "applying", "applying")
  /\ UNCHANGED <<lease, slot, stager, reaper, canon, releaseFaults, history>>

MarkCommitting(end) ==
  /\ At(Canonical, "committing")
  /\ TransitionPlan(Canonical, C.rev, "COMMITTING", C.tok, end, "applying", "refuse")
  /\ UNCHANGED <<lease, slot, stager, reaper, canon, releaseFaults, history>>

(* The journaled apply: refused before the first write, or the bytes are written
   and the provider commits its view, which may fail. *)
ApplyRefused ==
  /\ At(Canonical, "applying")
  /\ Goto(Canonical, "refuse")
  /\ UNCHANGED <<mem, disk, lease, slot, stager, reaper, canon, bounds, history>>

ApplyJournal(ok) ==
  /\ At(Canonical, "applying") /\ canon = C.seen /\ canon < MaxCanon
  /\ canon' = canon + 1
  /\ Release(C.st, ok)
  /\ committed' = IF C.ok THEN "prepared" ELSE "other"
  /\ Goto(Canonical, IF ok THEN "sealed" ELSE "recovery")
  /\ UNCHANGED <<mem, disk, lease, slot, reaper, persistFaults, leaked, overtaken, displaced>>

MarkCommitted(end) ==
  /\ At(Canonical, "sealed")
  /\ TransitionPlan(Canonical, C.rev, "COMMITTED", C.tok, end, "finish", "recovery")
  /\ UNCHANGED <<lease, slot, stager, reaper, canon, releaseFaults, history>>

MarkRecovery(end) ==
  /\ At(Canonical, "recovery")
  /\ TransitionPlan(Canonical, C.rev, "RECOVERY_REQUIRED", C.tok, end, "finish", "finish")
  /\ UNCHANGED <<lease, slot, stager, reaper, canon, releaseFaults, history>>

Refuse(state, end) ==
  /\ At(Canonical, "refuse") /\ state \in {"CONFLICTED", "FAILED"}
  /\ TransitionPlan(Canonical, C.rev, state, C.tok, end, "finish", "finish")
  /\ UNCHANGED <<lease, slot, stager, reaper, canon, releaseFaults, history>>

(* finish: a stager that did not commit is rolled back; errors are dropped. *)
FinishCommit(ok) ==
  /\ At(Canonical, "finish")
  /\ Release(C.st, ok) /\ Goto(Canonical, "ended")
  /\ UNCHANGED <<mem, disk, lease, slot, reaper, canon, persistFaults, history>>

-----------------------------------------------------------------------------
(* The idle sweep: Pool.ExpireIdlePlans. *)

Needed(s) == ~stager[s].done
             /\ mem.state \in Prepared \cup {"PREPARING", "COMMITTING", "ROLLING_BACK"}

(* It lists the stagers and when they were last used. *)
Sweep ==
  /\ Sweeps /\ reaper.pc = "idle"
  /\ reaper' = [pc |-> "expire", snap |-> slot, expired |-> FALSE,
                used |-> IF slot = None THEN "old" ELSE stager[slot].used]
  /\ UNCHANGED <<mem, disk, lease, slot, stager, call, canon, bounds, history>>

Expirable(record) ==
  \/ record.state \in {"OPEN", "PREVIEWED"} \cup Prepared
  \/ record.state = "FAILED" /\ record.prep # None /\ record.restored
Expired(record) == [record EXCEPT !.state = "EXPIRED", !.fresh = TRUE]
Underway == \E p \in Callers : ~At(p, "idle")

(* Workspace.ExpireIdlePlans: an error leaves the memory at the previous record. *)
Expire(end) ==
  /\ reaper.pc = "expire"
  /\ IF Expirable(mem) /\ ~mem.fresh /\ reaper.used = "old"
     THEN /\ Persist(Expired(mem), end)
          /\ mem' = IF end = "ok" THEN Expired(mem) ELSE mem
          /\ reaper' = [reaper EXCEPT !.pc = IF end = "ok" THEN "unlease" ELSE "drop",
                                      !.expired = end = "ok"]
     ELSE end = "ok" /\ reaper' = [reaper EXCEPT !.pc = "drop"]
          /\ UNCHANGED <<mem, disk, persistFaults>>
  /\ overtaken' = (overtaken \/ (mem' # mem /\ Underway))
  /\ UNCHANGED <<lease, slot, stager, call, canon, releaseFaults, committed, leaked, displaced>>

(* Mutant: an expired plan keeps its lease. *)
SweepKeepsLease ==
  /\ reaper.pc = "unlease"
  /\ reaper' = [reaper EXCEPT !.pc = "drop"]
  /\ UNCHANGED <<mem, disk, lease, slot, stager, call, canon, bounds, history>>

(* Another critical section takes the lease away. *)
SweepUnlease ==
  /\ reaper.pc = "unlease"
  /\ lease' = FALSE /\ reaper' = [reaper EXCEPT !.pc = "drop"]
  /\ overtaken' = (overtaken \/ Underway \/ mem.state # "EXPIRED")
  /\ UNCHANGED <<mem, disk, slot, stager, call, canon, bounds, committed, leaked, displaced>>

(* dropUnneededStagers: the decision, and then the rollback. *)
DropUnneeded ==
  /\ reaper.pc = "drop"
  /\ reaper' = IF /\ reaper.snap # None
                  /\ reaper.expired \/ (~Needed(reaper.snap) /\ stager[reaper.snap].used # "now")
               THEN [reaper EXCEPT !.pc = "dropping"] ELSE NoReaper
  /\ UNCHANGED <<mem, disk, lease, slot, stager, call, canon, bounds, history>>

DropStager(ok) ==
  /\ reaper.pc = "dropping"
  /\ Release(reaper.snap, ok)
  /\ slot' = IF ok /\ slot = reaper.snap THEN None ELSE slot
  /\ reaper' = NoReaper
  /\ UNCHANGED <<mem, disk, lease, call, canon, persistFaults, history>>

-----------------------------------------------------------------------------
(* Time, the other plans, the outside and a restart. *)

(* The release grace passes, which only the sweep notices.  A sweep reads the clock
   once, when it starts. *)
Minute ==
  /\ Sweeps /\ reaper.pc = "idle" /\ slot # None /\ stager[slot].used = "now"
  /\ stager' = [stager EXCEPT ![slot].used = "recent"]
  /\ UNCHANGED <<mem, disk, lease, slot, call, reaper, canon, bounds, history>>

(* The idle limit passes, which of a call only the staging outlasts. *)
Hour ==
  /\ reaper.pc = "idle" /\ \A p \in Callers : call[p].pc \in {"idle", "staging"}
  /\ stager' = [s \in Stagers |-> IF s = slot THEN [stager[s] EXCEPT !.used = "old"] ELSE stager[s]]
  /\ mem' = [mem EXCEPT !.fresh = FALSE] /\ disk' = [disk EXCEPT !.fresh = FALSE]
  /\ UNCHANGED <<lease, slot, call, reaper, canon, bounds, history>>

(* pruneTerminalPlansLocked, run when any plan of the store finishes: an old
   terminal record loses its payload, or the record goes. *)
Compacted(record) == [record EXCEPT !.preview = None, !.compacted = TRUE]
Retention ==
  /\ mem.state \in Terminal
  /\ \/ /\ ~mem.fresh /\ ~mem.compacted
        /\ mem' = Compacted(mem) /\ disk' = Compacted(mem)
     \/ mem' = [NewPlan EXCEPT !.state = "GONE"] /\ disk' = mem'
  /\ UNCHANGED <<lease, slot, stager, call, reaper, canon, bounds, history>>

(* loadPlans, and the states journal recovery leaves a plan in. *)
LoadedStates(record) ==
  CASE record.state \in Prepared \cup {"PREPARING", "ROLLING_BACK"} -> {"FAILED"}
    [] record.state \in {"COMMITTING", "RECOVERY_REQUIRED"} ->
         {"RECOVERY_REQUIRED", "COMMITTED", "ROLLED_BACK"}
    [] OTHER -> {record.state}
Loaded(record, state) ==
  LET open == [record EXCEPT !.state = state,
                 !.prep = IF record.state \in {"PREPARING", "ROLLING_BACK"} THEN None ELSE @,
                 !.restored = @ \/ record.state \in Prepared]
  IN IF Expirable(open) /\ ~open.fresh THEN Expired(open) ELSE open

(* Every sandbox is swept, every lease and call is gone. *)
Restart ==
  /\ Restarts
  /\ \E state \in LoadedStates(disk) : mem' = Loaded(disk, state) /\ disk' = mem'
  /\ lease' = FALSE /\ slot' = None
  /\ stager' = [s \in Stagers |-> FreshStager(1)]
  /\ call' = [p \in Callers |-> NoCall] /\ reaper' = NoReaper
  /\ leaked' = FALSE /\ overtaken' = FALSE /\ displaced' = FALSE
  /\ committed' = "none"
  /\ UNCHANGED <<canon, bounds>>

(* Anything else writes the canonical bytes. *)
ExternalEdit ==
  /\ canon < MaxCanon - 1 /\ canon' = canon + 1
  /\ UNCHANGED <<mem, disk, lease, slot, stager, call, reaper, bounds, history>>

-----------------------------------------------------------------------------
Prepare(p) ==
  \/ LookupStager(p)
  \/ \E ok \in BOOLEAN : EvictStager(p, ok)
  \/ \E s \in Stagers : CreateStager(p, s)
  \/ AcquirePrepareLease(p)
  \/ \E ok \in BOOLEAN : PreviewedPlan(p, ok)
  \/ \E end \in Ends : SavePreview(p, end)
  \/ \E end \in Ends : MarkPreparing(p, end)
  \/ StageRequest(p)
  \/ StageBegin(p)
  \/ \E variant \in Variants : StageEnd(p, variant)
  \/ \E end \in Ends : RecordInvariants(p, end)
  \/ NoInvariants(p)
  \/ \E state \in Verdicts, end \in Ends : MarkPrepared(p, state, end)
  \/ \E ok \in BOOLEAN : UndoStage(p, ok)
  \/ \E end \in Ends : MarkFailed(p, end)
  \/ ReleasePrepareLease(p)

RollBack ==
  \/ \E end \in Ends : EditPlan(end)
  \/ \E end \in Ends : DiscardPlan(end)
  \/ \E end \in Ends : MarkRollingBack(end)
  \/ \E ok \in BOOLEAN : RollbackStager(ok)
  \/ \E end \in Ends : RollbackFailed(end)
  \/ \E end \in Ends : ResetProofs(end)
  \/ \E end \in Ends : ReopenPlan(end)
  \/ \E end \in Ends : MarkRolledBack(end)
  \/ ReleaseLease

Apply ==
  \/ CompareRecovered
  \/ \E ok \in BOOLEAN : DropMismatch(ok)
  \/ \E epochsAgree \in BOOLEAN : AdmitCommit(epochsAgree)
  \/ RefuseAdmission
  \/ \E journaled \in BOOLEAN : StageWriteSet(journaled)
  \/ \E end \in Ends : MarkCommitting(end)
  \/ ApplyRefused
  \/ \E ok \in BOOLEAN : ApplyJournal(ok)
  \/ \E end \in Ends : MarkCommitted(end)
  \/ \E end \in Ends : MarkRecovery(end)
  \/ \E state \in {"CONFLICTED", "FAILED"}, end \in Ends : Refuse(state, end)
  \/ \E ok \in BOOLEAN : FinishCommit(ok)

ExpireIdle ==
  \/ \E end \in Ends : Expire(end)
  \/ SweepUnlease
  \/ DropUnneeded
  \/ \E ok \in BOOLEAN : DropStager(ok)

(* changePlan: the actions of the change_plan tool. *)
changePlan ==
  \/ \E p \in Preparers, rev \in Revisions : StartPrepare(p, rev)
  \/ \E ok \in BOOLEAN : StartPreview(ok)
  \/ StartEdit
  \/ StartDiscard
  \/ \E rev \in Revisions, tok \in Tokens : StartApply(rev, tok)

Next ==
  \/ changePlan
  \/ \E p \in Callers : Prepare(p)
  \/ RollBack
  \/ Apply
  \/ Sweep
  \/ ExpireIdle
  \/ Minute \/ Hour \/ Retention \/ Restart \/ ExternalEdit

Spec == Init /\ [][Next]_vars

-----------------------------------------------------------------------------
(* Properties. *)

Leased == {"preview", "save", "mark", "request", "stage", "staging", "record", "ready", "undo",
           "failed", "unlease", "rolling", "rollback", "rbfailed", "reset", "reopen",
           "rolledback", "editable", "ended", "committing", "applying", "sealed", "recovery",
           "refuse", "finish", "compare", "mismatch", "writeset"}

(* A held prepare lease is held for somebody: the plan is prepared, a call that
   will give the lease back is in flight, or the sweep is about to take it away.
   Otherwise every later prepare answers workspace_busy until a restart.  (The
   failed rollbacks, which do keep it, are leaked.) *)
LeaseHasOwner ==
  lease /\ ~leaked =>
    \/ mem.state \in Prepared
    \/ \E p \in Callers : call[p].pc \in Leased /\ ~(call[p].op = "preview")
    \/ reaper.pc = "unlease"

(* A plan in the middle of an operation is in the hands of a call of that
   operation: nothing else can leave it PREPARING, ROLLING_BACK or COMMITTING for
   good, as no such plan can be edited, discarded or expired. *)
OperationHasOwner ==
  persistFaults = 0 =>
    /\ mem.state = "PREPARING" => \E p \in Callers :
         call[p].pc \in {"request", "stage", "staging", "record", "ready", "undo", "failed"}
    /\ mem.state = "ROLLING_BACK" => C.pc \in {"rollback", "rbfailed", "reset", "reopen", "rolledback"}
    /\ mem.state = "COMMITTING" => C.pc \in {"applying", "sealed", "recovery", "refuse"}

(* While canonical bytes are written, and until the commit is recorded, memory and
   disk both say COMMITTING for the revision being applied: a prepare and a crash in
   between find a plan that needs recovery.  (Unless the sweep expired the plan
   beside a call that was using it.) *)
ApplyIsDurable ==
  ~overtaken /\ C.pc \in {"applying", "sealed"} =>
    /\ mem.state = "COMMITTING" /\ disk.state = "COMMITTING"
    /\ mem.rev = C.rev /\ disk.rev = C.rev

(* Two calls never prepare the plan at the same time, and a plan is prepared only
   while it holds the prepare lease, so a second prepare of it answers with the
   first one's preparation (acquirePrepareLease, PreparePlan).  The lease may go
   first when a refused apply cannot record its refusal, and both may fail once the
   sweep has expired the plan beside a call that was using it, as expireIdlePlans takes
   a lease away without asking whose it is. *)
Staging == {"request", "stage", "staging", "record", "ready", "undo", "failed"}
PreparationExclusive ==
  ~overtaken =>
    /\ \A p, q \in Callers : call[p].pc \in Staging /\ call[q].pc \in Staging => p = q
    /\ persistFaults = 0 /\ mem.state \in Prepared => lease

(* What was prepared is what is shown and what is applied: the sandbox a prepared
   plan's readers find is the one its prepared revision names, and apply writes a
   set made of the plan revision and the canonical bytes that revision names,
   whoever prepared, edited, expired or restarted in between (PlanStager,
   stageWriteSet). *)
AppliedIsPrepared ==
  /\ mem.state \in Prepared /\ slot # None /\ Reusable(slot, mem.rev) /\ stager[slot].made # None
       => stager[slot].made = mem.prep
  /\ committed # "other"

(* Nothing is stranded: the lease, a plan in the middle of an operation, and every
   sandbox that was not removed have somebody who gives them back (RollbackPlan,
   PlanStager, dropUnneededStagers, ExpireIdlePlans). *)
SandboxOwned ==
  releaseFaults = 0 =>
    \A s \in Stagers : stager[s].box /\ ~stager[s].done => s \in Referenced
NothingStranded == LeaseHasOwner /\ OperationHasOwner /\ SandboxOwned

-----------------------------------------------------------------------------
(* The inductive strengthening of PreparationExclusive and ApplyIsDurable, and of
   what NothingStranded says of the lease and the record. *)

(* A call that took the prepare lease and will give it back. *)
Holds(p) == \/ call[p].pc \in {"preview", "mark", "unlease"} \cup Staging
            \/ call[p].pc = "save" /\ call[p].op # "preview"
NoHolder == \A p \in Callers : ~Holds(p)

RollingBack == {"rollback", "rbfailed", "reset", "reopen", "rolledback"}

(* No plan leaves these states but through a startup or retention. *)
Final == {"COMMITTED", "ROLLED_BACK", "DISCARDED", "RECOVERY_REQUIRED", "GONE"}

(* A call that has come past the lookup has a stager, the one it works on. *)
HasStager == {"evict", "lease", "compare", "mismatch", "admit", "writeset", "committing", "applying",
              "sealed", "recovery", "refuse", "finish", "rollback"}
StagerInv == \A p \in Callers : Holds(p) \/ call[p].pc \in HasStager => call[p].st # None

(* What is being prepared, or is prepared, has its preview: an edit takes it away
   with the revision, retention with the right to prepare again. *)
PreviewInv ==
  /\ mem.state \in Prepared \cup {"PREPARING"} => mem.preview # None
  /\ \A p \in Callers : call[p].pc = "mark" =>
       \/ mem.state = "GONE" \/ call[p].rev < mem.rev
       \/ call[p].rev = mem.rev /\ (mem.compacted \/ mem.preview # None)
  /\ \A p \in Callers : call[p].pc # "idle" /\ call[p].op = "preview" => p = Canonical /\ call[p].pc = "save"

(* A stripped record is terminal, and stays it. *)
CompactInv == \A record \in {mem, disk} : record.compacted => record.state \in Terminal

(* The state in which a call's operation left the plan is there until the call
   moves it on. *)
StagingInv ==
  \A p \in Callers : call[p].pc \in Staging =>
    /\ mem.state = "PREPARING" /\ mem.rev = call[p].rev
    /\ \A q \in Callers : call[q].pc \in Staging => p = q
RollingInv ==
  /\ C.pc \in RollingBack => mem.state = "ROLLING_BACK" /\ mem.rev = C.rev
  /\ C.pc = "rolling" => \/ C.op = "discard" /\ C.st # None
                         \/ C.op = "edit" /\ mem.state \in Prepared
  /\ C.pc \in {"reset", "reopen", "editable"} => C.op = "edit"
ApplyingInv ==
  /\ C.pc \in {"writeset", "committing"} => mem.state \in Prepared
  /\ C.pc \in {"applying", "sealed", "recovery"} => mem.state = "COMMITTING"
  /\ C.pc = "refuse" => mem.state \in Prepared \cup {"COMMITTING"}
  /\ C.pc \in {"writeset", "committing", "applying", "sealed", "recovery", "refuse"} => mem.rev = C.rev
  /\ C.pc \in {"applying", "sealed"} => disk.state = "COMMITTING" /\ disk.rev = C.rev

(* Who holds the lease.  Holders meet only over a plan that is finished. *)
LeaseInv ==
  /\ \A p \in Callers : Holds(p) => lease \/ mem.state \in Final
  /\ \A p, q \in Callers : Holds(p) /\ Holds(q) => p = q \/ mem.state \in Final
  /\ mem.state \in Prepared \cup {"COMMITTING"} => lease /\ NoHolder
  /\ C.pc \in RollingBack \cup {"editable"} /\ C.op = "edit" => lease /\ NoHolder
  /\ C.pc = "editable" => mem.state = "OPEN"
  /\ C.pc \in {"finish", "ended"} =>
       \/ mem.state \in Final
       \/ mem.state \in {"FAILED", "CONFLICTED"} /\ lease /\ NoHolder

(* An apply that has been admitted returns the lease whatever happens to it. *)
Admitted == {"writeset", "committing", "applying", "sealed", "recovery", "refuse", "finish", "ended"}
LeaseOwned ==
  lease /\ ~leaked => \/ mem.state \in Prepared
                      \/ \E p \in Callers : Holds(p)
                      \/ C.pc \in RollingBack \cup Admitted \cup {"editable"}
                      \/ reaper.pc = "unlease"

(* The call that has a plan in the middle of an operation works on its revision. *)
OperationOwned ==
  persistFaults = 0 =>
    /\ mem.state = "PREPARING" => \E p \in Callers : call[p].pc \in Staging /\ call[p].rev = mem.rev
    /\ mem.state = "ROLLING_BACK" => C.pc \in RollingBack /\ C.rev = mem.rev
    /\ mem.state = "COMMITTING" => C.pc \in {"applying", "sealed", "recovery", "refuse"} /\ C.rev = mem.rev

IInv ==
  /\ StagerInv /\ PreviewInv /\ CompactInv /\ LeaseOwned /\ OperationOwned
  /\ ~overtaken => StagingInv /\ RollingInv /\ ApplyingInv
  /\ ~overtaken /\ persistFaults = 0 => LeaseInv

-----------------------------------------------------------------------------
(* The inductive strengthening of AppliedIsPrepared, and of what NothingStranded says
   of the stagers. *)

(* As long as every release succeeds, the stagers that are not given back yet are
   the one that is registered. *)
InPlace ==
  ~displaced /\ releaseFaults = 0 =>
    /\ \A s \in Stagers : stager[s].box /\ ~stager[s].done => s = slot
    /\ \A p \in Callers : call[p].st # None /\ ~stager[call[p].st].done => call[p].st = slot

(* No sweep expired the plan beside a call of it, no stager in use lost its place, and
   every stager that was given back was released. *)
Orderly == ~overtaken /\ ~displaced /\ releaseFaults = 0

Made(s) == stager[s].made # None

(* A stager is staged once, by the call that holds its lock, for the revision and
   the bytes of that call. *)
MadeInv ==
  /\ \A s \in Stagers : Made(s) => stager[s].box /\ stager[s].made.rev = stager[s].rev
  /\ \A p \in Callers : Holds(p) \/ At(p, "lease") => stager[call[p].st].rev = call[p].rev
  /\ \A p \in Callers : At(p, "staging") => stager[call[p].st].box /\ ~Made(call[p].st)
  /\ \A p, q \in Callers : At(p, "staging") /\ At(q, "staging") /\ call[p].st = call[q].st => p = q
  /\ \A p \in Callers : call[p].pc \in {"record", "ready"} =>
       Made(call[p].st) /\ stager[call[p].st].made.seen = call[p].seen

(* Nobody has seen bytes of the future. *)
SeenInv ==
  /\ mem.preview # None => mem.preview.seen <= canon
  /\ disk.preview # None => disk.preview.seen <= canon
  /\ \A p \in Callers : call[p].seen <= canon

(* What an apply asks for is not newer than the stager it has. *)
WantInv ==
  /\ C.op = "apply" => C.want <= C.rev
  /\ C.pc \in {"compare", "admit"} => C.op = "apply" /\ C.want <= stager[C.st].rev
  /\ C.pc = "admit" => C.rev = C.want

(* The stagers an apply may write from. *)
InReach(s) == \/ s = slot /\ ~stager[s].done
              \/ s = C.st /\ C.op = "apply" /\ C.pc \notin {"idle", "evict"}
Current == mem.preview # None /\ mem.preview.seen = canon

ReachInv ==
  \A s \in Stagers : InReach(s) /\ Made(s) =>
    /\ stager[s].rev <= mem.rev \/ mem.state = "GONE"
    /\ stager[s].rev = mem.rev =>
         /\ mem.state \notin {"OPEN", "PREVIEWED"}
         /\ Current => stager[s].made.seen = canon

ReadyInv ==
  /\ \A p \in Callers : call[p].pc \in {"stage", "staging", "record", "ready"} /\ Current => call[p].seen = canon
  /\ \A p \in Callers : call[p].pc \in {"staging", "record", "ready"} /\ slot # None /\ ~stager[slot].done
       /\ Made(slot) => slot = call[p].st

PrepInv ==
  mem.state \in Prepared =>
    /\ mem.prep # None /\ mem.prep.rev = mem.rev
    /\ Current => mem.prep.seen = canon
    /\ slot # None /\ Reusable(slot, mem.rev) /\ Made(slot) => stager[slot].made = mem.prep

ReopenInv ==
  C.op = "edit" /\ C.pc \in {"rolling", "rollback", "reset", "reopen"} /\ slot # None
    /\ Reusable(slot, mem.rev) /\ Made(slot) => C.pc \in {"rolling", "rollback"} /\ slot = C.st

CommitInv ==
  /\ C.pc = "writeset" => /\ C.tok # None
                          /\ C.seen = canon => WriteSet.rev = C.tok.rev /\ WriteSet.seen = C.tok.seen
  /\ C.pc \in {"committing", "applying"} => C.ok
  /\ committed # "other"

ContentInv ==
  /\ InPlace /\ MadeInv /\ SeenInv /\ WantInv
  /\ Orderly => ReachInv /\ ReadyInv /\ PrepInv /\ ReopenInv /\ CommitInv
=============================================================================
