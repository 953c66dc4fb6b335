------------------------ MODULE PlanLifecycleProofs ------------------------
(***************************************************************************)
(* Proofs about PlanLifecycle, for every number of prepares, stagers,      *)
(* revisions and faults, with restarts and the idle sweep.                 *)
(*                                                                         *)
(* First the types; then what a step does to the part of the state the     *)
(* invariant reads (a call moves on, a transition is made or refused); then*)
(* one lemma per group of actions, with one step per action and under it   *)
(* one per part of the invariant. The stagers and what they hold follow in *)
(* a second round, with the first invariant as a fact.                     *)
(***************************************************************************)
EXTENDS PlanLifecycle, TLAPS

-----------------------------------------------------------------------------
(* Types. *)

Pcs == {"idle"} \cup PreparePcs \cup CanonicalPcs
MaybeToken == Tokens \cup {None}

LEMMA ConstantTypes ==
  Canonical \in Callers /\ 1 \in Revisions /\ 0 \in Canons /\ Verdicts \subseteq Prepared
BY VerdictsAssumption, BoundsAssumption DEF Callers, Revisions, Canons, Prepared

LEMMA GotoType ==
  ASSUME call \in [Callers -> Calls], NEW p \in Callers, NEW pc \in Pcs, GotoOrReturn(p, pc)
  PROVE  call' \in [Callers -> Calls]
<1>1. NoCall \in Calls
  BY ConstantTypes DEF NoCall, Calls
<1>2. ASSUME Return(p) PROVE call' \in [Callers -> Calls]
  BY <1>1, <1>2 DEF Return
<1>3. ASSUME Goto(p, pc) PROVE call' \in [Callers -> Calls]
  <2>1. [call[p] EXCEPT !.pc = pc] \in Calls
    BY DEF Calls, Pcs
  <2> QED BY <1>3, <2>1 DEF Goto
<1> QED BY <1>2, <1>3 DEF GotoOrReturn

LEMMA PersistType ==
  ASSUME disk \in Records, persistFaults \in Nat, NEW record \in Records, NEW end, Persist(record, end)
  PROVE  disk' \in Records /\ persistFaults' \in Nat
BY DEF Persist

LEMMA MovedType ==
  ASSUME mem \in Records, NEW p, NEW state \in PlanStates, NEW prep \in MaybeToken
  PROVE  Moved(p, state, prep) \in Records
BY DEF Moved, Records, MaybeToken

LEMMA TransitionType ==
  ASSUME TypeOK, NEW p \in Callers, NEW rev, NEW state \in PlanStates, NEW prep \in MaybeToken,
         NEW end, NEW good \in Pcs, NEW bad \in Pcs,
         TransitionPlan(p, rev, state, prep, end, good, bad)
  PROVE  mem' \in Records /\ disk' \in Records /\ persistFaults' \in Nat /\ call' \in [Callers -> Calls]
<1> DEFINE pc == IF MayMove(rev, state) /\ end = "ok" THEN good ELSE bad
<1>1. GotoOrReturn(p, pc) /\ pc \in Pcs
  BY DEF TransitionPlan
<1>2. call' \in [Callers -> Calls]
  BY <1>1, GotoType DEF TypeOK
<1>3. Moved(p, state, prep) \in Records
  BY MovedType DEF TypeOK
<1> QED
  BY <1>2, <1>3, PersistType DEF TransitionPlan, TypeOK

LEMMA ReleaseType ==
  ASSUME TypeOK, NEW s, NEW ok \in BOOLEAN, Release(s, ok)
  PROVE  stager' \in [Stagers -> StagerRecords] /\ releaseFaults' \in Nat
<1>1. stager \in [Stagers -> StagerRecords] /\ releaseFaults \in Nat
  BY DEF TypeOK
<1>2. releaseFaults' \in Nat
  BY <1>1 DEF Release
<1>3. ASSUME s \in Stagers PROVE [stager[s] EXCEPT !.done = @ \/ ok] \in StagerRecords
  BY <1>1, <1>3 DEF StagerRecords
<1>4. stager' = [stager EXCEPT ![s] = [stager[s] EXCEPT !.done = @ \/ ok]]
  BY DEF Release
<1> QED BY <1>1, <1>2, <1>3, <1>4

LEMMA NoCallType == NoCall \in Calls
BY ConstantTypes DEF NoCall, Calls

LEMMA FreshType == ASSUME NEW rev \in Revisions PROVE FreshStager(rev) \in StagerRecords
BY DEF FreshStager, StagerRecords

(* The steps of a prepare, without those that move the record. *)
LEMMA PrepareType ==
  ASSUME TypeOK, NEW p \in Callers,
         \/ LookupStager(p) \/ (\E ok \in BOOLEAN : EvictStager(p, ok)) \/ (\E s \in Stagers : CreateStager(p, s))
         \/ AcquirePrepareLease(p) \/ (\E ok \in BOOLEAN : PreviewedPlan(p, ok)) \/ StageRequest(p)
         \/ StageBegin(p) \/ (\E variant \in Variants : StageEnd(p, variant)) \/ NoInvariants(p)
         \/ (\E ok \in BOOLEAN : UndoStage(p, ok)) \/ ReleasePrepareLease(p)
  PROVE  TypeOK'
<1> USE NoneAssumption
<1>0. /\ call \in [Callers -> Calls] /\ call[p] \in Calls /\ slot \in Stagers \cup {None}
      /\ stager \in [Stagers -> StagerRecords]
  BY DEF TypeOK
<1>st. ASSUME NEW s \in Stagers PROVE [call[p] EXCEPT !.pc = "lease", !.st = s] \in Calls
  BY <1>0 DEF Calls, PreparePcs
<1>touch. ASSUME NEW s, Touch(s) PROVE stager' \in [Stagers -> StagerRecords]
  <2>1. s \in Stagers => [stager[s] EXCEPT !.used = "now"] \in StagerRecords
    BY <1>0 DEF StagerRecords
  <2> QED BY <2>1, <1>0, <1>touch DEF Touch
<1>1. CASE LookupStager(p)
  <2>1. CASE slot = None
    <3>1. GotoOrReturn(p, "create") /\ "create" \in Pcs
      BY <1>1, <2>1 DEF LookupStager, GotoOrReturn, Pcs, PreparePcs
    <3> QED BY <1>1, <2>1, <3>1, GotoType DEF TypeOK, LookupStager, bounds, history
  <2>2. CASE slot # None /\ Reusable(slot, call[p].rev)
    <3>1. call' = [call EXCEPT ![p] = [call[p] EXCEPT !.pc = "lease", !.st = slot]] /\ Touch(slot)
      BY <1>1, <2>2 DEF LookupStager
    <3>2. call' \in [Callers -> Calls]
      BY <1>0, <1>st, <2>2, <3>1
    <3> QED BY <1>1, <2>2, <3>1, <3>2, <1>touch DEF TypeOK, LookupStager, bounds, history
  <2>3. CASE slot # None /\ ~Reusable(slot, call[p].rev)
    <3>1. call' = [call EXCEPT ![p] = [call[p] EXCEPT !.pc = "evict", !.st = slot]] /\ UNCHANGED stager
      BY <1>1, <2>3 DEF LookupStager
    <3>2. [call[p] EXCEPT !.pc = "evict", !.st = slot] \in Calls
      BY <1>0 DEF Calls, PreparePcs
    <3> QED BY <1>0, <1>1, <3>1, <3>2 DEF TypeOK, LookupStager, bounds, history
  <2> QED BY <2>1, <2>2, <2>3
<1>2. ASSUME NEW ok \in BOOLEAN, EvictStager(p, ok) PROVE TypeOK'
  <2>1. [call[p] EXCEPT !.pc = "create", !.st = None] \in Calls
    BY <1>0 DEF Calls, PreparePcs
  <2>2. call' = [call EXCEPT ![p] = [call[p] EXCEPT !.pc = "create", !.st = None]]
    BY <1>2 DEF EvictStager
  <2>3. stager' \in [Stagers -> StagerRecords] /\ releaseFaults' \in Nat
    BY <1>2, ReleaseType DEF EvictStager
  <2> QED BY <1>0, <1>2, <2>1, <2>2, <2>3 DEF TypeOK, EvictStager, history
<1>3. ASSUME NEW s \in Stagers, CreateStager(p, s) PROVE TypeOK'
  <2>1. CASE slot # None /\ Reusable(slot, call[p].rev)
    <3>1. call' = [call EXCEPT ![p] = [call[p] EXCEPT !.pc = "lease", !.st = slot]] /\ Touch(slot)
      BY <1>3, <2>1 DEF CreateStager
    <3> QED BY <1>0, <1>3, <2>1, <3>1, <1>st, <1>touch DEF TypeOK, CreateStager, bounds
  <2>2. CASE ~(slot # None /\ Reusable(slot, call[p].rev))
    <3>1. /\ call' = [call EXCEPT ![p] = [call[p] EXCEPT !.pc = "lease", !.st = s]]
          /\ stager' = [stager EXCEPT ![s] = FreshStager(call[p].rev)] /\ slot' = s
      BY <1>3, <2>2 DEF CreateStager
    <3>2. FreshStager(call[p].rev) \in StagerRecords
      BY <1>0, FreshType DEF Calls
    <3>3. displaced' \in BOOLEAN
      BY <1>3, <2>2 DEF TypeOK, CreateStager
    <3> QED BY <1>0, <1>3, <3>1, <3>2, <3>3, <1>st DEF TypeOK, CreateStager, bounds
  <2> QED BY <2>1, <2>2
<1>4. CASE AcquirePrepareLease(p)
  <2>1. PICK pc \in Pcs : GotoOrReturn(p, pc)
    BY <1>4 DEF AcquirePrepareLease, GotoOrReturn, PreparedPc, Pcs, PreparePcs, CanonicalPcs
  <2>2. lease' \in BOOLEAN
    BY <1>4 DEF AcquirePrepareLease, TypeOK
  <2> QED BY <1>0, <1>4, <2>1, <2>2, GotoType DEF TypeOK, AcquirePrepareLease, bounds, history
<1>5. ASSUME NEW ok \in BOOLEAN, PreviewedPlan(p, ok) PROVE TypeOK'
  <2> DEFINE to(pc, seen, right) == [call[p] EXCEPT !.pc = pc, !.seen = seen, !.ok = right]
  <2>1. \A pc \in Pcs, seen \in Canons, right \in BOOLEAN : to(pc, seen, right) \in Calls
    BY <1>0 DEF Calls, Pcs
  <2>2. /\ canon \in Canons /\ call[p].seen \in Canons /\ call[p].ok \in BOOLEAN
        /\ mem.preview # None => mem.preview.seen \in Canons
    BY <1>0 DEF TypeOK, Records, Previews, Calls
  <2>3. ASSUME call' = [call EXCEPT ![p].pc = IF mem.preview.ok THEN "mark" ELSE "unlease",
                                    ![p].seen = mem.preview.seen], mem.preview # None
        PROVE  call' \in [Callers -> Calls]
    <3>1. PICK pc \in {"mark", "unlease"} : pc = IF mem.preview.ok THEN "mark" ELSE "unlease"
      OBVIOUS
    <3>2. PICK seen \in Canons : seen = mem.preview.seen
      BY <2>2, <2>3
    <3>3. call' = [call EXCEPT ![p] = [call[p] EXCEPT !.pc = pc, !.seen = seen]]
      BY <2>3, <3>1, <3>2
    <3>4. [call[p] EXCEPT !.pc = pc, !.seen = seen] \in Calls
      BY <1>0 DEF Calls, PreparePcs
    <3> QED BY <1>0, <3>3, <3>4
  <2>4. ASSUME call' = [call EXCEPT ![p].pc = "save", ![p].seen = canon, ![p].ok = ok]
        PROVE  call' \in [Callers -> Calls]
    <3>1. call' = [call EXCEPT ![p] = to("save", canon, ok)]
      BY <2>4
    <3>2. to("save", canon, ok) \in Calls
      BY <2>1, <2>2 DEF Pcs, PreparePcs
    <3> HIDE DEF to
    <3> QED BY <1>0, <3>1, <3>2
  <2>5. ASSUME Goto(p, "unlease") PROVE call' \in [Callers -> Calls]
    <3>1. "unlease" \in Pcs /\ GotoOrReturn(p, "unlease")
      BY <2>5 DEF Pcs, PreparePcs, GotoOrReturn
    <3> QED BY <1>0, <3>1, GotoType
  <2>6. call' \in [Callers -> Calls]
    BY <1>5, <2>3, <2>4, <2>5 DEF PreviewedPlan, CurrentPreview
  <2> QED BY <1>5, <2>6 DEF TypeOK, PreviewedPlan, bounds, history
<1>6. ASSUME StageRequest(p) \/ NoInvariants(p) PROVE TypeOK'
  <2>1. PICK pc \in Pcs : GotoOrReturn(p, pc)
    BY <1>6 DEF StageRequest, NoInvariants, GotoOrReturn, Pcs, PreparePcs
  <2> QED BY <1>6, <2>1, GotoType DEF TypeOK, StageRequest, NoInvariants, bounds, history
<1>7. CASE StageBegin(p)
  <2>1. PICK pc \in Pcs : GotoOrReturn(p, pc)
    BY <1>7 DEF StageBegin, GotoOrReturn, Pcs, PreparePcs
  <2>2. \A s \in Stagers : [stager[s] EXCEPT !.box = TRUE] \in StagerRecords
    BY <1>0 DEF StagerRecords
  <2>3. stager' \in [Stagers -> StagerRecords]
    BY <1>0, <1>7, <2>2 DEF StageBegin
  <2> QED BY <1>7, <2>1, <2>3, GotoType DEF TypeOK, StageBegin, bounds, history
<1>8. ASSUME NEW variant \in Variants, StageEnd(p, variant) PROVE TypeOK'
  <2>1. PICK pc \in Pcs : GotoOrReturn(p, pc)
    BY <1>8 DEF StageEnd, GotoOrReturn, Goto, Pcs, PreparePcs
  <2>2. Staged(p, variant) \in Tokens
    BY <1>0 DEF Staged, Tokens, Calls
  <2>3. \A s \in Stagers, keeps \in BOOLEAN :
          /\ [stager[s] EXCEPT !.box = keeps] \in StagerRecords
          /\ [stager[s] EXCEPT !.made = Staged(p, variant), !.used = "now"] \in StagerRecords
    BY <1>0, <2>2 DEF StagerRecords
  <2>4. \/ stager' = [stager EXCEPT ![call[p].st] = [stager[call[p].st] EXCEPT !.made = Staged(p, variant), !.used = "now"]]
        \/ \E keeps \in BOOLEAN : stager' = [stager EXCEPT ![call[p].st] = [stager[call[p].st] EXCEPT !.box = keeps]]
    BY <1>8 DEF StageEnd
  <2>5. stager' \in [Stagers -> StagerRecords]
    <3>1. PICK record : /\ stager' = [stager EXCEPT ![call[p].st] = record]
                        /\ call[p].st \in Stagers => record \in StagerRecords
      BY <2>3, <2>4
    <3> QED BY <1>0, <3>1
  <2> QED BY <1>8, <2>1, <2>5, GotoType DEF TypeOK, StageEnd, bounds, history
<1>9. ASSUME NEW ok \in BOOLEAN, UndoStage(p, ok) PROVE TypeOK'
  <2>1. GotoOrReturn(p, "failed") /\ "failed" \in Pcs
    BY <1>9 DEF UndoStage, GotoOrReturn, Pcs, PreparePcs
  <2>3. stager' \in [Stagers -> StagerRecords] /\ releaseFaults' \in Nat
    BY <1>9, ReleaseType DEF UndoStage
  <2> QED BY <1>9, <2>1, <2>3, GotoType DEF TypeOK, UndoStage, history
<1>10. CASE ReleasePrepareLease(p)
  <2>1. GotoOrReturn(p, "idle") /\ "idle" \in Pcs
    BY <1>10 DEF ReleasePrepareLease, GotoOrReturn, Pcs
  <2> QED BY <1>10, <2>1, GotoType DEF TypeOK, ReleasePrepareLease, bounds, history
<1> QED BY <1>1, <1>2, <1>3, <1>4, <1>5, <1>6, <1>7, <1>8, <1>9, <1>10

(* The steps that move the record. *)
LEMMA RecordType ==
  ASSUME TypeOK, StagerInv, NEW p \in Callers, NEW end \in Ends,
         \/ MarkPreparing(p, end) \/ (\E state \in Verdicts : MarkPrepared(p, state, end)) \/ MarkFailed(p, end)
         \/ MarkRollingBack(end) \/ RollbackFailed(end) \/ ReopenPlan(end) \/ MarkRolledBack(end)
         \/ MarkCommitting(end) \/ MarkCommitted(end) \/ MarkRecovery(end)
         \/ (\E state \in {"CONFLICTED", "FAILED"} : Refuse(state, end))
  PROVE  TypeOK'
<1>0. /\ Canonical \in Callers /\ None \in MaybeToken /\ mem.prep \in MaybeToken /\ C.tok \in MaybeToken
      /\ \A s \in Stagers : stager[s].made \in MaybeToken
      /\ call[p].st \in Stagers \cup {None}
      /\ Verdicts \subseteq PlanStates
  BY ConstantTypes, VerdictsAssumption DEF TypeOK, MaybeToken, Records, StagerRecords, Calls, C, PlanStates
<1>p. /\ {"request", "unlease", "undo", "idle", "reset", "rollback", "editable", "ended", "applying",
           "refuse", "finish", "recovery"} \subseteq Pcs
      /\ \A q \in Callers : PreparedPc(q) \in Pcs
      /\ {"PREPARING", "FAILED", "ROLLING_BACK", "OPEN", "ROLLED_BACK", "COMMITTING", "COMMITTED",
           "RECOVERY_REQUIRED", "CONFLICTED"} \subseteq PlanStates
  BY DEF Pcs, PreparePcs, CanonicalPcs, PreparedPc, PlanStates
<1>m. ASSUME TypeOK, NEW q \in Callers, NEW rev, NEW state \in PlanStates, NEW prep \in MaybeToken,
             NEW good \in Pcs, NEW bad \in Pcs, TransitionPlan(q, rev, state, prep, end, good, bad),
             UNCHANGED <<lease, slot, stager, reaper, canon, releaseFaults, committed, overtaken, displaced>>,
             leaked' \in BOOLEAN
      PROVE  TypeOK'
  BY <1>m, TransitionType DEF TypeOK
<1>h. history' = history => leaked' \in BOOLEAN /\ UNCHANGED <<committed, overtaken, displaced>>
  BY DEF history, TypeOK
<1>1. CASE MarkPreparing(p, end)
  BY <1>1, <1>0, <1>p, <1>m, <1>h DEF MarkPreparing
<1>2. ASSUME NEW state \in Verdicts, MarkPrepared(p, state, end) PROVE TypeOK'
  <2>1. stager[call[p].st].made \in MaybeToken
    BY <1>2, <1>0 DEF MarkPrepared, At, StagerInv, Holds, Staging
  <2> QED BY <1>2, <1>0, <1>p, <1>m, <1>h, <2>1 DEF MarkPrepared
<1>3. CASE MarkFailed(p, end)
  BY <1>3, <1>0, <1>p, <1>m, <1>h DEF MarkFailed
<1>4. CASE MarkRollingBack(end)
  BY <1>4, <1>0, <1>p, <1>m, <1>h DEF MarkRollingBack
<1>5. CASE RollbackFailed(end)
  <2>1. leaked' \in BOOLEAN
    BY <1>5 DEF RollbackFailed, TypeOK
  <2> QED BY <1>5, <1>0, <1>p, <1>m, <2>1 DEF RollbackFailed
<1>6. CASE ReopenPlan(end)
  BY <1>6, <1>0, <1>p, <1>m, <1>h DEF ReopenPlan
<1>7. CASE MarkRolledBack(end)
  BY <1>7, <1>0, <1>p, <1>m, <1>h DEF MarkRolledBack
<1>8. CASE MarkCommitting(end)
  BY <1>8, <1>0, <1>p, <1>m, <1>h DEF MarkCommitting
<1>9. CASE MarkCommitted(end)
  BY <1>9, <1>0, <1>p, <1>m, <1>h DEF MarkCommitted
<1>10. CASE MarkRecovery(end)
  BY <1>10, <1>0, <1>p, <1>m, <1>h DEF MarkRecovery
<1>11. ASSUME NEW state \in {"CONFLICTED", "FAILED"}, Refuse(state, end) PROVE TypeOK'
  BY <1>11, <1>0, <1>p, <1>m, <1>h DEF Refuse
<1> QED BY <1>1, <1>2, <1>3, <1>4, <1>5, <1>6, <1>7, <1>8, <1>9, <1>10, <1>11

(* The steps that write the record otherwise. *)
LEMMA WriteType ==
  ASSUME TypeOK, NEW p \in Callers, NEW end \in Ends,
         \/ SavePreview(p, end) \/ RecordInvariants(p, end) \/ EditPlan(end) \/ DiscardPlan(end)
         \/ ResetProofs(end) \/ Expire(end)
  PROVE  TypeOK'
<1>0. /\ Canonical \in Callers /\ mem \in Records /\ disk \in Records /\ persistFaults \in Nat
      /\ call \in [Callers -> Calls] /\ call[p] \in Calls
  BY ConstantTypes DEF TypeOK
<1>p. {"idle", "unlease", "mark", "ready", "failed", "reopen"} \subseteq Pcs
  BY DEF Pcs, PreparePcs, CanonicalPcs
<1>1. CASE SavePreview(p, end)
  <2> DEFINE record == [mem EXCEPT !.state = "PREVIEWED", !.fresh = TRUE,
                      !.preview = [rev |-> call[p].rev, seen |-> call[p].seen, ok |-> call[p].ok]]
  <2>1. record \in Records
    BY <1>0 DEF Records, Previews, Calls, PlanStates
  <2>2. PICK pc \in Pcs : GotoOrReturn(p, pc)
    BY <1>1, <1>p DEF SavePreview
  <2>3. call' \in [Callers -> Calls]
    BY <1>0, <2>2, GotoType
  <2>4. mem' \in Records /\ disk' \in Records /\ persistFaults' \in Nat
    <3>1. CASE Previewable(call[p].rev)
      <4>1. Persist(record, end) /\ mem' = record
        BY <1>1, <3>1 DEF SavePreview
      <4> QED BY <1>0, <2>1, <4>1, PersistType
    <3>2. CASE ~Previewable(call[p].rev)
      BY <1>0, <1>1, <3>2 DEF SavePreview
    <3> QED BY <3>1, <3>2
  <2> QED BY <1>1, <2>3, <2>4 DEF TypeOK, SavePreview, history
<1>2. CASE RecordInvariants(p, end)
  <2>1. PICK pc \in Pcs : GotoOrReturn(p, pc)
    BY <1>2, <1>p DEF RecordInvariants, GotoOrReturn
  <2>2. disk' \in Records /\ persistFaults' \in Nat
    BY <1>0, <1>2, PersistType DEF RecordInvariants
  <2>3. call' \in [Callers -> Calls]
    BY <1>0, <2>1, GotoType
  <2> QED BY <1>2, <2>2, <2>3 DEF TypeOK, RecordInvariants, history
<1>3. CASE EditPlan(end)
  <2> DEFINE record == [mem EXCEPT !.state = "OPEN", !.rev = @ + 1, !.preview = None, !.prep = None, !.fresh = TRUE]
  <2>1. mem.rev < MaxRevision => record \in Records
    <3>1. mem.rev < MaxRevision => mem.rev + 1 \in Revisions
      BY <1>0, BoundsAssumption DEF Records, Revisions
    <3>2. ASSUME NEW rev \in Revisions, rev = mem.rev + 1 PROVE record \in Records
      <4>1. record = [mem EXCEPT !.state = "OPEN", !.rev = rev, !.preview = None, !.prep = None, !.fresh = TRUE]
        BY <3>2
      <4> QED BY <1>0, <4>1 DEF Records, PlanStates
    <3> QED BY <3>1, <3>2
  <2>2. GotoOrReturn(Canonical, "idle")
    BY <1>3 DEF EditPlan, GotoOrReturn
  <2>3. call' \in [Callers -> Calls]
    BY <1>0, <1>p, <2>2, GotoType
  <2>4. \/ Persist(record, end) /\ mem' = record /\ mem.rev < MaxRevision
        \/ UNCHANGED <<mem, disk, persistFaults>>
    BY <1>3 DEF EditPlan
  <2>5. mem' \in Records /\ disk' \in Records /\ persistFaults' \in Nat
    BY <1>0, <2>1, <2>4, PersistType
  <2> QED BY <1>3, <2>3, <2>5 DEF TypeOK, EditPlan, history
<1>4. CASE DiscardPlan(end)
  <2> DEFINE record == [mem EXCEPT !.state = "DISCARDED", !.fresh = TRUE]
  <2>1. record \in Records
    BY <1>0 DEF Records, PlanStates
  <2>2. GotoOrReturn(Canonical, "idle")
    BY <1>4 DEF DiscardPlan, GotoOrReturn
  <2>3. call' \in [Callers -> Calls]
    BY <1>0, <1>p, <2>2, GotoType
  <2>4. \/ Persist(record, end) /\ mem' = record
        \/ UNCHANGED <<mem, disk, persistFaults>>
    BY <1>4 DEF DiscardPlan
  <2>5. mem' \in Records /\ disk' \in Records /\ persistFaults' \in Nat
    BY <1>0, <2>1, <2>4, PersistType
  <2> QED BY <1>4, <2>3, <2>5 DEF TypeOK, DiscardPlan, history
<1>5. CASE ResetProofs(end)
  <2>1. PICK pc \in Pcs : GotoOrReturn(Canonical, pc)
    BY <1>5, <1>p DEF ResetProofs, GotoOrReturn
  <2>2. disk' \in Records /\ persistFaults' \in Nat
    BY <1>0, <1>5, PersistType DEF ResetProofs
  <2>3. call' \in [Callers -> Calls]
    BY <1>0, <2>1, GotoType
  <2>4. leaked' \in BOOLEAN
    BY <1>5 DEF ResetProofs, TypeOK
  <2> QED BY <1>5, <2>2, <2>3, <2>4 DEF TypeOK, ResetProofs
<1>6. CASE Expire(end)
  <2>1. Expired(mem) \in Records
    BY <1>0 DEF Expired, Records, PlanStates
  <2>2. mem' \in Records /\ disk' \in Records /\ persistFaults' \in Nat
    BY <1>0, <1>6, <2>1, PersistType DEF Expire
  <2>3. reaper' \in Reapers
    BY <1>6 DEF Expire, TypeOK, Reapers
  <2>4. overtaken' \in BOOLEAN
    BY <1>6 DEF Expire, TypeOK
  <2> QED BY <1>6, <2>2, <2>3, <2>4 DEF TypeOK, Expire
<1> QED BY <1>1, <1>2, <1>3, <1>4, <1>5, <1>6

(* The other steps of the canonical lane. *)
LEMMA CanonicalType ==
  ASSUME TypeOK, StagerInv, PreviewInv,
         \/ (\E ok \in BOOLEAN : RollbackStager(ok)) \/ ReleaseLease
         \/ CompareRecovered \/ (\E ok \in BOOLEAN : DropMismatch(ok))
         \/ (\E epochsAgree \in BOOLEAN : AdmitCommit(epochsAgree)) \/ RefuseAdmission
         \/ (\E journaled \in BOOLEAN : StageWriteSet(journaled)) \/ ApplyRefused
         \/ (\E ok \in BOOLEAN : ApplyJournal(ok)) \/ (\E ok \in BOOLEAN : FinishCommit(ok))
  PROVE  TypeOK'
<1>0. Canonical \in Callers /\ call \in [Callers -> Calls] /\ C \in Calls
  BY ConstantTypes DEF TypeOK, C
<1>p. {"idle", "rbfailed", "reset", "rolledback", "edit", "admit", "mismatch", "writeset", "committing", "refuse",
       "sealed", "recovery", "ended"} \subseteq Pcs
  BY DEF Pcs, PreparePcs, CanonicalPcs
<1>1. ASSUME NEW ok \in BOOLEAN, RollbackStager(ok) PROVE TypeOK'
  <2>1. PICK pc \in Pcs : GotoOrReturn(Canonical, pc)
    BY <1>1, <1>p DEF RollbackStager, GotoOrReturn
  <2>2. call' \in [Callers -> Calls]
    BY <1>0, <2>1, GotoType
  <2>3. stager' \in [Stagers -> StagerRecords] /\ releaseFaults' \in Nat
    BY <1>1, ReleaseType DEF RollbackStager
  <2> QED BY <1>1, <2>2, <2>3 DEF TypeOK, RollbackStager, history
<1>2. CASE ReleaseLease
  <2>1. PICK pc \in Pcs : GotoOrReturn(Canonical, pc)
    BY <1>2, <1>p DEF ReleaseLease, GotoOrReturn
  <2>2. call' \in [Callers -> Calls]
    BY <1>0, <2>1, GotoType
  <2> QED BY <1>2, <2>2 DEF TypeOK, ReleaseLease, bounds, history
<1>3. CASE CompareRecovered
  <2>1. PICK pc \in Pcs : call' = [call EXCEPT ![Canonical] = [C EXCEPT !.rev = C.want, !.pc = pc]]
    BY <1>0, <1>3, <1>p DEF CompareRecovered, C
  <2>2. [C EXCEPT !.rev = C.want, !.pc = pc] \in Calls
    BY <1>0 DEF Calls, Pcs
  <2> QED BY <1>0, <1>3, <2>1, <2>2 DEF TypeOK, CompareRecovered, bounds, history
<1>4. ASSUME NEW ok \in BOOLEAN, DropMismatch(ok) PROVE TypeOK'
  <2>1. GotoOrReturn(Canonical, "idle")
    BY <1>4 DEF DropMismatch, GotoOrReturn
  <2>2. call' \in [Callers -> Calls]
    BY <1>0, <1>p, <2>1, GotoType
  <2>3. stager' \in [Stagers -> StagerRecords] /\ releaseFaults' \in Nat
    BY <1>4, ReleaseType DEF DropMismatch
  <2> QED BY <1>4, <2>2, <2>3 DEF TypeOK, DropMismatch, history
<1>5. ASSUME NEW epochsAgree \in BOOLEAN, AdmitCommit(epochsAgree) PROVE TypeOK'
  <2>1. CASE GotoOrReturn(Canonical, "idle")
    <3>1. call' \in [Callers -> Calls]
      BY <1>0, <1>p, <2>1, GotoType
    <3> QED BY <1>5, <3>1 DEF TypeOK, AdmitCommit, bounds, history
  <2>2. CASE /\ call' = [call EXCEPT ![Canonical].pc = "writeset", ![Canonical].seen = mem.preview.seen]
             /\ mem.state \in Prepared
    <3>1. mem.preview.seen \in Canons
      BY <2>2 DEF TypeOK, Records, Previews, PreviewInv
    <3>2. PICK seen \in Canons : seen = mem.preview.seen
      BY <3>1
    <3>3. call' = [call EXCEPT ![Canonical] = [C EXCEPT !.pc = "writeset", !.seen = seen]]
      BY <1>0, <2>2, <3>2 DEF C
    <3>4. [C EXCEPT !.pc = "writeset", !.seen = seen] \in Calls
      BY <1>0 DEF Calls, CanonicalPcs
    <3> QED BY <1>0, <1>5, <3>3, <3>4 DEF TypeOK, AdmitCommit, bounds, history
  <2> QED BY <1>5, <2>1, <2>2 DEF AdmitCommit, GotoOrReturn
<1>6. CASE RefuseAdmission
  <2>1. GotoOrReturn(Canonical, "idle")
    BY <1>6 DEF RefuseAdmission, GotoOrReturn
  <2>2. call' \in [Callers -> Calls]
    BY <1>0, <1>p, <2>1, GotoType
  <2> QED BY <1>6, <2>2 DEF TypeOK, RefuseAdmission, bounds, history
<1>7. ASSUME NEW journaled \in BOOLEAN, StageWriteSet(journaled) PROVE TypeOK'
  <2>1. PICK pc \in Pcs, right \in BOOLEAN : call' = [call EXCEPT ![Canonical] = [C EXCEPT !.pc = pc, !.ok = right]]
    <3>1. PICK pc \in Pcs : pc = IF canon = C.seen /\ journaled THEN "committing" ELSE "refuse"
      BY <1>p
    <3>2. PICK right \in BOOLEAN : right = (WriteSet.rev = C.tok.rev /\ WriteSet.seen = C.tok.seen)
      OBVIOUS
    <3>3. call' = [call EXCEPT ![Canonical] = [C EXCEPT !.pc = pc, !.ok = right]]
      BY <1>0, <1>7, <3>1, <3>2 DEF StageWriteSet, C
    <3> QED BY <3>3
  <2>2. [C EXCEPT !.pc = pc, !.ok = right] \in Calls
    BY <1>0 DEF Calls, Pcs
  <2> QED BY <1>0, <1>7, <2>1, <2>2 DEF TypeOK, StageWriteSet, bounds, history
<1>8. CASE ApplyRefused
  <2>1. GotoOrReturn(Canonical, "refuse")
    BY <1>8 DEF ApplyRefused, GotoOrReturn
  <2>2. call' \in [Callers -> Calls]
    BY <1>0, <1>p, <2>1, GotoType
  <2> QED BY <1>8, <2>2 DEF TypeOK, ApplyRefused, bounds, history
<1>9. ASSUME NEW ok \in BOOLEAN, ApplyJournal(ok) PROVE TypeOK'
  <2>1. PICK pc \in Pcs : GotoOrReturn(Canonical, pc)
    BY <1>9, <1>p DEF ApplyJournal, GotoOrReturn
  <2>2. call' \in [Callers -> Calls]
    BY <1>0, <2>1, GotoType
  <2>3. stager' \in [Stagers -> StagerRecords] /\ releaseFaults' \in Nat
    BY <1>9, ReleaseType DEF ApplyJournal
  <2>4. canon' \in Canons
    BY <1>9, BoundsAssumption DEF ApplyJournal, TypeOK, Canons
  <2> QED BY <1>9, <2>2, <2>3, <2>4 DEF TypeOK, ApplyJournal
<1>10. ASSUME NEW ok \in BOOLEAN, FinishCommit(ok) PROVE TypeOK'
  <2>1. GotoOrReturn(Canonical, "ended")
    BY <1>10 DEF FinishCommit, GotoOrReturn
  <2>2. call' \in [Callers -> Calls]
    BY <1>0, <1>p, <2>1, GotoType
  <2>3. stager' \in [Stagers -> StagerRecords] /\ releaseFaults' \in Nat
    BY <1>10, ReleaseType DEF FinishCommit
  <2> QED BY <1>10, <2>2, <2>3 DEF TypeOK, FinishCommit, history
<1> QED BY <1>1, <1>2, <1>3, <1>4, <1>5, <1>6, <1>7, <1>8, <1>9, <1>10

(* The starts of calls. *)
LEMMA StartType ==
  ASSUME TypeOK, changePlan
  PROVE  TypeOK'
<1>0. /\ Canonical \in Callers /\ call \in [Callers -> Calls] /\ mem.rev \in Revisions /\ canon \in Canons
      /\ slot \in Stagers \cup {None} /\ stager \in [Stagers -> StagerRecords]
  BY ConstantTypes DEF TypeOK, Records
<1>2. \A s : Touch(s) \/ UNCHANGED stager => stager' \in [Stagers -> StagerRecords]
  <2>1. \A s \in Stagers : [stager[s] EXCEPT !.used = "now"] \in StagerRecords
    BY <1>0 DEF StagerRecords
  <2> QED BY <1>0, <2>1 DEF Touch
<1>3. {"idle", "lookup", "save", "rolling", "edit", "discard", "admit"} \subseteq Pcs /\ 1 \in Revisions /\ 0 \in Canons
      /\ None \in MaybeToken /\ Tokens \subseteq MaybeToken
  BY ConstantTypes DEF Pcs, PreparePcs, CanonicalPcs, MaybeToken
<1>4. ASSUME NEW op \in {"edit", "discard"}, NEW pc \in {"rolling", "edit", "discard"}, NEW st \in Stagers \cup {None},
             Start(op, mem.rev, pc, st)
      PROVE  call' \in [Callers -> Calls]
  <2>1. [NoCall EXCEPT !.op = op, !.rev = mem.rev, !.want = mem.rev, !.pc = pc, !.st = st] \in Calls
    BY <1>0, NoCallType DEF Calls, PreparePcs, CanonicalPcs, MaybeToken
  <2> QED BY <1>0, <1>4, <2>1 DEF Start
<1>5. ASSUME NEW p \in Preparers, NEW rev \in Revisions, StartPrepare(p, rev) PROVE TypeOK'
  <2>1. [NoCall EXCEPT !.pc = "lookup", !.rev = rev] \in Calls
    BY <1>0, NoCallType DEF Calls, PreparePcs, CanonicalPcs, MaybeToken
  <2> QED BY <1>0, <1>5, <2>1 DEF TypeOK, StartPrepare, bounds, history
<1>6. ASSUME NEW ok \in BOOLEAN, StartPreview(ok) PROVE TypeOK'
  <2>1. [NoCall EXCEPT !.op = "preview", !.rev = mem.rev, !.pc = "save", !.seen = canon, !.ok = ok] \in Calls
    BY <1>0, NoCallType DEF Calls, PreparePcs, CanonicalPcs, MaybeToken
  <2> QED BY <1>0, <1>6, <2>1 DEF TypeOK, StartPreview, bounds, history
<1>7. CASE StartEdit
  <2>1. Found(mem.rev) \in Stagers \cup {None}
    BY <1>0 DEF Found
  <2>2. call' \in [Callers -> Calls]
    BY <1>4, <1>7, <2>1 DEF StartEdit
  <2>3. stager' \in [Stagers -> StagerRecords]
    BY <1>2, <1>7 DEF StartEdit, TouchFound
  <2> QED BY <1>7, <2>2, <2>3 DEF TypeOK, StartEdit, bounds, history
<1>8. CASE StartDiscard
  <2>2. call' \in [Callers -> Calls]
    BY <1>0, <1>4, <1>8 DEF StartDiscard
  <2>3. stager' \in [Stagers -> StagerRecords]
    BY <1>2, <1>8 DEF StartDiscard
  <2> QED BY <1>8, <2>2, <2>3 DEF TypeOK, StartDiscard, bounds, history
<1>9. ASSUME NEW rev \in Revisions, NEW tok \in Tokens, StartApply(rev, tok) PROVE TypeOK'
  <2>1. [NoCall EXCEPT !.op = "apply", !.rev = rev, !.want = rev, !.pc = "admit", !.st = slot, !.tok = tok] \in Calls
    BY <1>0, NoCallType DEF Calls, PreparePcs, CanonicalPcs, MaybeToken
  <2>2. [NoCall EXCEPT !.op = "apply", !.rev = mem.rev, !.want = rev, !.pc = "lookup", !.tok = tok] \in Calls
    BY <1>0, NoCallType DEF Calls, PreparePcs, CanonicalPcs, MaybeToken
  <2>3. call' \in [Callers -> Calls]
    BY <1>0, <1>9, <2>1, <2>2 DEF StartApply
  <2>4. stager' \in [Stagers -> StagerRecords]
    BY <1>2, <1>9 DEF StartApply
  <2> QED BY <1>9, <2>3, <2>4 DEF TypeOK, StartApply, bounds, history
<1> QED BY <1>5, <1>6, <1>7, <1>8, <1>9 DEF changePlan

(* The sweep and the surroundings. *)
LEMMA OutsideType ==
  ASSUME TypeOK,
         \/ Sweep \/ SweepUnlease \/ DropUnneeded \/ (\E ok \in BOOLEAN : DropStager(ok))
         \/ Minute \/ Hour \/ Retention \/ Restart \/ ExternalEdit \/ UNCHANGED vars
  PROVE  TypeOK'
<1>0. /\ mem \in Records /\ disk \in Records /\ slot \in Stagers \cup {None} /\ reaper \in Reapers
      /\ stager \in [Stagers -> StagerRecords] /\ 1 \in Revisions
  BY ConstantTypes DEF TypeOK
<1>1. CASE Sweep
  <2>1. slot # None => stager[slot].used \in {"now", "recent", "old"}
    BY <1>0 DEF StagerRecords
  <2>2. reaper' \in Reapers
    BY <1>0, <1>1, <2>1 DEF Sweep, Reapers
  <2> QED BY <1>1, <2>2 DEF TypeOK, Sweep, bounds, history
<1>2. CASE SweepUnlease
  <2>1. reaper' \in Reapers
    BY <1>0, <1>2 DEF SweepUnlease, Reapers
  <2> QED BY <1>2, <2>1 DEF TypeOK, SweepUnlease, bounds
<1>3. CASE DropUnneeded
  <2>1. reaper' \in Reapers
    BY <1>0, <1>3 DEF DropUnneeded, Reapers, NoReaper
  <2> QED BY <1>3, <2>1 DEF TypeOK, DropUnneeded, bounds, history
<1>4. ASSUME NEW ok \in BOOLEAN, DropStager(ok) PROVE TypeOK'
  <2>1. reaper' \in Reapers /\ slot' \in Stagers \cup {None}
    BY <1>0, <1>4 DEF DropStager, Reapers, NoReaper
  <2>2. stager' \in [Stagers -> StagerRecords] /\ releaseFaults' \in Nat
    BY <1>4, ReleaseType DEF DropStager
  <2> QED BY <1>4, <2>1, <2>2 DEF TypeOK, DropStager, history
<1>5. CASE Minute
  <2>1. [stager[slot] EXCEPT !.used = "recent"] \in StagerRecords
    BY <1>0, <1>5 DEF Minute, StagerRecords
  <2>2. stager' \in [Stagers -> StagerRecords]
    BY <1>0, <1>5, <2>1 DEF Minute
  <2> QED BY <1>5, <2>2 DEF TypeOK, Minute, bounds, history
<1>6. CASE Hour
  <2>1. \A s \in Stagers : [stager[s] EXCEPT !.used = "old"] \in StagerRecords
    BY <1>0 DEF StagerRecords
  <2>2. stager' \in [Stagers -> StagerRecords]
    BY <1>0, <1>6, <2>1 DEF Hour
  <2>3. mem' \in Records /\ disk' \in Records
    BY <1>0, <1>6 DEF Hour, Records
  <2> QED BY <1>6, <2>2, <2>3 DEF TypeOK, Hour, bounds, history
<1>7. CASE Retention
  <2>1. Compacted(mem) \in Records /\ [NewPlan EXCEPT !.state = "GONE"] \in Records
    BY <1>0 DEF Compacted, NewPlan, Records, PlanStates
  <2> QED BY <1>7, <2>1 DEF TypeOK, Retention, bounds, history
<1>8. CASE Restart
  <2>1. PICK state \in LoadedStates(disk) : mem' = Loaded(disk, state) /\ disk' = mem'
    BY <1>8 DEF Restart
  <2>2. state \in PlanStates
    BY <1>0, <2>1 DEF LoadedStates, PlanStates, Records
  <2> DEFINE open == [disk EXCEPT !.state = state,
                        !.prep = IF disk.state \in {"PREPARING", "ROLLING_BACK"} THEN None ELSE @,
                        !.restored = @ \/ disk.state \in Prepared]
  <2>3. open \in Records
    <3>1. PICK prep \in MaybeToken : prep = IF disk.state \in {"PREPARING", "ROLLING_BACK"} THEN None ELSE disk.prep
      BY <1>0 DEF Records, MaybeToken
    <3>2. PICK restored \in BOOLEAN : restored = (disk.restored \/ disk.state \in Prepared)
      OBVIOUS
    <3>3. open = [disk EXCEPT !.state = state, !.prep = prep, !.restored = restored]
      BY <1>0, <3>1, <3>2
    <3> QED BY <1>0, <2>2, <3>3 DEF Records, MaybeToken
  <2>4. Expired(open) \in Records
    BY <2>3 DEF Expired, Records, PlanStates
  <2>5. Loaded(disk, state) \in {open, Expired(open)}
    BY DEF Loaded
  <2>6. stager' \in [Stagers -> StagerRecords] /\ call' \in [Callers -> Calls]
    BY <1>0, <1>8, FreshType, NoCallType DEF Restart
  <2>7. NoReaper \in Reapers
    BY DEF NoReaper, Reapers
  <2> HIDE DEF open
  <2>8. canon' \in Canons /\ persistFaults' \in Nat /\ releaseFaults' \in Nat
    BY <1>8 DEF TypeOK, Restart, bounds
  <2> QED BY <1>8, <2>1, <2>3, <2>4, <2>5, <2>6, <2>7, <2>8 DEF TypeOK, Restart
<1>9. CASE ExternalEdit
  <2>1. canon' \in Canons
    BY <1>9, BoundsAssumption DEF ExternalEdit, TypeOK, Canons
  <2> QED BY <1>9, <2>1 DEF TypeOK, ExternalEdit, bounds, history
<1>10. CASE UNCHANGED vars
  BY <1>10 DEF TypeOK, vars, bounds, history
<1> QED BY <1>1, <1>2, <1>3, <1>4, <1>5, <1>6, <1>7, <1>8, <1>9, <1>10

LEMMA InitType == Init => TypeOK
<1>1. NewPlan \in Records /\ NoReaper \in Reapers
  BY ConstantTypes DEF NewPlan, NoReaper, Records, Reapers, PlanStates
<1>2. Init => stager \in [Stagers -> StagerRecords] /\ call \in [Callers -> Calls]
  BY ConstantTypes, FreshType, NoCallType DEF Init
<1>3. Init => mem \in Records /\ disk \in Records /\ reaper \in Reapers /\ canon \in Canons
  BY <1>1, ConstantTypes DEF Init
<1>4. Init => persistFaults \in Nat /\ releaseFaults \in Nat
  BY DEF Init
<1>5. Init => /\ lease \in BOOLEAN /\ slot \in Stagers \cup {None}
              /\ committed \in {"none", "prepared", "other"} /\ leaked \in BOOLEAN /\ overtaken \in BOOLEAN /\ displaced \in BOOLEAN
  BY DEF Init
<1> QED BY <1>2, <1>3, <1>4, <1>5 DEF TypeOK

LEMMA TypeStep ==
  ASSUME TypeOK, StagerInv, PreviewInv, [Next]_vars
  PROVE  TypeOK'
<1>1. ASSUME NEW p \in Callers, Prepare(p) PROVE TypeOK'
  BY <1>1, PrepareType, RecordType, WriteType DEF Prepare
<1>2. ASSUME RollBack PROVE TypeOK'
  BY <1>2, ConstantTypes, CanonicalType, RecordType, WriteType DEF RollBack
<1>3. ASSUME Apply PROVE TypeOK'
  BY <1>3, ConstantTypes, CanonicalType, RecordType DEF Apply
<1>4. ASSUME ExpireIdle PROVE TypeOK'
  BY <1>4, ConstantTypes, OutsideType, WriteType DEF ExpireIdle
<1> QED BY <1>1, <1>2, <1>3, <1>4, StartType, OutsideType DEF Next

-----------------------------------------------------------------------------
(* What a step does to the parts the invariant reads. *)

(* planTransitions, read backwards. *)
LEMMA Sources ==
  ASSUME TypeOK
  PROVE  /\ CanTransition(mem.state, "PREPARING") <=> mem.state \in {"OPEN", "PREVIEWED", "CONFLICTED", "FAILED", "EXPIRED"}
         /\ \A state \in Prepared : CanTransition(mem.state, state) <=> mem.state = "PREPARING"
         /\ CanTransition(mem.state, "FAILED") <=> mem.state \in Prepared \cup {"PREPARING", "COMMITTING", "ROLLING_BACK"}
         /\ CanTransition(mem.state, "CONFLICTED") <=> mem.state \in Prepared \cup {"PREPARING", "COMMITTING"}
         /\ CanTransition(mem.state, "ROLLING_BACK") <=> mem.state \in Prepared \cup {"CONFLICTED", "FAILED"}
         /\ CanTransition(mem.state, "OPEN") <=>
              mem.state \in {"OPEN", "PREVIEWED", "CONFLICTED", "FAILED", "ROLLING_BACK", "EXPIRED"}
         /\ CanTransition(mem.state, "ROLLED_BACK") <=> mem.state \in {"ROLLING_BACK", "RECOVERY_REQUIRED"}
         /\ CanTransition(mem.state, "COMMITTING") <=> mem.state \in Prepared
         /\ CanTransition(mem.state, "COMMITTED") <=> mem.state \in {"COMMITTING", "RECOVERY_REQUIRED"}
         /\ CanTransition(mem.state, "RECOVERY_REQUIRED") <=> mem.state = "COMMITTING"
         /\ CanTransition(mem.state, "DISCARDED") <=>
              mem.state \in {"OPEN", "PREVIEWED", "CONFLICTED", "FAILED", "EXPIRED"}
<1>1. PICK s \in PlanStates : s = mem.state
  BY DEF TypeOK, Records
<1> QED BY <1>1 DEF CanTransition, PlanTransitions, PlanStates, Prepared

(* Call p goes on at pc with what it has, and no other call moves. *)
OthersStay(p) == \A q \in Callers : q # p => call'[q] = call[q]
MovesTo(p, pc) ==
  /\ call'[p].pc = pc
  /\ pc # "idle" => call'[p].op = call[p].op /\ call'[p].rev = call[p].rev /\ call'[p].st = call[p].st
  /\ OthersStay(p)

LEMMA GotoMoves ==
  ASSUME TypeOK, NEW p \in Callers, NEW pc, GotoOrReturn(p, pc)
  PROVE  MovesTo(p, pc)
<1>1. DOMAIN call = Callers /\ DOMAIN call[p] = {"pc", "op", "rev", "want", "st", "tok", "seen", "ok"}
  BY DEF TypeOK, Calls
<1>2. CASE pc = "idle"
  BY <1>1, <1>2 DEF GotoOrReturn, Return, NoCall, MovesTo, OthersStay
<1>3. CASE pc # "idle"
  BY <1>1, <1>3 DEF GotoOrReturn, Goto, MovesTo, OthersStay
<1> QED BY <1>2, <1>3

(* A transition is made in memory and on disk, or memory stays. *)
Transits(p, rev, state, good, bad) ==
  \/ /\ MayMove(rev, state) /\ MovesTo(p, good)
     /\ mem'.state = state /\ mem'.rev = mem.rev /\ mem'.preview = mem.preview /\ mem'.compacted = mem.compacted
     /\ disk' = mem' /\ persistFaults' = persistFaults
  \/ /\ mem' = mem /\ MovesTo(p, bad)
     /\ disk' = disk \/ (MayMove(rev, state) /\ disk'.state = state /\ disk'.compacted = mem.compacted)
     /\ persistFaults' # 0 \/ (~MayMove(rev, state) /\ persistFaults' = persistFaults)

LEMMA TransitionMoves ==
  ASSUME TypeOK, NEW p \in Callers, NEW rev, NEW state, NEW prep, NEW end, NEW good, NEW bad,
         TransitionPlan(p, rev, state, prep, end, good, bad)
  PROVE  Transits(p, rev, state, good, bad)
<1> DEFINE record == Moved(p, state, prep)
<1>1. DOMAIN mem = {"state", "rev", "preview", "prep", "restored", "compacted", "fresh"} /\ persistFaults \in Nat
  BY DEF TypeOK, Records
<1>2. /\ record.state = state /\ record.rev = mem.rev /\ record.preview = mem.preview
      /\ record.compacted = mem.compacted
  BY <1>1 DEF Moved
<1> HIDE DEF record
<1>3. CASE MayMove(rev, state) /\ end = "ok"
  <2>1. /\ persistFaults' = persistFaults /\ disk' = record /\ mem' = record
        /\ GotoOrReturn(p, good)
    BY <1>3 DEF TransitionPlan, Persist, record
  <2> QED BY <1>2, <1>3, <2>1, GotoMoves DEF Transits
<1>4. CASE MayMove(rev, state) /\ end # "ok"
  <2>1. /\ persistFaults' = persistFaults + 1 /\ disk' \in {disk, record} /\ mem' = mem
        /\ GotoOrReturn(p, bad)
    BY <1>4 DEF TransitionPlan, Persist, record
  <2>2. persistFaults' # 0
    BY <1>1, <2>1
  <2> QED BY <1>2, <1>4, <2>1, <2>2, GotoMoves DEF Transits
<1>5. CASE ~MayMove(rev, state)
  BY <1>5, GotoMoves DEF TransitionPlan, Transits
<1> QED BY <1>3, <1>4, <1>5

(* The parts of IInv that depend on what happened. *)
KnownInv == ~overtaken => StagingInv /\ RollingInv /\ ApplyingInv
HolderInv == ~overtaken /\ persistFaults = 0 => LeaseInv

LEMMA Parts ==
  /\ IInv => StagerInv /\ PreviewInv /\ CompactInv /\ KnownInv /\ HolderInv /\ LeaseOwned /\ OperationOwned
  /\ StagerInv' /\ PreviewInv' /\ CompactInv' /\ KnownInv' /\ HolderInv' /\ LeaseOwned' /\ OperationOwned' => IInv'
BY DEF IInv, KnownInv, HolderInv

LEMMA Shapes ==
  ASSUME TypeOK
  PROVE  /\ Canonical \in Callers /\ mem.state \in PlanStates /\ mem.rev \in Nat /\ persistFaults \in Nat
         /\ DOMAIN call = Callers /\ (\A p \in Callers : call[p].rev \in Nat)
         /\ \A p \in Callers : DOMAIN call[p] = {"pc", "op", "rev", "want", "st", "tok", "seen", "ok"}
         /\ \A record \in {mem, disk} :
              DOMAIN record = {"state", "rev", "preview", "prep", "restored", "compacted", "fresh"}
         /\ DOMAIN reaper = {"pc", "snap", "used", "expired"}
BY ConstantTypes DEF TypeOK, Calls, Records, Revisions, Reapers

(* Nothing the invariant reads moves but the call. *)
ReaperStays == reaper.pc = "unlease" => reaper'.pc = "unlease"
Kept == UNCHANGED <<lease, overtaken, leaked>> /\ ReaperStays
Same == UNCHANGED <<mem, disk, persistFaults>> /\ Kept
SameButLease == UNCHANGED <<mem, disk, persistFaults, overtaken, leaked>> /\ ReaperStays

LEMMA StartMoves ==
  ASSUME TypeOK, NEW op, NEW rev, NEW pc, NEW st, Start(op, rev, pc, st)
  PROVE  OthersStay(Canonical) /\ C'.pc = pc /\ C'.op = op /\ C'.st = st
BY Shapes DEF Start, NoCall, OthersStay, C

(* A prepare finds its stager, and takes and returns the lease. *)
LEMMA PrepareLookup ==
  ASSUME TypeOK, IInv, NEW p \in Callers,
         \/ LookupStager(p) \/ (\E ok \in BOOLEAN : EvictStager(p, ok)) \/ (\E s \in Stagers : CreateStager(p, s))
         \/ AcquirePrepareLease(p) \/ (\E ok \in BOOLEAN : PreviewedPlan(p, ok)) \/ ReleasePrepareLease(p)
  PROVE  IInv'
<1> USE DEF C, Holds, NoHolder, HasStager, Staging, RollingBack, Final, Prepared, Terminal,
            MovesTo, OthersStay, Transits, MayMove, ReaperStays, Kept, Same, SameButLease, At
<1>1. StagerInv /\ PreviewInv /\ CompactInv /\ KnownInv /\ HolderInv /\ LeaseOwned /\ OperationOwned
  BY Parts
<1>2. ASSUME LookupStager(p) PROVE IInv'
  <2>1. /\ Same /\ OthersStay(p) /\ call[p].pc = "lookup" /\ call'[p].op = call[p].op
        /\ call'[p].pc = "create" \/ (call'[p].pc \in {"lease", "evict"} /\ call'[p].st # None)
    BY <1>2, Shapes DEF LookupStager, Goto, bounds, history
  <2>2. StagerInv' /\ PreviewInv' /\ CompactInv'
    BY <1>1, <2>1, Shapes, Sources DEF StagerInv, PreviewInv, CompactInv
  <2>3. KnownInv' /\ HolderInv'
    BY <1>1, <2>1, Shapes, Sources DEF KnownInv, StagingInv, RollingInv, ApplyingInv, HolderInv, LeaseInv,
       CompactInv, PreviewInv
  <2>4. LeaseOwned' /\ OperationOwned'
    BY <1>1, <2>1, Shapes, Sources DEF LeaseOwned, Admitted, PreviewInv, OperationOwned, CompactInv
  <2> QED BY Parts, <2>2, <2>3, <2>4
<1>3. ASSUME NEW ok \in BOOLEAN, EvictStager(p, ok) PROVE IInv'
  <2>1. Same /\ OthersStay(p) /\ call[p].pc = "evict" /\ call'[p].pc = "create" /\ call'[p].op = call[p].op
    BY <1>3, Shapes DEF EvictStager, history
  <2>2. StagerInv' /\ PreviewInv' /\ CompactInv'
    BY <1>1, <2>1, Shapes DEF StagerInv, PreviewInv, CompactInv
  <2>3. KnownInv' /\ HolderInv'
    BY <1>1, <2>1, Shapes DEF KnownInv, StagingInv, RollingInv, ApplyingInv, HolderInv, LeaseInv,
       CompactInv, PreviewInv
  <2>4. LeaseOwned' /\ OperationOwned'
    BY <1>1, <2>1, Shapes DEF LeaseOwned, Admitted, PreviewInv, OperationOwned, CompactInv
  <2> QED BY Parts, <2>2, <2>3, <2>4
<1>4. ASSUME NEW s \in Stagers, CreateStager(p, s) PROVE IInv'
  <2>1. Same /\ OthersStay(p) /\ call[p].pc = "create" /\ call'[p].pc = "lease" /\ call'[p].st # None
        /\ call'[p].op = call[p].op
    BY <1>4, Shapes, NoneAssumption DEF CreateStager, bounds, history
  <2>2. StagerInv' /\ PreviewInv' /\ CompactInv'
    BY <1>1, <2>1, Shapes DEF StagerInv, PreviewInv, CompactInv
  <2>3. KnownInv' /\ HolderInv'
    BY <1>1, <2>1, Shapes DEF KnownInv, StagingInv, RollingInv, ApplyingInv, HolderInv, LeaseInv,
       CompactInv, PreviewInv
  <2>4. LeaseOwned' /\ OperationOwned'
    BY <1>1, <2>1, Shapes DEF LeaseOwned, Admitted, PreviewInv, OperationOwned, CompactInv
  <2> QED BY Parts, <2>2, <2>3, <2>4
<1>5. ASSUME AcquirePrepareLease(p) PROVE IInv'
  <2>1. /\ SameButLease /\ call[p].pc = "lease"
        /\ \/ lease /\ lease' = lease /\ (MovesTo(p, "idle") \/ MovesTo(p, "compare"))
           \/ ~lease /\ lease' /\ MovesTo(p, "preview")
    BY <1>5, Shapes, GotoMoves DEF AcquirePrepareLease, PreparedPc, GotoOrReturn, bounds, history
  <2>2. StagerInv' /\ PreviewInv' /\ CompactInv'
    BY <1>1, <2>1, Shapes, Sources DEF StagerInv, PreviewInv, CompactInv
  <2>3. KnownInv' /\ HolderInv'
    BY <1>1, <2>1, Shapes, Sources DEF KnownInv, StagingInv, RollingInv, ApplyingInv, HolderInv, LeaseInv,
       CompactInv, PreviewInv
  <2>4. OperationOwned'
    BY <1>1, <2>1, Shapes, Sources DEF OperationOwned, CompactInv
  <2>5. LeaseOwned'
    <3>1. ASSUME NEW q \in Callers, Holds(q), lease PROVE Holds(q)'
      BY <2>1, <3>1, Shapes
    <3>2. ASSUME ~lease PROVE Holds(p)'
      BY <2>1, <3>2, <1>1, Shapes DEF PreviewInv
    <3>3. C.pc \in RollingBack \cup Admitted \cup {"editable"} => C'.pc = C.pc
      BY <2>1, Shapes DEF Admitted
    <3> QED BY <1>1, <2>1, <3>1, <3>2, <3>3 DEF LeaseOwned
  <2> QED BY Parts, <2>2, <2>3, <2>4, <2>5
<1>6. ASSUME NEW ok \in BOOLEAN, PreviewedPlan(p, ok) PROVE IInv'
  <2>1. /\ Same /\ call[p].pc = "preview"
        /\ \/ MovesTo(p, "save") \/ MovesTo(p, "unlease")
           \/ MovesTo(p, "mark") /\ mem.rev = call[p].rev /\ mem.preview # None
    BY <1>6, Shapes, GotoMoves DEF PreviewedPlan, CurrentPreview, Goto, bounds, history
  <2>2. StagerInv' /\ PreviewInv' /\ CompactInv'
    BY <1>1, <2>1, Shapes, Sources DEF StagerInv, PreviewInv, CompactInv
  <2>3. KnownInv' /\ HolderInv'
    BY <1>1, <2>1, Shapes, Sources DEF KnownInv, StagingInv, RollingInv, ApplyingInv, HolderInv, LeaseInv,
       CompactInv, PreviewInv
  <2>4. LeaseOwned' /\ OperationOwned'
    BY <1>1, <2>1, Shapes, Sources DEF LeaseOwned, Admitted, PreviewInv, OperationOwned, CompactInv
  <2> QED BY Parts, <2>2, <2>3, <2>4
<1>7. ASSUME ReleasePrepareLease(p) PROVE IInv'
  <2>1. SameButLease /\ call[p].pc = "unlease" /\ ~lease' /\ MovesTo(p, "idle")
    BY <1>7, Shapes, GotoMoves DEF ReleasePrepareLease, GotoOrReturn, bounds, history
  <2>2. StagerInv' /\ PreviewInv' /\ CompactInv'
    BY <1>1, <2>1, Shapes DEF StagerInv, PreviewInv, CompactInv
  <2>3. KnownInv' /\ HolderInv'
    BY <1>1, <2>1, Shapes DEF KnownInv, StagingInv, RollingInv, ApplyingInv, HolderInv, LeaseInv,
       CompactInv, PreviewInv
  <2>4. LeaseOwned' /\ OperationOwned'
    BY <1>1, <2>1, Shapes DEF LeaseOwned, Admitted, PreviewInv, OperationOwned, CompactInv
  <2> QED BY Parts, <2>2, <2>3, <2>4
<1> QED BY <1>2, <1>3, <1>4, <1>5, <1>6, <1>7

(* A prepare stages, undoes its staging, and records the outcome. *)
LEMMA PrepareStage ==
  ASSUME TypeOK, IInv, NEW p \in Callers, NEW end \in Ends,
         \/ SavePreview(p, end) \/ MarkPreparing(p, end) \/ StageRequest(p) \/ StageBegin(p)
         \/ (\E variant \in Variants : StageEnd(p, variant)) \/ RecordInvariants(p, end) \/ NoInvariants(p)
         \/ (\E state \in Verdicts : MarkPrepared(p, state, end)) \/ (\E ok \in BOOLEAN : UndoStage(p, ok))
         \/ MarkFailed(p, end)
  PROVE  IInv'
<1> USE DEF C, Holds, NoHolder, HasStager, Staging, RollingBack, Final, Prepared, Terminal,
            MovesTo, OthersStay, Transits, MayMove, ReaperStays, Kept, Same, SameButLease, At
<1>1. StagerInv /\ PreviewInv /\ CompactInv /\ KnownInv /\ HolderInv /\ LeaseOwned /\ OperationOwned
  BY Parts
<1>2. ASSUME SavePreview(p, end) PROVE IInv'
  <2>1. /\ call[p].pc = "save" /\ Kept
        /\ \/ MovesTo(p, "mark") /\ call[p].op # "preview" /\ mem.rev = call[p].rev /\ mem'.preview # None
           \/ MovesTo(p, "unlease") /\ call[p].op # "preview"
           \/ MovesTo(p, "idle") /\ call[p].op = "preview"
        /\ \/ UNCHANGED <<mem, disk, persistFaults>>
           \/ /\ mem.state \in {"OPEN", "PREVIEWED"} /\ mem'.state = "PREVIEWED" /\ mem'.rev = mem.rev
              /\ mem'.preview # None /\ mem'.compacted = mem.compacted /\ disk' \in {disk, mem'}
              /\ (persistFaults' = persistFaults \/ persistFaults' # 0)
    <3> DEFINE record == [mem EXCEPT !.state = "PREVIEWED", !.fresh = TRUE,
                          !.preview = [rev |-> call[p].rev, seen |-> call[p].seen, ok |-> call[p].ok]]
    <3>1. record.state = "PREVIEWED" /\ record.rev = mem.rev /\ record.compacted = mem.compacted
      BY Shapes
    <3>2. record.preview # None
      <4>1. [rev |-> call[p].rev, seen |-> call[p].seen, ok |-> call[p].ok] \in Previews
        BY DEF TypeOK, Calls, Previews
      <4>2. record.preview = [rev |-> call[p].rev, seen |-> call[p].seen, ok |-> call[p].ok]
        BY Shapes
      <4> QED BY <4>1, <4>2, NoneAssumption
    <3>3. CASE Previewable(call[p].rev)
      <4>1. Persist(record, end) /\ mem' = record
        BY <1>2, <3>3 DEF SavePreview
      <4>2. \/ GotoOrReturn(p, "mark") /\ call[p].op # "preview"
            \/ GotoOrReturn(p, "unlease") /\ call[p].op # "preview"
            \/ GotoOrReturn(p, "idle") /\ call[p].op = "preview"
        BY <1>2, <3>3 DEF SavePreview
      <4>3. disk' \in {disk, record} /\ (persistFaults' = persistFaults \/ persistFaults' # 0)
        BY <4>1, Shapes DEF Persist
      <4> HIDE DEF record
      <4> QED BY <1>2, <3>1, <3>2, <3>3, <4>1, <4>2, <4>3, GotoMoves DEF SavePreview, Previewable, history
    <3>4. CASE ~Previewable(call[p].rev)
      BY <1>2, <3>4, GotoMoves DEF SavePreview, history
    <3> QED BY <3>3, <3>4
  <2>2. StagerInv' /\ PreviewInv' /\ CompactInv'
    BY <1>1, <2>1, Shapes, Sources DEF StagerInv, PreviewInv, CompactInv
  <2>3. KnownInv' /\ HolderInv'
    BY <1>1, <2>1, Shapes, Sources DEF KnownInv, StagingInv, RollingInv, ApplyingInv, HolderInv, LeaseInv,
       CompactInv, PreviewInv
  <2>4. LeaseOwned' /\ OperationOwned'
    BY <1>1, <2>1, Shapes, Sources DEF LeaseOwned, Admitted, PreviewInv, OperationOwned, CompactInv
  <2> QED BY Parts, <2>2, <2>3, <2>4
<1>3. ASSUME MarkPreparing(p, end) PROVE IInv'
  <2>1. /\ call[p].pc = "mark" /\ Kept
        /\ Transits(p, call[p].rev, "PREPARING", "request", "unlease")
    BY <1>3, Shapes, TransitionMoves DEF MarkPreparing, history
  <2>2. StagerInv' /\ PreviewInv' /\ CompactInv'
    BY <1>1, <2>1, Shapes, Sources DEF StagerInv, PreviewInv, CompactInv
  <2>3. KnownInv' /\ HolderInv'
    BY <1>1, <2>1, Shapes, Sources DEF KnownInv, StagingInv, RollingInv, ApplyingInv, HolderInv, LeaseInv,
       CompactInv, PreviewInv
  <2>4. LeaseOwned' /\ OperationOwned'
    BY <1>1, <2>1, Shapes, Sources DEF LeaseOwned, Admitted, PreviewInv, OperationOwned, CompactInv
  <2> QED BY Parts, <2>2, <2>3, <2>4
<1>4. ASSUME StageRequest(p) PROVE IInv'
  <2>1. Same /\ call[p].pc = "request" /\ (MovesTo(p, "stage") \/ MovesTo(p, "failed"))
    BY <1>4, Shapes, GotoMoves DEF StageRequest, GotoOrReturn, Goto, bounds, history
  <2>2. StagerInv' /\ PreviewInv' /\ CompactInv'
    BY <1>1, <2>1, Shapes DEF StagerInv, PreviewInv, CompactInv
  <2>3. KnownInv' /\ HolderInv'
    BY <1>1, <2>1, Shapes DEF KnownInv, StagingInv, RollingInv, ApplyingInv, HolderInv, LeaseInv,
       CompactInv, PreviewInv
  <2>4. LeaseOwned' /\ OperationOwned'
    BY <1>1, <2>1, Shapes DEF LeaseOwned, Admitted, PreviewInv, OperationOwned, CompactInv
  <2> QED BY Parts, <2>2, <2>3, <2>4
<1>5. ASSUME StageBegin(p) PROVE IInv'
  <2>1. Same /\ call[p].pc = "stage" /\ (MovesTo(p, "staging") \/ MovesTo(p, "undo"))
    BY <1>5, Shapes, GotoMoves DEF StageBegin, GotoOrReturn, Goto, bounds, history
  <2>2. StagerInv' /\ PreviewInv' /\ CompactInv'
    BY <1>1, <2>1, Shapes DEF StagerInv, PreviewInv, CompactInv
  <2>3. KnownInv' /\ HolderInv'
    BY <1>1, <2>1, Shapes DEF KnownInv, StagingInv, RollingInv, ApplyingInv, HolderInv, LeaseInv,
       CompactInv, PreviewInv
  <2>4. LeaseOwned' /\ OperationOwned'
    BY <1>1, <2>1, Shapes DEF LeaseOwned, Admitted, PreviewInv, OperationOwned, CompactInv
  <2> QED BY Parts, <2>2, <2>3, <2>4
<1>6. ASSUME NEW variant \in Variants, StageEnd(p, variant) PROVE IInv'
  <2>1. Same /\ call[p].pc = "staging" /\ (MovesTo(p, "record") \/ MovesTo(p, "undo"))
    BY <1>6, Shapes, GotoMoves DEF StageEnd, GotoOrReturn, Goto, bounds, history
  <2>2. StagerInv' /\ PreviewInv' /\ CompactInv'
    BY <1>1, <2>1, Shapes DEF StagerInv, PreviewInv, CompactInv
  <2>3. KnownInv' /\ HolderInv'
    BY <1>1, <2>1, Shapes DEF KnownInv, StagingInv, RollingInv, ApplyingInv, HolderInv, LeaseInv,
       CompactInv, PreviewInv
  <2>4. LeaseOwned' /\ OperationOwned'
    BY <1>1, <2>1, Shapes DEF LeaseOwned, Admitted, PreviewInv, OperationOwned, CompactInv
  <2> QED BY Parts, <2>2, <2>3, <2>4
<1>7. ASSUME RecordInvariants(p, end) PROVE IInv'
  <2>1. /\ call[p].pc = "record" /\ UNCHANGED mem /\ Kept /\ disk' \in {disk, mem}
        /\ (persistFaults' = persistFaults \/ persistFaults' # 0)
        /\ MovesTo(p, "ready") \/ MovesTo(p, "failed")
    BY <1>7, Shapes, GotoMoves DEF RecordInvariants, Persist, Goto, GotoOrReturn, history
  <2>2. StagerInv' /\ PreviewInv' /\ CompactInv'
    BY <1>1, <2>1, Shapes, Sources DEF StagerInv, PreviewInv, CompactInv
  <2>3. KnownInv' /\ HolderInv'
    BY <1>1, <2>1, Shapes, Sources DEF KnownInv, StagingInv, RollingInv, ApplyingInv, HolderInv, LeaseInv,
       CompactInv, PreviewInv
  <2>4. LeaseOwned' /\ OperationOwned'
    BY <1>1, <2>1, Shapes, Sources DEF LeaseOwned, Admitted, PreviewInv, OperationOwned, CompactInv
  <2> QED BY Parts, <2>2, <2>3, <2>4
<1>8. ASSUME NoInvariants(p) PROVE IInv'
  <2>1. Same /\ call[p].pc = "record" /\ MovesTo(p, "ready")
    BY <1>8, Shapes, GotoMoves DEF NoInvariants, GotoOrReturn, Goto, bounds, history
  <2>2. StagerInv' /\ PreviewInv' /\ CompactInv'
    BY <1>1, <2>1, Shapes DEF StagerInv, PreviewInv, CompactInv
  <2>3. KnownInv' /\ HolderInv'
    BY <1>1, <2>1, Shapes DEF KnownInv, StagingInv, RollingInv, ApplyingInv, HolderInv, LeaseInv,
       CompactInv, PreviewInv
  <2>4. LeaseOwned' /\ OperationOwned'
    BY <1>1, <2>1, Shapes DEF LeaseOwned, Admitted, PreviewInv, OperationOwned, CompactInv
  <2> QED BY Parts, <2>2, <2>3, <2>4
<1>9. ASSUME NEW state \in Verdicts, MarkPrepared(p, state, end) PROVE IInv'
  <2>1. /\ call[p].pc = "ready" /\ Kept /\ state \in Prepared
        /\ \E good \in {"idle", "compare"} : Transits(p, call[p].rev, state, good, "undo")
    BY <1>9, Shapes, ConstantTypes, TransitionMoves DEF MarkPrepared, PreparedPc, history
  <2>2. StagerInv' /\ PreviewInv' /\ CompactInv'
    BY <1>1, <2>1, Shapes, Sources DEF StagerInv, PreviewInv, CompactInv
  <2>3. KnownInv' /\ HolderInv'
    BY <1>1, <2>1, Shapes, Sources DEF KnownInv, StagingInv, RollingInv, ApplyingInv, HolderInv, LeaseInv,
       CompactInv, PreviewInv
  <2>4. LeaseOwned' /\ OperationOwned'
    BY <1>1, <2>1, Shapes, Sources DEF LeaseOwned, Admitted, PreviewInv, OperationOwned, CompactInv
  <2> QED BY Parts, <2>2, <2>3, <2>4
<1>10. ASSUME NEW ok \in BOOLEAN, UndoStage(p, ok) PROVE IInv'
  <2>1. Same /\ call[p].pc = "undo" /\ MovesTo(p, "failed")
    BY <1>10, Shapes, GotoMoves DEF UndoStage, GotoOrReturn, Goto, history
  <2>2. StagerInv' /\ PreviewInv' /\ CompactInv'
    BY <1>1, <2>1, Shapes DEF StagerInv, PreviewInv, CompactInv
  <2>3. KnownInv' /\ HolderInv'
    BY <1>1, <2>1, Shapes DEF KnownInv, StagingInv, RollingInv, ApplyingInv, HolderInv, LeaseInv,
       CompactInv, PreviewInv
  <2>4. LeaseOwned' /\ OperationOwned'
    BY <1>1, <2>1, Shapes DEF LeaseOwned, Admitted, PreviewInv, OperationOwned, CompactInv
  <2> QED BY Parts, <2>2, <2>3, <2>4
<1>11. ASSUME MarkFailed(p, end) PROVE IInv'
  <2>1. /\ call[p].pc = "failed" /\ Kept
        /\ Transits(p, call[p].rev, "FAILED", "unlease", "unlease")
    BY <1>11, Shapes, TransitionMoves DEF MarkFailed, history
  <2>2. StagerInv' /\ PreviewInv' /\ CompactInv'
    BY <1>1, <2>1, Shapes, Sources DEF StagerInv, PreviewInv, CompactInv
  <2>3. KnownInv' /\ HolderInv'
    BY <1>1, <2>1, Shapes, Sources DEF KnownInv, StagingInv, RollingInv, ApplyingInv, HolderInv, LeaseInv,
       CompactInv, PreviewInv
  <2>4. LeaseOwned' /\ OperationOwned'
    BY <1>1, <2>1, Shapes, Sources DEF LeaseOwned, Admitted, PreviewInv, OperationOwned, CompactInv
  <2> QED BY Parts, <2>2, <2>3, <2>4
<1> QED BY <1>2, <1>3, <1>4, <1>5, <1>6, <1>7, <1>8, <1>9, <1>10, <1>11

(* A call starts. *)
LEMMA CallStarts ==
  ASSUME TypeOK, IInv, changePlan
  PROVE  IInv'
<1> USE DEF C, Holds, NoHolder, HasStager, Staging, RollingBack, Final, Prepared, Terminal,
            MovesTo, OthersStay, Transits, MayMove, ReaperStays, Kept, Same, SameButLease, At
<1>1. StagerInv /\ PreviewInv /\ CompactInv /\ KnownInv /\ HolderInv /\ LeaseOwned /\ OperationOwned
  BY Parts
<1>2. ASSUME NEW p \in Preparers, NEW rev \in Revisions, StartPrepare(p, rev) PROVE IInv'
  <2>1. Same /\ p \in Callers /\ OthersStay(p) /\ call[p].pc = "idle" /\ call'[p].pc = "lookup" /\ call'[p].op = "prepare"
    BY <1>2, Shapes DEF StartPrepare, NoCall, Callers, bounds, history
  <2>2. StagerInv' /\ PreviewInv' /\ CompactInv'
    BY <1>1, <2>1, Shapes DEF StagerInv, PreviewInv, CompactInv
  <2>3. KnownInv' /\ HolderInv'
    BY <1>1, <2>1, Shapes DEF KnownInv, StagingInv, RollingInv, ApplyingInv, HolderInv, LeaseInv,
       CompactInv, PreviewInv
  <2>4. LeaseOwned' /\ OperationOwned'
    BY <1>1, <2>1, Shapes DEF LeaseOwned, Admitted, PreviewInv, OperationOwned, CompactInv
  <2> QED BY Parts, <2>2, <2>3, <2>4
<1>3. ASSUME NEW ok \in BOOLEAN, StartPreview(ok) PROVE IInv'
  <2>1. Same /\ OthersStay(Canonical) /\ C.pc = "idle" /\ C'.pc = "save" /\ C'.op = "preview"
    BY <1>3, Shapes DEF StartPreview, NoCall, bounds, history
  <2>2. StagerInv' /\ PreviewInv' /\ CompactInv'
    BY <1>1, <2>1, Shapes DEF StagerInv, PreviewInv, CompactInv
  <2>3. KnownInv' /\ HolderInv'
    BY <1>1, <2>1, Shapes DEF KnownInv, StagingInv, RollingInv, ApplyingInv, HolderInv, LeaseInv,
       CompactInv, PreviewInv
  <2>4. LeaseOwned' /\ OperationOwned'
    BY <1>1, <2>1, Shapes DEF LeaseOwned, Admitted, PreviewInv, OperationOwned, CompactInv
  <2> QED BY Parts, <2>2, <2>3, <2>4
<1>4. ASSUME StartEdit PROVE IInv'
  <2>1. /\ Same /\ OthersStay(Canonical) /\ C.pc = "idle" /\ C'.op = "edit"
        /\ C'.pc = "edit" \/ (C'.pc = "rolling" /\ mem.state \in Prepared)
    BY <1>4, Shapes, StartMoves DEF StartEdit, bounds, history
  <2>2. StagerInv' /\ PreviewInv' /\ CompactInv'
    BY <1>1, <2>1, Shapes, Sources DEF StagerInv, PreviewInv, CompactInv
  <2>3. KnownInv' /\ HolderInv'
    BY <1>1, <2>1, Shapes, Sources DEF KnownInv, StagingInv, RollingInv, ApplyingInv, HolderInv, LeaseInv,
       CompactInv, PreviewInv
  <2>4. LeaseOwned' /\ OperationOwned'
    BY <1>1, <2>1, Shapes, Sources DEF LeaseOwned, Admitted, PreviewInv, OperationOwned, CompactInv
  <2> QED BY Parts, <2>2, <2>3, <2>4
<1>5. ASSUME StartDiscard PROVE IInv'
  <2>1. /\ Same /\ OthersStay(Canonical) /\ C.pc = "idle" /\ C'.op = "discard"
        /\ C'.pc = "discard" \/ (C'.pc = "rolling" /\ C'.st # None)
    BY <1>5, Shapes, StartMoves DEF StartDiscard, Lookup, bounds, history
  <2>2. StagerInv' /\ PreviewInv' /\ CompactInv'
    BY <1>1, <2>1, Shapes, Sources DEF StagerInv, PreviewInv, CompactInv
  <2>3. KnownInv' /\ HolderInv'
    BY <1>1, <2>1, Shapes, Sources DEF KnownInv, StagingInv, RollingInv, ApplyingInv, HolderInv, LeaseInv,
       CompactInv, PreviewInv
  <2>4. LeaseOwned' /\ OperationOwned'
    BY <1>1, <2>1, Shapes, Sources DEF LeaseOwned, Admitted, PreviewInv, OperationOwned, CompactInv
  <2> QED BY Parts, <2>2, <2>3, <2>4
<1>6. ASSUME NEW rev \in Revisions, NEW tok \in Tokens, StartApply(rev, tok) PROVE IInv'
  <2>1. /\ Same /\ OthersStay(Canonical) /\ C.pc = "idle" /\ C'.op = "apply"
        /\ C'.pc = "lookup" \/ (C'.pc = "admit" /\ C'.st # None)
    <3>1. Same /\ C.pc = "idle"
      BY <1>6 DEF StartApply, bounds, history
    <3>2. ASSUME Lookup(rev) = "found", call' = [call EXCEPT ![Canonical] = [NoCall EXCEPT !.op = "apply",
                     !.rev = rev, !.want = rev, !.pc = "admit", !.st = slot, !.tok = tok]]
          PROVE  OthersStay(Canonical) /\ C'.op = "apply" /\ C'.pc = "admit" /\ C'.st # None
      BY <3>2, Shapes DEF Lookup, NoCall
    <3>3. ASSUME call' = [call EXCEPT ![Canonical] = [NoCall EXCEPT !.op = "apply", !.rev = mem.rev,
                     !.want = rev, !.pc = "lookup", !.tok = tok]]
          PROVE  OthersStay(Canonical) /\ C'.op = "apply" /\ C'.pc = "lookup"
      BY <3>3, Shapes DEF NoCall
    <3>4. \/ Lookup(rev) = "found" /\ call' = [call EXCEPT ![Canonical] = [NoCall EXCEPT !.op = "apply",
                !.rev = rev, !.want = rev, !.pc = "admit", !.st = slot, !.tok = tok]]
          \/ call' = [call EXCEPT ![Canonical] = [NoCall EXCEPT !.op = "apply", !.rev = mem.rev,
                !.want = rev, !.pc = "lookup", !.tok = tok]]
      BY <1>6 DEF StartApply
    <3> QED BY <3>1, <3>2, <3>3, <3>4
  <2>2. StagerInv' /\ PreviewInv' /\ CompactInv'
    BY <1>1, <2>1, Shapes, Sources DEF StagerInv, PreviewInv, CompactInv
  <2>3. KnownInv' /\ HolderInv'
    BY <1>1, <2>1, Shapes, Sources DEF KnownInv, StagingInv, RollingInv, ApplyingInv, HolderInv, LeaseInv,
       CompactInv, PreviewInv
  <2>4. LeaseOwned' /\ OperationOwned'
    BY <1>1, <2>1, Shapes, Sources DEF LeaseOwned, Admitted, PreviewInv, OperationOwned, CompactInv
  <2> QED BY Parts, <2>2, <2>3, <2>4
<1> QED BY <1>2, <1>3, <1>4, <1>5, <1>6 DEF changePlan

(* An edit or a discard goes on. *)
LEMMA RollBackSteps ==
  ASSUME TypeOK, IInv, NEW end \in Ends,
         \/ EditPlan(end) \/ DiscardPlan(end) \/ MarkRollingBack(end) \/ (\E ok \in BOOLEAN : RollbackStager(ok))
         \/ RollbackFailed(end) \/ ResetProofs(end) \/ ReopenPlan(end) \/ MarkRolledBack(end) \/ ReleaseLease
  PROVE  IInv'
<1> USE DEF C, Holds, NoHolder, HasStager, Staging, RollingBack, Final, Prepared, Terminal,
            MovesTo, OthersStay, Transits, MayMove, ReaperStays, Kept, Same, SameButLease, At
<1>1. StagerInv /\ PreviewInv /\ CompactInv /\ KnownInv /\ HolderInv /\ LeaseOwned /\ OperationOwned
  BY Parts
<1>2. ASSUME EditPlan(end) PROVE IInv'
  <2>1. /\ C.pc = "edit" /\ Kept /\ MovesTo(Canonical, "idle")
        /\ \/ UNCHANGED <<mem, disk, persistFaults>>
           \/ /\ mem.rev = C.rev /\ ~mem.compacted /\ CanTransition(mem.state, "OPEN")
              /\ mem'.state = "OPEN" /\ mem'.rev = mem.rev + 1
              /\ mem'.compacted = mem.compacted /\ disk' \in {disk, mem'}
              /\ (persistFaults' = persistFaults \/ persistFaults' # 0)
    <3> DEFINE record == [mem EXCEPT !.state = "OPEN", !.rev = @ + 1, !.preview = None,
                                        !.prep = None, !.fresh = TRUE]
    <3>1. record.state = "OPEN" /\ record.rev = mem.rev + 1 /\ record.compacted = mem.compacted
      BY Shapes
    <3>2. MovesTo(Canonical, "idle")
      BY <1>2, Shapes, GotoMoves DEF EditPlan, GotoOrReturn
    <3>3. ASSUME Persist(record, end)
          PROVE  disk' \in {disk, record} /\ (persistFaults' = persistFaults \/ persistFaults' # 0)
      BY <3>3, Shapes DEF Persist
    <3>4. \/ UNCHANGED <<mem, disk, persistFaults>>
          \/ /\ CanTransition(mem.state, "OPEN") /\ mem.rev = C.rev /\ ~mem.compacted
             /\ Persist(record, end) /\ mem' = record
      BY <1>2 DEF EditPlan
    <3> HIDE DEF record
    <3> QED BY <1>2, <3>1, <3>2, <3>3, <3>4 DEF EditPlan, history
  <2>2. StagerInv' /\ PreviewInv' /\ CompactInv'
    BY <1>1, <2>1, Shapes, Sources DEF StagerInv, PreviewInv, CompactInv
  <2>3. KnownInv' /\ HolderInv'
    BY <1>1, <2>1, Shapes, Sources DEF KnownInv, StagingInv, RollingInv, ApplyingInv, HolderInv, LeaseInv,
       CompactInv, PreviewInv
  <2>4. LeaseOwned' /\ OperationOwned'
    BY <1>1, <2>1, Shapes, Sources DEF LeaseOwned, Admitted, PreviewInv, OperationOwned, CompactInv
  <2> QED BY Parts, <2>2, <2>3, <2>4
<1>3. ASSUME DiscardPlan(end) PROVE IInv'
  <2>1. /\ C.pc = "discard" /\ Kept /\ MovesTo(Canonical, "idle")
        /\ \/ UNCHANGED <<mem, disk, persistFaults>>
           \/ /\ mem.rev = C.rev /\ CanTransition(mem.state, "DISCARDED")
              /\ mem'.state = "DISCARDED" /\ mem'.rev = mem.rev
              /\ mem'.preview = mem.preview /\ mem'.compacted = mem.compacted /\ disk' \in {disk, mem'}
              /\ (persistFaults' = persistFaults \/ persistFaults' # 0)
    <3> DEFINE record == [mem EXCEPT !.state = "DISCARDED", !.fresh = TRUE]
    <3>1. record.state = "DISCARDED" /\ record.rev = mem.rev /\ record.preview = mem.preview /\ record.compacted = mem.compacted
      BY Shapes
    <3>2. MovesTo(Canonical, "idle")
      BY <1>3, Shapes, GotoMoves DEF DiscardPlan, GotoOrReturn
    <3>3. ASSUME Persist(record, end)
          PROVE  disk' \in {disk, record} /\ (persistFaults' = persistFaults \/ persistFaults' # 0)
      BY <3>3, Shapes DEF Persist
    <3>4. \/ UNCHANGED <<mem, disk, persistFaults>>
          \/ /\ CanTransition(mem.state, "DISCARDED") /\ mem.rev = C.rev
             /\ Persist(record, end) /\ mem' = record
      BY <1>3 DEF DiscardPlan
    <3> HIDE DEF record
    <3> QED BY <1>3, <3>1, <3>2, <3>3, <3>4 DEF DiscardPlan, history
  <2>2. StagerInv' /\ PreviewInv' /\ CompactInv'
    BY <1>1, <2>1, Shapes, Sources DEF StagerInv, PreviewInv, CompactInv
  <2>3. KnownInv' /\ HolderInv'
    BY <1>1, <2>1, Shapes, Sources DEF KnownInv, StagingInv, RollingInv, ApplyingInv, HolderInv, LeaseInv,
       CompactInv, PreviewInv
  <2>4. LeaseOwned' /\ OperationOwned'
    BY <1>1, <2>1, Shapes, Sources DEF LeaseOwned, Admitted, PreviewInv, OperationOwned, CompactInv
  <2> QED BY Parts, <2>2, <2>3, <2>4
<1>4. ASSUME MarkRollingBack(end) PROVE IInv'
  <2>1. /\ C.pc = "rolling" /\ Kept
        /\ \/ C.st = None /\ Transits(Canonical, C.rev, "ROLLING_BACK", "reset", "idle")
           \/ C.st # None /\ Transits(Canonical, C.rev, "ROLLING_BACK", "rollback", "idle")
    BY <1>4, Shapes, TransitionMoves DEF MarkRollingBack, history
  <2>2. StagerInv' /\ PreviewInv' /\ CompactInv'
    BY <1>1, <2>1, Shapes, Sources DEF StagerInv, PreviewInv, CompactInv
  <2>3. KnownInv' /\ HolderInv'
    BY <1>1, <2>1, Shapes, Sources DEF KnownInv, StagingInv, RollingInv, ApplyingInv, HolderInv, LeaseInv,
       CompactInv, PreviewInv
  <2>4. LeaseOwned' /\ OperationOwned'
    BY <1>1, <2>1, Shapes, Sources DEF LeaseOwned, Admitted, PreviewInv, OperationOwned, CompactInv
  <2> QED BY Parts, <2>2, <2>3, <2>4
<1>5. ASSUME NEW ok \in BOOLEAN, RollbackStager(ok) PROVE IInv'
  <2>1. /\ Same /\ C.pc = "rollback"
        /\ \/ MovesTo(Canonical, "rbfailed") \/ MovesTo(Canonical, "rolledback")
           \/ C.op = "edit" /\ MovesTo(Canonical, "reset")
    BY <1>5, Shapes, GotoMoves DEF RollbackStager, GotoOrReturn, Goto, history
  <2>2. StagerInv' /\ PreviewInv' /\ CompactInv'
    BY <1>1, <2>1, Shapes, Sources DEF StagerInv, PreviewInv, CompactInv
  <2>3. KnownInv' /\ HolderInv'
    BY <1>1, <2>1, Shapes, Sources DEF KnownInv, StagingInv, RollingInv, ApplyingInv, HolderInv, LeaseInv,
       CompactInv, PreviewInv
  <2>4. LeaseOwned' /\ OperationOwned'
    BY <1>1, <2>1, Shapes, Sources DEF LeaseOwned, Admitted, PreviewInv, OperationOwned, CompactInv
  <2> QED BY Parts, <2>2, <2>3, <2>4
<1>6. ASSUME RollbackFailed(end) PROVE IInv'
  <2>1. /\ C.pc = "rbfailed" /\ UNCHANGED <<lease, overtaken>> /\ ReaperStays /\ (leaked \/ lease => leaked')
        /\ Transits(Canonical, C.rev, "FAILED", "idle", "idle")
    BY <1>6, Shapes, TransitionMoves DEF RollbackFailed
  <2>2. StagerInv' /\ PreviewInv' /\ CompactInv'
    BY <1>1, <2>1, Shapes, Sources DEF StagerInv, PreviewInv, CompactInv
  <2>3. KnownInv' /\ HolderInv'
    BY <1>1, <2>1, Shapes, Sources DEF KnownInv, StagingInv, RollingInv, ApplyingInv, HolderInv, LeaseInv,
       CompactInv, PreviewInv
  <2>4. LeaseOwned' /\ OperationOwned'
    BY <1>1, <2>1, Shapes, Sources DEF LeaseOwned, Admitted, PreviewInv, OperationOwned, CompactInv
  <2> QED BY Parts, <2>2, <2>3, <2>4
<1>7. ASSUME ResetProofs(end) PROVE IInv'
  <2>1. /\ C.pc = "reset" /\ UNCHANGED <<mem, lease, overtaken>> /\ ReaperStays /\ disk' \in {disk, mem}
        /\ (persistFaults' = persistFaults \/ persistFaults' # 0)
        /\ \/ MovesTo(Canonical, "reopen") /\ (leaked => leaked')
           \/ MovesTo(Canonical, "idle") /\ (leaked \/ lease => leaked') /\ (persistFaults' # 0 \/ mem.rev # C.rev)
    <3>1. /\ C.pc = "reset" /\ UNCHANGED <<mem, lease, overtaken>> /\ ReaperStays
          /\ leaked' = (leaked \/ (lease /\ (end # "ok" \/ mem.rev # C.rev)))
      BY <1>7 DEF ResetProofs
    <3>2. CASE mem.rev = C.rev
      <4>1. Persist(mem, end) /\ GotoOrReturn(Canonical, IF end = "ok" THEN "reopen" ELSE "idle")
        BY <1>7, <3>2 DEF ResetProofs
      <4>2. disk' \in {disk, mem} /\ persistFaults' = IF end = "ok" THEN persistFaults ELSE persistFaults + 1
        BY <4>1 DEF Persist
      <4>3. persistFaults + 1 # 0
        BY Shapes
      <4> QED BY <3>1, <3>2, <4>1, <4>2, <4>3, Shapes, GotoMoves
    <3>3. CASE mem.rev # C.rev
      <4>1. MovesTo(Canonical, "idle") /\ UNCHANGED <<disk, persistFaults>>
        BY <1>7, <3>3, Shapes, GotoMoves DEF ResetProofs, GotoOrReturn
      <4> QED BY <3>1, <3>3, <4>1
    <3> QED BY <3>2, <3>3
  <2>2. StagerInv' /\ PreviewInv' /\ CompactInv'
    BY <1>1, <2>1, Shapes, Sources DEF StagerInv, PreviewInv, CompactInv
  <2>3. KnownInv' /\ HolderInv'
    BY <1>1, <2>1, Shapes, Sources DEF KnownInv, StagingInv, RollingInv, ApplyingInv, HolderInv, LeaseInv,
       CompactInv, PreviewInv
  <2>4. LeaseOwned' /\ OperationOwned'
    BY <1>1, <2>1, Shapes, Sources DEF LeaseOwned, Admitted, PreviewInv, OperationOwned, CompactInv
  <2> QED BY Parts, <2>2, <2>3, <2>4
<1>8. ASSUME ReopenPlan(end) PROVE IInv'
  <2>1. /\ C.pc = "reopen" /\ Kept
        /\ Transits(Canonical, C.rev, "OPEN", "editable", "ended")
    BY <1>8, Shapes, TransitionMoves DEF ReopenPlan, history
  <2>2. StagerInv' /\ PreviewInv' /\ CompactInv'
    BY <1>1, <2>1, Shapes, Sources DEF StagerInv, PreviewInv, CompactInv
  <2>3. KnownInv' /\ HolderInv'
    BY <1>1, <2>1, Shapes, Sources DEF KnownInv, StagingInv, RollingInv, ApplyingInv, HolderInv, LeaseInv,
       CompactInv, PreviewInv
  <2>4. LeaseOwned' /\ OperationOwned'
    BY <1>1, <2>1, Shapes, Sources DEF LeaseOwned, Admitted, PreviewInv, OperationOwned, CompactInv
  <2> QED BY Parts, <2>2, <2>3, <2>4
<1>9. ASSUME MarkRolledBack(end) PROVE IInv'
  <2>1. /\ C.pc = "rolledback" /\ Kept
        /\ Transits(Canonical, C.rev, "ROLLED_BACK", "ended", "ended")
    BY <1>9, Shapes, TransitionMoves DEF MarkRolledBack, history
  <2>2. StagerInv' /\ PreviewInv' /\ CompactInv'
    BY <1>1, <2>1, Shapes, Sources DEF StagerInv, PreviewInv, CompactInv
  <2>3. KnownInv' /\ HolderInv'
    BY <1>1, <2>1, Shapes, Sources DEF KnownInv, StagingInv, RollingInv, ApplyingInv, HolderInv, LeaseInv,
       CompactInv, PreviewInv
  <2>4. LeaseOwned' /\ OperationOwned'
    BY <1>1, <2>1, Shapes, Sources DEF LeaseOwned, Admitted, PreviewInv, OperationOwned, CompactInv
  <2> QED BY Parts, <2>2, <2>3, <2>4
<1>10. ASSUME ReleaseLease PROVE IInv'
  <2>1. /\ SameButLease /\ ~lease'
        /\ \/ C.pc = "editable" /\ MovesTo(Canonical, "edit")
           \/ C.pc = "ended" /\ MovesTo(Canonical, "idle")
    BY <1>10, Shapes, GotoMoves DEF ReleaseLease, GotoOrReturn, Goto, bounds, history
  <2>2. StagerInv' /\ PreviewInv' /\ CompactInv'
    BY <1>1, <2>1, Shapes, Sources DEF StagerInv, PreviewInv, CompactInv
  <2>3. KnownInv' /\ HolderInv'
    BY <1>1, <2>1, Shapes, Sources DEF KnownInv, StagingInv, RollingInv, ApplyingInv, HolderInv, LeaseInv,
       CompactInv, PreviewInv
  <2>4. LeaseOwned' /\ OperationOwned'
    BY <1>1, <2>1, Shapes, Sources DEF LeaseOwned, Admitted, PreviewInv, OperationOwned, CompactInv
  <2> QED BY Parts, <2>2, <2>3, <2>4
<1> QED BY <1>2, <1>3, <1>4, <1>5, <1>6, <1>7, <1>8, <1>9, <1>10

(* An apply goes on. *)
LEMMA ApplySteps ==
  ASSUME TypeOK, IInv, NEW end \in Ends,
         \/ CompareRecovered \/ (\E ok \in BOOLEAN : DropMismatch(ok))
         \/ (\E epochsAgree \in BOOLEAN : AdmitCommit(epochsAgree)) \/ RefuseAdmission
         \/ (\E journaled \in BOOLEAN : StageWriteSet(journaled)) \/ MarkCommitting(end) \/ ApplyRefused
         \/ (\E ok \in BOOLEAN : ApplyJournal(ok)) \/ MarkCommitted(end) \/ MarkRecovery(end)
         \/ (\E state \in {"CONFLICTED", "FAILED"} : Refuse(state, end)) \/ (\E ok \in BOOLEAN : FinishCommit(ok))
  PROVE  IInv'
<1> USE DEF C, Holds, NoHolder, HasStager, Staging, RollingBack, Final, Prepared, Terminal,
            MovesTo, OthersStay, Transits, MayMove, ReaperStays, Kept, Same, SameButLease, At
<1>1. StagerInv /\ PreviewInv /\ CompactInv /\ KnownInv /\ HolderInv /\ LeaseOwned /\ OperationOwned
  BY Parts
<1>2. ASSUME CompareRecovered PROVE IInv'
  <2>1. /\ Same /\ OthersStay(Canonical) /\ C.pc = "compare" /\ C'.pc \in {"admit", "mismatch"}
        /\ C'.st = C.st /\ C'.op = C.op
    BY <1>2, Shapes DEF CompareRecovered, bounds, history
  <2>2. StagerInv' /\ PreviewInv' /\ CompactInv'
    BY <1>1, <2>1, Shapes, Sources DEF StagerInv, PreviewInv, CompactInv
  <2>3. KnownInv' /\ HolderInv'
    BY <1>1, <2>1, Shapes, Sources DEF KnownInv, StagingInv, RollingInv, ApplyingInv, HolderInv, LeaseInv,
       CompactInv, PreviewInv
  <2>4. LeaseOwned' /\ OperationOwned'
    BY <1>1, <2>1, Shapes, Sources DEF LeaseOwned, Admitted, PreviewInv, OperationOwned, CompactInv
  <2> QED BY Parts, <2>2, <2>3, <2>4
<1>3. ASSUME NEW ok \in BOOLEAN, DropMismatch(ok) PROVE IInv'
  <2>1. Same /\ C.pc = "mismatch" /\ MovesTo(Canonical, "idle")
    BY <1>3, Shapes, GotoMoves DEF DropMismatch, GotoOrReturn, Goto, history
  <2>2. StagerInv' /\ PreviewInv' /\ CompactInv'
    BY <1>1, <2>1, Shapes DEF StagerInv, PreviewInv, CompactInv
  <2>3. KnownInv' /\ HolderInv'
    BY <1>1, <2>1, Shapes DEF KnownInv, StagingInv, RollingInv, ApplyingInv, HolderInv, LeaseInv,
       CompactInv, PreviewInv
  <2>4. LeaseOwned' /\ OperationOwned'
    BY <1>1, <2>1, Shapes DEF LeaseOwned, Admitted, PreviewInv, OperationOwned, CompactInv
  <2> QED BY Parts, <2>2, <2>3, <2>4
<1>4. ASSUME NEW epochsAgree \in BOOLEAN, AdmitCommit(epochsAgree) PROVE IInv'
  <2>1. /\ Same /\ C.pc = "admit"
        /\ \/ MovesTo(Canonical, "idle")
           \/ MovesTo(Canonical, "writeset") /\ mem.rev = C.rev /\ mem.state \in Prepared
    BY <1>4, Shapes, GotoMoves DEF AdmitCommit, GotoOrReturn, bounds, history
  <2>2. StagerInv' /\ PreviewInv' /\ CompactInv'
    BY <1>1, <2>1, Shapes, Sources DEF StagerInv, PreviewInv, CompactInv
  <2>3. KnownInv' /\ HolderInv'
    BY <1>1, <2>1, Shapes, Sources DEF KnownInv, StagingInv, RollingInv, ApplyingInv, HolderInv, LeaseInv,
       CompactInv, PreviewInv
  <2>4. LeaseOwned' /\ OperationOwned'
    BY <1>1, <2>1, Shapes, Sources DEF LeaseOwned, Admitted, PreviewInv, OperationOwned, CompactInv
  <2> QED BY Parts, <2>2, <2>3, <2>4
<1>5. ASSUME RefuseAdmission PROVE IInv'
  <2>1. Same /\ C.pc = "admit" /\ MovesTo(Canonical, "idle")
    BY <1>5, Shapes, GotoMoves DEF RefuseAdmission, GotoOrReturn, Goto, bounds, history
  <2>2. StagerInv' /\ PreviewInv' /\ CompactInv'
    BY <1>1, <2>1, Shapes DEF StagerInv, PreviewInv, CompactInv
  <2>3. KnownInv' /\ HolderInv'
    BY <1>1, <2>1, Shapes DEF KnownInv, StagingInv, RollingInv, ApplyingInv, HolderInv, LeaseInv,
       CompactInv, PreviewInv
  <2>4. LeaseOwned' /\ OperationOwned'
    BY <1>1, <2>1, Shapes DEF LeaseOwned, Admitted, PreviewInv, OperationOwned, CompactInv
  <2> QED BY Parts, <2>2, <2>3, <2>4
<1>6. ASSUME NEW journaled \in BOOLEAN, StageWriteSet(journaled) PROVE IInv'
  <2>1. Same /\ C.pc = "writeset" /\ (MovesTo(Canonical, "committing") \/ MovesTo(Canonical, "refuse"))
    BY <1>6, Shapes DEF StageWriteSet, bounds, history
  <2>2. StagerInv' /\ PreviewInv' /\ CompactInv'
    BY <1>1, <2>1, Shapes DEF StagerInv, PreviewInv, CompactInv
  <2>3. KnownInv' /\ HolderInv'
    BY <1>1, <2>1, Shapes DEF KnownInv, StagingInv, RollingInv, ApplyingInv, HolderInv, LeaseInv,
       CompactInv, PreviewInv
  <2>4. LeaseOwned' /\ OperationOwned'
    BY <1>1, <2>1, Shapes DEF LeaseOwned, Admitted, PreviewInv, OperationOwned, CompactInv
  <2> QED BY Parts, <2>2, <2>3, <2>4
<1>7. ASSUME MarkCommitting(end) PROVE IInv'
  <2>1. /\ C.pc = "committing" /\ Kept
        /\ Transits(Canonical, C.rev, "COMMITTING", "applying", "refuse")
    BY <1>7, Shapes, TransitionMoves DEF MarkCommitting, history
  <2>2. StagerInv' /\ PreviewInv' /\ CompactInv'
    BY <1>1, <2>1, Shapes, Sources DEF StagerInv, PreviewInv, CompactInv
  <2>3. KnownInv' /\ HolderInv'
    BY <1>1, <2>1, Shapes, Sources DEF KnownInv, StagingInv, RollingInv, ApplyingInv, HolderInv, LeaseInv,
       CompactInv, PreviewInv
  <2>4. LeaseOwned' /\ OperationOwned'
    BY <1>1, <2>1, Shapes, Sources DEF LeaseOwned, Admitted, PreviewInv, OperationOwned, CompactInv
  <2> QED BY Parts, <2>2, <2>3, <2>4
<1>8. ASSUME ApplyRefused PROVE IInv'
  <2>1. Same /\ C.pc = "applying" /\ MovesTo(Canonical, "refuse")
    BY <1>8, Shapes, GotoMoves DEF ApplyRefused, GotoOrReturn, Goto, bounds, history
  <2>2. StagerInv' /\ PreviewInv' /\ CompactInv'
    BY <1>1, <2>1, Shapes DEF StagerInv, PreviewInv, CompactInv
  <2>3. KnownInv' /\ HolderInv'
    BY <1>1, <2>1, Shapes DEF KnownInv, StagingInv, RollingInv, ApplyingInv, HolderInv, LeaseInv,
       CompactInv, PreviewInv
  <2>4. LeaseOwned' /\ OperationOwned'
    BY <1>1, <2>1, Shapes DEF LeaseOwned, Admitted, PreviewInv, OperationOwned, CompactInv
  <2> QED BY Parts, <2>2, <2>3, <2>4
<1>9. ASSUME NEW ok \in BOOLEAN, ApplyJournal(ok) PROVE IInv'
  <2>1. Same /\ C.pc = "applying" /\ (MovesTo(Canonical, "sealed") \/ MovesTo(Canonical, "recovery"))
    BY <1>9, Shapes, GotoMoves DEF ApplyJournal, GotoOrReturn, Goto
  <2>2. StagerInv' /\ PreviewInv' /\ CompactInv'
    BY <1>1, <2>1, Shapes DEF StagerInv, PreviewInv, CompactInv
  <2>3. KnownInv' /\ HolderInv'
    BY <1>1, <2>1, Shapes DEF KnownInv, StagingInv, RollingInv, ApplyingInv, HolderInv, LeaseInv,
       CompactInv, PreviewInv
  <2>4. LeaseOwned' /\ OperationOwned'
    BY <1>1, <2>1, Shapes DEF LeaseOwned, Admitted, PreviewInv, OperationOwned, CompactInv
  <2> QED BY Parts, <2>2, <2>3, <2>4
<1>10. ASSUME MarkCommitted(end) PROVE IInv'
  <2>1. /\ C.pc = "sealed" /\ Kept
        /\ Transits(Canonical, C.rev, "COMMITTED", "finish", "recovery")
    BY <1>10, Shapes, TransitionMoves DEF MarkCommitted, history
  <2>2. StagerInv' /\ PreviewInv' /\ CompactInv'
    BY <1>1, <2>1, Shapes, Sources DEF StagerInv, PreviewInv, CompactInv
  <2>3. KnownInv' /\ HolderInv'
    BY <1>1, <2>1, Shapes, Sources DEF KnownInv, StagingInv, RollingInv, ApplyingInv, HolderInv, LeaseInv,
       CompactInv, PreviewInv
  <2>4. LeaseOwned' /\ OperationOwned'
    BY <1>1, <2>1, Shapes, Sources DEF LeaseOwned, Admitted, PreviewInv, OperationOwned, CompactInv
  <2> QED BY Parts, <2>2, <2>3, <2>4
<1>11. ASSUME MarkRecovery(end) PROVE IInv'
  <2>1. /\ C.pc = "recovery" /\ Kept
        /\ Transits(Canonical, C.rev, "RECOVERY_REQUIRED", "finish", "finish")
    BY <1>11, Shapes, TransitionMoves DEF MarkRecovery, history
  <2>2. StagerInv' /\ PreviewInv' /\ CompactInv'
    BY <1>1, <2>1, Shapes, Sources DEF StagerInv, PreviewInv, CompactInv
  <2>3. KnownInv' /\ HolderInv'
    BY <1>1, <2>1, Shapes, Sources DEF KnownInv, StagingInv, RollingInv, ApplyingInv, HolderInv, LeaseInv,
       CompactInv, PreviewInv
  <2>4. LeaseOwned' /\ OperationOwned'
    BY <1>1, <2>1, Shapes, Sources DEF LeaseOwned, Admitted, PreviewInv, OperationOwned, CompactInv
  <2> QED BY Parts, <2>2, <2>3, <2>4
<1>12. ASSUME NEW state \in {"CONFLICTED", "FAILED"}, Refuse(state, end) PROVE IInv'
  <2>1. /\ C.pc = "refuse" /\ Kept
        /\ Transits(Canonical, C.rev, state, "finish", "finish")
    BY <1>12, Shapes, TransitionMoves DEF Refuse, history
  <2>2. StagerInv' /\ PreviewInv' /\ CompactInv'
    BY <1>1, <2>1, Shapes, Sources DEF StagerInv, PreviewInv, CompactInv
  <2>3. KnownInv' /\ HolderInv'
    BY <1>1, <2>1, Shapes, Sources DEF KnownInv, StagingInv, RollingInv, ApplyingInv, HolderInv, LeaseInv,
       CompactInv, PreviewInv
  <2>4. LeaseOwned' /\ OperationOwned'
    BY <1>1, <2>1, Shapes, Sources DEF LeaseOwned, Admitted, PreviewInv, OperationOwned, CompactInv
  <2> QED BY Parts, <2>2, <2>3, <2>4
<1>13. ASSUME NEW ok \in BOOLEAN, FinishCommit(ok) PROVE IInv'
  <2>1. Same /\ C.pc = "finish" /\ MovesTo(Canonical, "ended")
    BY <1>13, Shapes, GotoMoves DEF FinishCommit, GotoOrReturn, Goto, history
  <2>2. StagerInv' /\ PreviewInv' /\ CompactInv'
    BY <1>1, <2>1, Shapes DEF StagerInv, PreviewInv, CompactInv
  <2>3. KnownInv' /\ HolderInv'
    BY <1>1, <2>1, Shapes DEF KnownInv, StagingInv, RollingInv, ApplyingInv, HolderInv, LeaseInv,
       CompactInv, PreviewInv
  <2>4. LeaseOwned' /\ OperationOwned'
    BY <1>1, <2>1, Shapes DEF LeaseOwned, Admitted, PreviewInv, OperationOwned, CompactInv
  <2> QED BY Parts, <2>2, <2>3, <2>4
<1> QED BY <1>2, <1>3, <1>4, <1>5, <1>6, <1>7, <1>8, <1>9, <1>10, <1>11, <1>12, <1>13

(* The sweep and the surroundings. *)
LEMMA OutsideSteps ==
  ASSUME TypeOK, IInv, NEW end \in Ends,
         \/ Sweep \/ Expire(end) \/ SweepUnlease \/ DropUnneeded \/ (\E ok \in BOOLEAN : DropStager(ok))
         \/ Minute \/ Hour \/ Retention \/ Restart \/ ExternalEdit \/ UNCHANGED vars
  PROVE  IInv'
<1> USE DEF C, Holds, NoHolder, HasStager, Staging, RollingBack, Final, Prepared, Terminal,
            MovesTo, OthersStay, Transits, MayMove, ReaperStays, Kept, Same, SameButLease, At
<1>1. StagerInv /\ PreviewInv /\ CompactInv /\ KnownInv /\ HolderInv /\ LeaseOwned /\ OperationOwned
  BY Parts
<1>2. ASSUME NEW ok \in BOOLEAN, Sweep \/ DropUnneeded \/ DropStager(ok) \/ Minute \/ ExternalEdit \/ UNCHANGED vars PROVE IInv'
  <2>1. Same /\ UNCHANGED call
    BY <1>2, Shapes DEF Sweep, DropUnneeded, DropStager, Minute, ExternalEdit, vars, bounds, history
  <2>2. StagerInv' /\ PreviewInv' /\ CompactInv'
    BY <1>1, <2>1, Shapes DEF StagerInv, PreviewInv, CompactInv
  <2>3. KnownInv' /\ HolderInv'
    BY <1>1, <2>1, Shapes DEF KnownInv, StagingInv, RollingInv, ApplyingInv, HolderInv, LeaseInv,
       CompactInv, PreviewInv
  <2>4. LeaseOwned' /\ OperationOwned'
    BY <1>1, <2>1, Shapes DEF LeaseOwned, Admitted, PreviewInv, OperationOwned, CompactInv
  <2> QED BY Parts, <2>2, <2>3, <2>4
<1>3. ASSUME Expire(end) PROVE IInv'
  <2>1. /\ UNCHANGED <<call, lease, leaked>> /\ ReaperStays /\ (mem' # mem => reaper'.pc = "unlease")
        /\ (persistFaults' = persistFaults \/ persistFaults' # 0)
        /\ ~overtaken' => ~overtaken /\ (mem' = mem \/ (mem'.state = "EXPIRED" /\ \A p \in Callers : call[p].pc = "idle"))
        /\ \/ UNCHANGED <<mem, disk>>
           \/ /\ mem.state \in {"OPEN", "PREVIEWED", "FAILED"} \cup Prepared /\ mem'.rev = mem.rev /\ mem'.preview = mem.preview
              /\ mem'.compacted = mem.compacted /\ mem'.state \in {mem.state, "EXPIRED"}
              /\ disk' = disk \/ (disk'.state = "EXPIRED" /\ disk'.compacted = mem.compacted)
    <3> DEFINE record == Expired(mem)
    <3>1. /\ record.state = "EXPIRED" /\ record.rev = mem.rev /\ record.preview = mem.preview
          /\ record.compacted = mem.compacted
      BY Shapes DEF Expired
    <3>2. \/ UNCHANGED <<mem, disk, persistFaults>>
          \/ Expirable(mem) /\ Persist(record, end) /\ mem' \in {mem, record}
      BY <1>3 DEF Expire
    <3>3. /\ UNCHANGED <<call, lease, leaked>> /\ ReaperStays /\ (mem' # mem => reaper'.pc = "unlease")
          /\ ~overtaken' => ~overtaken /\ (mem' = mem \/ \A p \in Callers : call[p].pc = "idle")
      BY <1>3, Shapes DEF Expire, Underway
    <3>4. ASSUME Persist(record, end)
          PROVE  disk' \in {disk, record} /\ (persistFaults' = persistFaults \/ persistFaults' # 0)
      BY <3>4, Shapes DEF Persist
    <3> HIDE DEF record
    <3> QED BY <3>1, <3>2, <3>3, <3>4 DEF Expirable
  <2>2. StagerInv' /\ PreviewInv' /\ CompactInv'
    BY <1>1, <2>1, Shapes, Sources DEF StagerInv, PreviewInv, CompactInv
  <2>3. KnownInv' /\ HolderInv'
    BY <1>1, <2>1, Shapes, Sources DEF KnownInv, StagingInv, RollingInv, ApplyingInv, HolderInv, LeaseInv,
       CompactInv, PreviewInv
  <2>4. LeaseOwned' /\ OperationOwned'
    BY <1>1, <2>1, Shapes, Sources DEF LeaseOwned, Admitted, PreviewInv, OperationOwned, CompactInv
  <2> QED BY Parts, <2>2, <2>3, <2>4
<1>4. ASSUME SweepUnlease PROVE IInv'
  <2>1. /\ UNCHANGED <<mem, disk, call, persistFaults>> /\ ~lease'
        /\ ~overtaken' => ~overtaken /\ mem.state = "EXPIRED" /\ \A p \in Callers : call[p].pc = "idle"
    BY <1>4, Shapes DEF SweepUnlease, Underway, bounds
  <2>2. StagerInv' /\ PreviewInv' /\ CompactInv'
    BY <1>1, <2>1, Shapes, Sources DEF StagerInv, PreviewInv, CompactInv
  <2>3. KnownInv' /\ HolderInv'
    BY <1>1, <2>1, Shapes, Sources DEF KnownInv, StagingInv, RollingInv, ApplyingInv, HolderInv, LeaseInv,
       CompactInv, PreviewInv
  <2>4. LeaseOwned' /\ OperationOwned'
    BY <1>1, <2>1, Shapes, Sources DEF LeaseOwned, Admitted, PreviewInv, OperationOwned, CompactInv
  <2> QED BY Parts, <2>2, <2>3, <2>4
<1>5. ASSUME Hour PROVE IInv'
  <2>1. /\ UNCHANGED <<call, persistFaults>> /\ Kept
        /\ mem'.state = mem.state /\ mem'.rev = mem.rev /\ mem'.preview = mem.preview /\ mem'.compacted = mem.compacted
        /\ disk'.state = disk.state /\ disk'.rev = disk.rev /\ disk'.compacted = disk.compacted
    BY <1>5, Shapes DEF Hour, bounds, history
  <2>2. StagerInv' /\ PreviewInv' /\ CompactInv'
    BY <1>1, <2>1, Shapes, Sources DEF StagerInv, PreviewInv, CompactInv
  <2>3. KnownInv' /\ HolderInv'
    BY <1>1, <2>1, Shapes, Sources DEF KnownInv, StagingInv, RollingInv, ApplyingInv, HolderInv, LeaseInv,
       CompactInv, PreviewInv
  <2>4. LeaseOwned' /\ OperationOwned'
    BY <1>1, <2>1, Shapes, Sources DEF LeaseOwned, Admitted, PreviewInv, OperationOwned, CompactInv
  <2> QED BY Parts, <2>2, <2>3, <2>4
<1>6. ASSUME Retention PROVE IInv'
  <2>1. /\ UNCHANGED <<call, persistFaults>> /\ Kept /\ mem.state \in Terminal /\ disk' = mem'
        /\ \/ mem'.state = mem.state /\ mem'.rev = mem.rev /\ mem'.compacted
           \/ mem'.state = "GONE" /\ ~mem'.compacted
    BY <1>6, Shapes DEF Retention, Compacted, NewPlan, bounds, history
  <2>2. StagerInv' /\ PreviewInv' /\ CompactInv'
    BY <1>1, <2>1, Shapes, Sources DEF StagerInv, PreviewInv, CompactInv
  <2>3. KnownInv' /\ HolderInv'
    BY <1>1, <2>1, Shapes, Sources DEF KnownInv, StagingInv, RollingInv, ApplyingInv, HolderInv, LeaseInv,
       CompactInv, PreviewInv
  <2>4. LeaseOwned' /\ OperationOwned'
    BY <1>1, <2>1, Shapes, Sources DEF LeaseOwned, Admitted, PreviewInv, OperationOwned, CompactInv
  <2> QED BY Parts, <2>2, <2>3, <2>4
<1>7. ASSUME Restart PROVE IInv'
  <2>1. /\ \A p \in Callers : call'[p].pc = "idle"
        /\ disk' = mem' /\ mem'.state \notin Prepared \cup {"PREPARING", "ROLLING_BACK", "COMMITTING"}
        /\ ~lease'
        /\ mem'.compacted => mem'.state \in Terminal
    <3>1. \A p \in Callers : call'[p].pc = "idle"
      BY <1>7, Shapes DEF Restart, NoCall
    <3>2. PICK state \in LoadedStates(disk) : mem' = Loaded(disk, state) /\ disk' = mem'
      BY <1>7 DEF Restart
    <3>3. /\ state \notin Prepared \cup {"PREPARING", "ROLLING_BACK", "COMMITTING"}
          /\ disk.compacted => state \in Terminal
      BY <1>1, <3>2 DEF LoadedStates, CompactInv
    <3>4. /\ Loaded(disk, state).state \in {state, "EXPIRED"}
          /\ Loaded(disk, state).compacted = disk.compacted
      BY Shapes DEF Loaded, Expired
    <3> QED BY <1>7, <3>1, <3>2, <3>3, <3>4 DEF Restart
  <2>2. StagerInv' /\ PreviewInv' /\ CompactInv'
    BY <1>1, <2>1, Shapes, Sources DEF StagerInv, PreviewInv, CompactInv
  <2>3. KnownInv' /\ HolderInv'
    BY <1>1, <2>1, Shapes, Sources DEF KnownInv, StagingInv, RollingInv, ApplyingInv, HolderInv, LeaseInv,
       CompactInv, PreviewInv
  <2>4. LeaseOwned' /\ OperationOwned'
    BY <1>1, <2>1, Shapes, Sources DEF LeaseOwned, Admitted, PreviewInv, OperationOwned, CompactInv
  <2> QED BY Parts, <2>2, <2>3, <2>4
<1> QED BY <1>2, <1>3, <1>4, <1>5, <1>6, <1>7

LEMMA InitIInv == Init => IInv
<1>1. Init => call = [p \in Callers |-> NoCall] /\ mem = NewPlan /\ disk = NewPlan /\ Canonical \in Callers
  BY ConstantTypes DEF Init
<1>2. NoCall.pc = "idle" /\ NewPlan.state = "OPEN" /\ ~NewPlan.compacted
  BY DEF NoCall, NewPlan
<1>3. Init => (\A p \in Callers : call[p].pc = "idle") /\ C.pc = "idle"
  BY <1>1, <1>2 DEF C
<1>4. Init => StagerInv /\ PreviewInv /\ CompactInv
  BY <1>1, <1>2, <1>3 DEF StagerInv, PreviewInv, CompactInv, HasStager, Holds, Staging, Prepared
<1>5. Init => StagingInv /\ RollingInv /\ ApplyingInv
  BY <1>3 DEF StagingInv, RollingInv, ApplyingInv, Staging, RollingBack
<1>6. Init => LeaseInv
  BY <1>1, <1>2, <1>3 DEF LeaseInv, NoHolder, Holds, Staging, RollingBack, Prepared
<1>7. Init => LeaseOwned /\ OperationOwned
  BY <1>1, <1>2 DEF Init, LeaseOwned, OperationOwned
<1> QED BY <1>4, <1>5, <1>6, <1>7 DEF IInv

LEMMA StepIInv ==
  ASSUME TypeOK, IInv, [Next]_vars
  PROVE  IInv'
<1>1. "ok" \in Ends
  BY DEF Ends
<1>2. ASSUME NEW p \in Callers, Prepare(p) PROVE IInv'
  BY <1>1, <1>2, PrepareLookup, PrepareStage DEF Prepare
<1>3. ASSUME RollBack PROVE IInv'
  BY <1>1, <1>3, RollBackSteps DEF RollBack
<1>4. ASSUME Apply PROVE IInv'
  BY <1>1, <1>4, ApplySteps DEF Apply
<1>5. ASSUME ExpireIdle PROVE IInv'
  BY <1>1, <1>5, OutsideSteps DEF ExpireIdle
<1> QED BY <1>1, <1>2, <1>3, <1>4, <1>5, CallStarts, OutsideSteps DEF Next

-----------------------------------------------------------------------------
(* The stagers. *)

(* A step of the stagers and of the calls' hold on them: at most one more is given
   back, one is staged by a call that has it, and the registered one leaves its place
   given back, or is displaced. *)
KeepsPlace ==
  /\ displaced => displaced'
  /\ releaseFaults' = 0 => releaseFaults = 0
  /\ \A p \in Callers : call'[p].st \in {call[p].st, None, slot'}
  /\ ~displaced' /\ releaseFaults' = 0 =>
       \A s \in Stagers : ~stager'[s].done /\ s # slot' =>
         /\ ~stager[s].done /\ s # slot
         /\ stager'[s].box => stager[s].box \/ \E p \in Callers : call[p].st = s

LEMMA StagerShapes ==
  ASSUME TypeOK
  PROVE  /\ DOMAIN stager = Stagers /\ slot \in Stagers \cup {None} /\ None \notin Stagers
         /\ \A s \in Stagers : DOMAIN stager[s] = {"rev", "box", "made", "done", "used"}
         /\ \A p \in Callers : call[p].st \in Stagers \cup {None}
         /\ reaper.snap \in Stagers \cup {None}
         /\ releaseFaults \in Nat
BY NoneAssumption DEF TypeOK, StagerRecords, Calls, Reapers

LEMMA PlaceKept ==
  ASSUME TypeOK, InPlace, KeepsPlace
  PROVE  InPlace'
<1> SUFFICES ASSUME ~displaced', releaseFaults' = 0
             PROVE  /\ \A s \in Stagers : stager'[s].box /\ ~stager'[s].done => s = slot'
                    /\ \A p \in Callers : call'[p].st # None /\ ~stager'[call'[p].st].done => call'[p].st = slot'
  BY DEF InPlace
<1>1. ~displaced /\ releaseFaults = 0
  BY DEF KeepsPlace
<1>2. /\ \A s \in Stagers : stager[s].box /\ ~stager[s].done => s = slot
      /\ \A p \in Callers : call[p].st # None /\ ~stager[call[p].st].done => call[p].st = slot
  BY <1>1 DEF InPlace
<1>3. \A s \in Stagers : stager'[s].box /\ ~stager'[s].done => s = slot'
  BY <1>2, StagerShapes DEF KeepsPlace
<1>4. \A p \in Callers : call'[p].st # None /\ ~stager'[call'[p].st].done => call'[p].st = slot'
  BY <1>2, StagerShapes DEF KeepsPlace
<1> QED BY <1>3, <1>4

LEMMA TouchMoves ==
  ASSUME TypeOK, NEW s, Touch(s)
  PROVE  \A t \in Stagers : /\ stager'[t].done = stager[t].done /\ stager'[t].box = stager[t].box
                            /\ stager'[t].made = stager[t].made /\ stager'[t].rev = stager[t].rev
<1>1. stager' = [stager EXCEPT ![s] = [stager[s] EXCEPT !.used = "now"]]
  BY DEF Touch
<1> QED BY <1>1, StagerShapes

LEMMA ReleaseMoves ==
  ASSUME TypeOK, NEW s, NEW ok \in BOOLEAN, Release(s, ok)
  PROVE  /\ \A t \in Stagers : /\ stager'[t].box = stager[t].box /\ stager'[t].made = stager[t].made
                               /\ stager'[t].rev = stager[t].rev
                               /\ stager'[t].done <=> stager[t].done \/ (t = s /\ ok)
         /\ Unlocked(s)
         /\ releaseFaults' = 0 => releaseFaults = 0 /\ ok
<1>1. stager' = [stager EXCEPT ![s] = [stager[s] EXCEPT !.done = @ \/ ok]]
  BY DEF Release
<1>2. \A t \in Stagers : /\ stager'[t].box = stager[t].box /\ stager'[t].made = stager[t].made
                         /\ stager'[t].rev = stager[t].rev
                         /\ stager'[t].done <=> stager[t].done \/ (t = s /\ ok)
  BY <1>1, StagerShapes
<1>3. releaseFaults' = 0 => releaseFaults = 0 /\ ok
  BY StagerShapes DEF Release
<1> QED BY <1>2, <1>3 DEF Release

(* A call keeps its stager, or lets it go. *)
LEMMA GotoKeeps ==
  ASSUME TypeOK, NEW p \in Callers, NEW pc, GotoOrReturn(p, pc)
  PROVE  \A q \in Callers : call'[q].st \in {call[q].st, None}
<1>1. CASE pc = "idle"
  BY <1>1, Shapes DEF GotoOrReturn, Return, NoCall
<1>2. CASE pc # "idle"
  BY <1>2, Shapes DEF GotoOrReturn, Goto
<1> QED BY <1>1, <1>2

(* The steps that leave the stagers alone. *)
LEMMA PlaceQuiet ==
  ASSUME TypeOK, InPlace, UNCHANGED <<slot, displaced, releaseFaults>>,
         \A s \in Stagers : stager'[s].done = stager[s].done /\ stager'[s].box = stager[s].box,
         \A p \in Callers : call'[p].st \in {call[p].st, None, slot}
  PROVE  InPlace'
BY PlaceKept, StagerShapes DEF KeepsPlace

(* The steps that give a stager back. *)
LEMMA PlaceReleased ==
  ASSUME TypeOK, InPlace, NEW s, NEW ok \in BOOLEAN, Release(s, ok), UNCHANGED displaced,
         slot' = slot \/ (slot' = None /\ slot = s),
         \A p \in Callers : call'[p].st \in {call[p].st, None}
  PROVE  InPlace'
BY PlaceKept, StagerShapes, ReleaseMoves DEF KeepsPlace

LEMMA StartKeeps ==
  ASSUME TypeOK, NEW op, NEW rev, NEW pc, NEW st, Start(op, rev, pc, st)
  PROVE  \A q \in Callers : call'[q].st \in {call[q].st, st}
BY Shapes DEF Start, NoCall

(* A prepare. *)
LEMMA PlacePrepare ==
  ASSUME TypeOK, InPlace, StagerInv, NEW p \in Callers,
         Prepare(p)
  PROVE  InPlace'
<1> USE StagerShapes, Shapes
<1>1. ASSUME LookupStager(p) PROVE InPlace'
  <2>1. \A s \in Stagers : stager'[s].done = stager[s].done /\ stager'[s].box = stager[s].box
    BY <1>1, TouchMoves DEF LookupStager
  <2>2. \A q \in Callers : call'[q].st \in {call[q].st, slot}
    BY <1>1 DEF LookupStager, Goto
  <2> QED BY <1>1, <2>1, <2>2, PlaceQuiet DEF LookupStager, bounds, history
<1>2. ASSUME NEW ok \in BOOLEAN, EvictStager(p, ok) PROVE InPlace'
  <2>1. \A q \in Callers : call'[q].st \in {call[q].st, None}
    BY <1>2 DEF EvictStager
  <2> QED BY <1>2, <2>1, PlaceReleased DEF EvictStager, history
<1>3. ASSUME NEW s \in Stagers, CreateStager(p, s) PROVE InPlace'
  <2>1. CASE slot # None /\ Reusable(slot, call[p].rev)
    <3>1. \A t \in Stagers : stager'[t].done = stager[t].done /\ stager'[t].box = stager[t].box
      BY <1>3, <2>1, TouchMoves DEF CreateStager
    <3>2. \A q \in Callers : call'[q].st \in {call[q].st, slot}
      BY <1>3, <2>1 DEF CreateStager
    <3> QED BY <1>3, <2>1, <3>1, <3>2, PlaceQuiet DEF CreateStager, bounds
  <2>2. CASE ~(slot # None /\ Reusable(slot, call[p].rev))
    <3>1. /\ slot' = s /\ stager' = [stager EXCEPT ![s] = FreshStager(call[p].rev)]
          /\ call' = [call EXCEPT ![p] = [call[p] EXCEPT !.pc = "lease", !.st = s]]
          /\ displaced' = (displaced \/ (slot # None /\ ~stager[slot].done)) /\ releaseFaults' = releaseFaults
      BY <1>3, <2>2 DEF CreateStager, bounds
    <3>2. KeepsPlace
      BY <3>1 DEF KeepsPlace
    <3> QED BY <3>2, PlaceKept
  <2> QED BY <2>1, <2>2
<1>4. ASSUME AcquirePrepareLease(p) PROVE InPlace'
  BY <1>4, GotoKeeps, PlaceQuiet DEF AcquirePrepareLease, GotoOrReturn, history, bounds
<1>5. ASSUME NEW ok \in BOOLEAN, PreviewedPlan(p, ok) PROVE InPlace'
  <2>1. \A q \in Callers : call'[q].st = call[q].st
    BY <1>5 DEF PreviewedPlan, Goto
  <2> QED BY <1>5, <2>1, PlaceQuiet DEF PreviewedPlan, bounds, history
<1>6. ASSUME NEW end \in Ends, SavePreview(p, end) PROVE InPlace'
  <2>1. PICK pc : GotoOrReturn(p, pc)
    BY <1>6 DEF SavePreview
  <2> QED BY <1>6, <2>1, GotoKeeps, PlaceQuiet DEF SavePreview, history
<1>7. ASSUME NEW end \in Ends, MarkPreparing(p, end) PROVE InPlace'
  <2>1. PICK pc : GotoOrReturn(p, pc)
    BY <1>7 DEF MarkPreparing, TransitionPlan
  <2> QED BY <1>7, <2>1, ConstantTypes, GotoKeeps, PlaceQuiet DEF MarkPreparing, bounds, history
<1>8. ASSUME StageRequest(p) PROVE InPlace'
  BY <1>8, GotoKeeps, PlaceQuiet DEF StageRequest, GotoOrReturn, history, bounds
<1>9. ASSUME StageBegin(p) PROVE InPlace'
  <2>1. \A q \in Callers : call'[q].st = call[q].st
    BY <1>9 DEF StageBegin, Goto
  <2>2. /\ UNCHANGED <<slot, displaced, releaseFaults>>
        /\ \A t \in Stagers : stager'[t].done = stager[t].done
        /\ \A t \in Stagers : stager'[t].box => stager[t].box \/ t = call[p].st
    BY <1>9 DEF StageBegin, bounds, history
  <2>3. KeepsPlace
    <3>1. \A q \in Callers : call'[q].st \in {call[q].st, None, slot'}
      BY <2>1
    <3>2. \A t \in Stagers : stager'[t].box => stager[t].box \/ \E q \in Callers : call[q].st = t
      BY <2>2
    <3> QED BY <2>2, <3>1, <3>2 DEF KeepsPlace
  <2> QED BY <2>3, PlaceKept
<1>10. ASSUME NEW variant \in Variants, StageEnd(p, variant) PROVE InPlace'
  <2>pc. PICK pc : call' = [call EXCEPT ![p].pc = pc]
    BY <1>10 DEF StageEnd, Goto
  <2>1. \A q \in Callers : call'[q].st = call[q].st
    BY <2>pc
  <2>2. /\ UNCHANGED <<slot, displaced, releaseFaults>>
        /\ \A t \in Stagers : stager'[t].done = stager[t].done
        /\ \A t \in Stagers : stager'[t].box => stager[t].box \/ t = call[p].st
    <3>1. \/ stager' = [stager EXCEPT ![call[p].st] =
                            [stager[call[p].st] EXCEPT !.made = Staged(p, variant), !.used = "now"]]
          \/ \E keeps \in BOOLEAN : stager' = [stager EXCEPT ![call[p].st] =
                                             [stager[call[p].st] EXCEPT !.box = keeps]]
      BY <1>10 DEF StageEnd
    <3>2. ASSUME stager' = [stager EXCEPT ![call[p].st] =
                              [stager[call[p].st] EXCEPT !.made = Staged(p, variant), !.used = "now"]]
          PROVE  /\ \A t \in Stagers : stager'[t].done = stager[t].done
                 /\ \A t \in Stagers : stager'[t].box => stager[t].box \/ t = call[p].st
      BY <3>2
    <3>3. ASSUME NEW keeps \in BOOLEAN,
                 stager' = [stager EXCEPT ![call[p].st] = [stager[call[p].st] EXCEPT !.box = keeps]]
          PROVE  /\ \A t \in Stagers : stager'[t].done = stager[t].done
                 /\ \A t \in Stagers : stager'[t].box => stager[t].box \/ t = call[p].st
      BY <3>3
    <3> QED BY <1>10, <3>1, <3>2, <3>3 DEF StageEnd, bounds, history
  <2>3. KeepsPlace
    <3>1. \A q \in Callers : call'[q].st \in {call[q].st, None, slot'}
      BY <2>1
    <3>2. \A t \in Stagers : stager'[t].box => stager[t].box \/ \E q \in Callers : call[q].st = t
      BY <2>2
    <3> QED BY <2>2, <3>1, <3>2 DEF KeepsPlace
  <2> QED BY <2>3, PlaceKept
<1>11. ASSUME NEW end \in Ends, RecordInvariants(p, end) PROVE InPlace'
  <2>1. PICK pc : Goto(p, pc)
    BY <1>11 DEF RecordInvariants
  <2>2. \A q \in Callers : call'[q].st = call[q].st
    BY <2>1 DEF Goto
  <2> QED BY <1>11, <2>2, PlaceQuiet DEF RecordInvariants, history
<1>12. ASSUME NoInvariants(p) PROVE InPlace'
  BY <1>12, GotoKeeps, PlaceQuiet DEF NoInvariants, GotoOrReturn, history, bounds
<1>13. ASSUME NEW end \in Ends, NEW state \in Verdicts, MarkPrepared(p, state, end) PROVE InPlace'
  <2>1. PICK pc : GotoOrReturn(p, pc)
    BY <1>13 DEF MarkPrepared, TransitionPlan
  <2> QED BY <1>13, <2>1, ConstantTypes, GotoKeeps, PlaceQuiet DEF MarkPrepared, bounds, history
<1>14. ASSUME NEW ok \in BOOLEAN, UndoStage(p, ok) PROVE InPlace'
  <2>1. PICK pc : GotoOrReturn(p, pc)
    BY <1>14 DEF UndoStage, GotoOrReturn, Goto
  <2> QED BY <1>14, <2>1, ConstantTypes, GotoKeeps, PlaceReleased DEF UndoStage, history
<1>15. ASSUME NEW end \in Ends, MarkFailed(p, end) PROVE InPlace'
  <2>1. PICK pc : GotoOrReturn(p, pc)
    BY <1>15 DEF MarkFailed, TransitionPlan
  <2> QED BY <1>15, <2>1, ConstantTypes, GotoKeeps, PlaceQuiet DEF MarkFailed, bounds, history
<1>16. ASSUME ReleasePrepareLease(p) PROVE InPlace'
  BY <1>16, GotoKeeps, PlaceQuiet DEF ReleasePrepareLease, GotoOrReturn, history, bounds
<1> QED BY <1>1, <1>2, <1>3, <1>4, <1>5, <1>6, <1>7, <1>8, <1>9, <1>10, <1>11, <1>12, <1>13, <1>14, <1>15,
   <1>16 DEF Prepare

(* The canonical lane. *)
LEMMA PlaceCanonical ==
  ASSUME TypeOK, InPlace, changePlan \/ RollBack \/ Apply
  PROVE  InPlace'
<1> USE StagerShapes, Shapes, ConstantTypes
<1>1. ASSUME NEW p \in Preparers, NEW rev \in Revisions, StartPrepare(p, rev) PROVE InPlace'
  <2>1. p \in Callers
    BY DEF Callers
  <2>2. \A q \in Callers : call'[q].st \in {call[q].st, None}
    BY <1>1, <2>1 DEF StartPrepare, NoCall
  <2> QED BY <1>1, <2>2, PlaceQuiet DEF StartPrepare, bounds, history
<1>2. ASSUME NEW ok \in BOOLEAN, StartPreview(ok) PROVE InPlace'
  <2>1. \A q \in Callers : call'[q].st \in {call[q].st, None}
    BY <1>2 DEF StartPreview, NoCall
  <2> QED BY <1>2, <2>1, PlaceQuiet DEF StartPreview, bounds, history
<1>3. ASSUME StartEdit PROVE InPlace'
  <2>1. \A s \in Stagers : stager'[s].done = stager[s].done /\ stager'[s].box = stager[s].box
    BY <1>3, TouchMoves DEF StartEdit, TouchFound
  <2>st. PICK op, rev, pc, st : Start(op, rev, pc, st) /\ st \in {None, slot}
    BY <1>3 DEF StartEdit, Found
  <2>2. \A q \in Callers : call'[q].st \in {call[q].st, None, slot}
    BY <2>st, StartKeeps
  <2> QED BY <1>3, <2>1, <2>2, PlaceQuiet DEF StartEdit, bounds, history
<1>4. ASSUME StartDiscard PROVE InPlace'
  <2>1. \A s \in Stagers : stager'[s].done = stager[s].done /\ stager'[s].box = stager[s].box
    BY <1>4, TouchMoves DEF StartDiscard, TouchFound
  <2>st. PICK op, rev, pc, st : Start(op, rev, pc, st) /\ st \in {None, slot}
    BY <1>4 DEF StartDiscard, Found
  <2>2. \A q \in Callers : call'[q].st \in {call[q].st, None, slot}
    BY <2>st, StartKeeps
  <2> QED BY <1>4, <2>1, <2>2, PlaceQuiet DEF StartDiscard, bounds, history
<1>5. ASSUME NEW rev \in Revisions, NEW tok \in Tokens, StartApply(rev, tok) PROVE InPlace'
  <2>1. \A s \in Stagers : stager'[s].done = stager[s].done /\ stager'[s].box = stager[s].box
    BY <1>5, TouchMoves DEF StartApply
  <2>2. ASSUME call' = [call EXCEPT ![Canonical] = [NoCall EXCEPT !.op = "apply", !.rev = rev,
                   !.want = rev, !.pc = "admit", !.st = slot, !.tok = tok]]
        PROVE  \A q \in Callers : call'[q].st \in {call[q].st, slot}
    BY <2>2 DEF NoCall
  <2>3. ASSUME call' = [call EXCEPT ![Canonical] = [NoCall EXCEPT !.op = "apply", !.rev = mem.rev,
                   !.want = rev, !.pc = "lookup", !.tok = tok]]
        PROVE  \A q \in Callers : call'[q].st \in {call[q].st, None}
    BY <2>3 DEF NoCall
  <2>4. \A q \in Callers : call'[q].st \in {call[q].st, None, slot}
    BY <1>5, <2>2, <2>3 DEF StartApply
  <2> QED BY <1>5, <2>1, <2>4, PlaceQuiet DEF StartApply, bounds, history
<1>6. ASSUME NEW end \in Ends, EditPlan(end) PROVE InPlace'
  <2>1. GotoOrReturn(Canonical, "idle")
    BY <1>6 DEF EditPlan, GotoOrReturn
  <2> QED BY <1>6, <2>1, GotoKeeps, PlaceQuiet DEF EditPlan, history
<1>7. ASSUME NEW end \in Ends, DiscardPlan(end) PROVE InPlace'
  <2>1. GotoOrReturn(Canonical, "idle")
    BY <1>7 DEF DiscardPlan, GotoOrReturn
  <2> QED BY <1>7, <2>1, GotoKeeps, PlaceQuiet DEF DiscardPlan, history
<1>8. ASSUME NEW end \in Ends, ResetProofs(end) PROVE InPlace'
  <2>1. PICK pc : GotoOrReturn(Canonical, pc)
    BY <1>8 DEF ResetProofs, GotoOrReturn
  <2> QED BY <1>8, <2>1, GotoKeeps, PlaceQuiet DEF ResetProofs, history
<1>9. ASSUME NEW end \in Ends, MarkRollingBack(end) PROVE InPlace'
  <2>1. PICK pc : GotoOrReturn(Canonical, pc)
    BY <1>9 DEF MarkRollingBack, TransitionPlan
  <2> QED BY <1>9, <2>1, ConstantTypes, GotoKeeps, PlaceQuiet DEF MarkRollingBack, bounds, history
<1>10. ASSUME NEW end \in Ends, RollbackFailed(end) PROVE InPlace'
  <2>1. PICK pc : GotoOrReturn(Canonical, pc)
    BY <1>10 DEF RollbackFailed, TransitionPlan
  <2> QED BY <1>10, <2>1, ConstantTypes, GotoKeeps, PlaceQuiet DEF RollbackFailed, bounds, history
<1>11. ASSUME NEW end \in Ends, ReopenPlan(end) PROVE InPlace'
  <2>1. PICK pc : GotoOrReturn(Canonical, pc)
    BY <1>11 DEF ReopenPlan, TransitionPlan
  <2> QED BY <1>11, <2>1, ConstantTypes, GotoKeeps, PlaceQuiet DEF ReopenPlan, bounds, history
<1>12. ASSUME NEW end \in Ends, MarkRolledBack(end) PROVE InPlace'
  <2>1. PICK pc : GotoOrReturn(Canonical, pc)
    BY <1>12 DEF MarkRolledBack, TransitionPlan
  <2> QED BY <1>12, <2>1, ConstantTypes, GotoKeeps, PlaceQuiet DEF MarkRolledBack, bounds, history
<1>13. ASSUME NEW end \in Ends, MarkCommitting(end) PROVE InPlace'
  <2>1. PICK pc : GotoOrReturn(Canonical, pc)
    BY <1>13 DEF MarkCommitting, TransitionPlan
  <2> QED BY <1>13, <2>1, ConstantTypes, GotoKeeps, PlaceQuiet DEF MarkCommitting, bounds, history
<1>14. ASSUME NEW end \in Ends, MarkCommitted(end) PROVE InPlace'
  <2>1. PICK pc : GotoOrReturn(Canonical, pc)
    BY <1>14 DEF MarkCommitted, TransitionPlan
  <2> QED BY <1>14, <2>1, ConstantTypes, GotoKeeps, PlaceQuiet DEF MarkCommitted, bounds, history
<1>15. ASSUME NEW end \in Ends, MarkRecovery(end) PROVE InPlace'
  <2>1. PICK pc : GotoOrReturn(Canonical, pc)
    BY <1>15 DEF MarkRecovery, TransitionPlan
  <2> QED BY <1>15, <2>1, ConstantTypes, GotoKeeps, PlaceQuiet DEF MarkRecovery, bounds, history
<1>16. ASSUME NEW state \in {"CONFLICTED", "FAILED"}, NEW end \in Ends, Refuse(state, end) PROVE InPlace'
  <2>1. PICK pc : GotoOrReturn(Canonical, pc)
    BY <1>16 DEF Refuse, TransitionPlan
  <2> QED BY <1>16, <2>1, ConstantTypes, GotoKeeps, PlaceQuiet DEF Refuse, bounds, history
<1>17. ASSUME NEW ok \in BOOLEAN, RollbackStager(ok) PROVE InPlace'
  <2>1. PICK pc : GotoOrReturn(Canonical, pc)
    BY <1>17 DEF RollbackStager, GotoOrReturn, Goto
  <2> QED BY <1>17, <2>1, ConstantTypes, GotoKeeps, PlaceReleased DEF RollbackStager, history
<1>18. ASSUME NEW ok \in BOOLEAN, DropMismatch(ok) PROVE InPlace'
  <2>1. PICK pc : GotoOrReturn(Canonical, pc)
    BY <1>18 DEF DropMismatch, GotoOrReturn, Goto
  <2> QED BY <1>18, <2>1, ConstantTypes, GotoKeeps, PlaceReleased DEF DropMismatch, history
<1>19. ASSUME NEW ok \in BOOLEAN, ApplyJournal(ok) PROVE InPlace'
  <2>1. PICK pc : GotoOrReturn(Canonical, pc)
    BY <1>19 DEF ApplyJournal, GotoOrReturn, Goto
  <2> QED BY <1>19, <2>1, ConstantTypes, GotoKeeps, PlaceReleased DEF ApplyJournal, history
<1>20. ASSUME NEW ok \in BOOLEAN, FinishCommit(ok) PROVE InPlace'
  <2>1. PICK pc : GotoOrReturn(Canonical, pc)
    BY <1>20 DEF FinishCommit, GotoOrReturn, Goto
  <2> QED BY <1>20, <2>1, ConstantTypes, GotoKeeps, PlaceReleased DEF FinishCommit, history
<1>21. ASSUME ReleaseLease PROVE InPlace'
  BY <1>21, GotoKeeps, PlaceQuiet DEF ReleaseLease, GotoOrReturn, history, bounds
<1>22. ASSUME CompareRecovered PROVE InPlace'
  <2>1. \A q \in Callers : call'[q].st = call[q].st
    BY <1>22 DEF CompareRecovered
  <2> QED BY <1>22, <2>1, PlaceQuiet DEF CompareRecovered, bounds, history
<1>23. ASSUME NEW journaled \in BOOLEAN, StageWriteSet(journaled) PROVE InPlace'
  <2>1. \A q \in Callers : call'[q].st = call[q].st
    BY <1>23 DEF StageWriteSet
  <2> QED BY <1>23, <2>1, PlaceQuiet DEF StageWriteSet, bounds, history
<1>24. ASSUME NEW epochsAgree \in BOOLEAN, AdmitCommit(epochsAgree) PROVE InPlace'
  <2>1. \A q \in Callers : call'[q].st \in {call[q].st, None}
    BY <1>24 DEF AdmitCommit, Return, NoCall
  <2> QED BY <1>24, <2>1, PlaceQuiet DEF AdmitCommit, bounds, history
<1>25. ASSUME RefuseAdmission PROVE InPlace'
  BY <1>25, GotoKeeps, PlaceQuiet DEF RefuseAdmission, GotoOrReturn, history, bounds
<1>26. ASSUME ApplyRefused PROVE InPlace'
  BY <1>26, GotoKeeps, PlaceQuiet DEF ApplyRefused, GotoOrReturn, history, bounds
<1> QED BY <1>1, <1>2, <1>3, <1>4, <1>5, <1>6, <1>7, <1>8, <1>9, <1>10, <1>11, <1>12, <1>13, <1>14, <1>15,
   <1>16, <1>17, <1>18, <1>19, <1>20, <1>21, <1>22, <1>23, <1>24, <1>25, <1>26 DEF changePlan, RollBack,
   Apply

(* The sweep and the surroundings. *)
LEMMA PlaceOutside ==
  ASSUME TypeOK, InPlace, ExpireIdle \/ Sweep \/ Minute \/ Hour \/ Retention \/ Restart \/ ExternalEdit \/ UNCHANGED vars
  PROVE  InPlace'
<1> USE StagerShapes, Shapes
<1>1. ASSUME NEW end \in Ends, Sweep \/ Expire(end) \/ SweepUnlease \/ DropUnneeded \/ Retention \/ ExternalEdit \/ UNCHANGED vars PROVE InPlace'
  BY <1>1, PlaceQuiet DEF Sweep, Expire, SweepUnlease, DropUnneeded, Retention, ExternalEdit, vars, bounds,
     history
<1>2. ASSUME NEW ok \in BOOLEAN, DropStager(ok) PROVE InPlace'
  BY <1>2, PlaceReleased DEF DropStager, history
<1>3. ASSUME Minute \/ Hour PROVE InPlace'
  <2>1. \A s \in Stagers : stager'[s].done = stager[s].done /\ stager'[s].box = stager[s].box
    BY <1>3 DEF Minute, Hour
  <2> QED BY <1>3, <2>1, PlaceQuiet DEF Minute, Hour, bounds, history
<1>4. ASSUME Restart PROVE InPlace'
  <2>1. /\ \A s \in Stagers : ~stager'[s].box
        /\ \A p \in Callers : call'[p].st = None
    BY <1>4 DEF Restart, NoCall, FreshStager
  <2>2. \A s \in Stagers : stager'[s].box /\ ~stager'[s].done => s = slot'
    BY <2>1
  <2>3. \A p \in Callers : call'[p].st # None /\ ~stager'[call'[p].st].done => call'[p].st = slot'
    BY <2>1
  <2> QED BY <2>2, <2>3 DEF InPlace
<1>0. "ok" \in Ends
  BY DEF Ends
<1> QED BY <1>0, <1>1, <1>2, <1>3, <1>4 DEF ExpireIdle

LEMMA PlaceInit == Init => InPlace
BY DEF Init, InPlace, FreshStager, NoCall

LEMMA PlaceStep ==
  ASSUME TypeOK, StagerInv, InPlace, [Next]_vars
  PROVE  InPlace'
BY PlacePrepare, PlaceCanonical, PlaceOutside DEF Next

-----------------------------------------------------------------------------
(* What is prepared, shown and applied.  Each part of ContentInv that needs an
   orderly life. *)
ReachKnown == Orderly => ReachInv
ReadyKnown == Orderly => ReadyInv
PrepKnown == Orderly => PrepInv
ReopenKnown == Orderly => ReopenInv
CommitKnown == Orderly => CommitInv

LEMMA ContentParts ==
  /\ ContentInv => InPlace /\ MadeInv /\ SeenInv /\ WantInv /\ ReachKnown /\ ReadyKnown /\ PrepKnown
                     /\ ReopenKnown /\ CommitKnown
  /\ InPlace' /\ MadeInv' /\ SeenInv' /\ WantInv' /\ ReachKnown' /\ ReadyKnown' /\ PrepKnown'
       /\ ReopenKnown' /\ CommitKnown' => ContentInv'
BY DEF ContentInv, ReachKnown, ReadyKnown, PrepKnown, ReopenKnown, CommitKnown

LEMMA ContentShapes ==
  ASSUME TypeOK
  PROVE  /\ canon \in Nat /\ mem.rev \in Nat
         /\ \A p \in Callers : call[p].seen \in Nat /\ call[p].rev \in Nat /\ call[p].want \in Nat
         /\ mem.preview # None => mem.preview.seen \in Nat
         /\ disk.preview # None => disk.preview.seen \in Nat
         /\ \A s \in Stagers : stager[s].rev \in Nat
         /\ \A s \in Stagers : stager[s].made \in Tokens \cup {None}
         /\ mem.prep \in Tokens \cup {None}
         /\ \A t \in Tokens : t # None /\ t.rev \in Nat /\ t.seen \in Nat
BY NoneAssumption DEF TypeOK, Calls, Records, Previews, StagerRecords, Tokens, Revisions, Canons

(* The stagers stay what they are, but for one that is given back. *)
StagersKeep ==
  /\ slot' \in {slot, None}
  /\ \A s \in Stagers : /\ stager'[s].rev = stager[s].rev /\ stager'[s].box = stager[s].box
                        /\ stager'[s].made = stager[s].made
                        /\ stager[s].done => stager'[s].done

(* Call p goes on at pc with all that it has. *)
Goes(p, pc) ==
  /\ call'[p].pc = pc
  /\ \/ pc = "idle" /\ call'[p].op = "prepare" /\ call'[p].st = None /\ call'[p].seen = 0
     \/ /\ pc # "idle"
        /\ call'[p].op = call[p].op /\ call'[p].rev = call[p].rev /\ call'[p].want = call[p].want
        /\ call'[p].st = call[p].st /\ call'[p].tok = call[p].tok /\ call'[p].seen = call[p].seen
        /\ call'[p].ok = call[p].ok
  /\ OthersStay(p)
NoMix == Orderly' => Orderly
Calm == StagersKeep /\ NoMix /\ UNCHANGED <<canon, committed>>
Quiet == Calm /\ UNCHANGED <<mem, disk>>

LEMMA GotoGoes ==
  ASSUME TypeOK, NEW p \in Callers, NEW pc, GotoOrReturn(p, pc)
  PROVE  Goes(p, pc)
<1>1. CASE pc = "idle"
  BY <1>1, Shapes DEF GotoOrReturn, Return, NoCall, Goes, OthersStay
<1>2. CASE pc # "idle"
  BY <1>2, Shapes DEF GotoOrReturn, Goto, Goes, OthersStay
<1> QED BY <1>1, <1>2

LEMMA ReleaseKeeps ==
  ASSUME TypeOK, NEW s, NEW ok \in BOOLEAN, Release(s, ok), slot' \in {slot, None},
         UNCHANGED <<overtaken, displaced>>
  PROVE  /\ StagersKeep /\ NoMix
         /\ Orderly' /\ s \in Stagers => stager'[s].done
BY ReleaseMoves DEF StagersKeep, NoMix, Orderly

LEMMA StagersCalm ==
  ASSUME TypeOK, UNCHANGED <<slot, releaseFaults, overtaken, displaced>>,
         stager' = stager \/ (\E s : Touch(s))
  PROVE  StagersKeep /\ NoMix
BY TouchMoves DEF StagersKeep, NoMix, Orderly

(* A transition is made with this preparation, or the memory stays. *)
Rewrites(p, rev, state, prep, good, bad) ==
  \/ /\ MayMove(rev, state) /\ Goes(p, good)
     /\ mem'.state = state /\ mem'.rev = mem.rev /\ mem'.preview = mem.preview /\ mem'.prep = prep
     /\ disk' = mem'
  \/ mem' = mem /\ Goes(p, bad) /\ (disk' = disk \/ disk'.preview = mem.preview)

LEMMA TransitionRewrites ==
  ASSUME TypeOK, NEW p \in Callers, NEW rev, NEW state, NEW prep, NEW end, NEW good, NEW bad,
         TransitionPlan(p, rev, state, prep, end, good, bad)
  PROVE  Rewrites(p, rev, state, prep, good, bad)
<1> DEFINE record == Moved(p, state, prep)
<1>1. /\ record.state = state /\ record.rev = mem.rev /\ record.preview = mem.preview /\ record.prep = prep
  BY Shapes DEF Moved
<1> HIDE DEF record
<1>2. CASE MayMove(rev, state) /\ end = "ok"
  <2>1. disk' = record /\ mem' = record /\ GotoOrReturn(p, good)
    BY <1>2 DEF TransitionPlan, Persist, record
  <2> QED BY <1>1, <1>2, <2>1, GotoGoes DEF Rewrites
<1>3. CASE MayMove(rev, state) /\ end # "ok"
  <2>1. disk' \in {disk, record} /\ mem' = mem /\ GotoOrReturn(p, bad)
    BY <1>3 DEF TransitionPlan, Persist, record
  <2> QED BY <1>1, <1>3, <2>1, GotoGoes DEF Rewrites
<1>4. CASE ~MayMove(rev, state)
  BY <1>4, GotoGoes DEF TransitionPlan, Rewrites
<1> QED BY <1>2, <1>3, <1>4

(* A prepare finds its stager, and takes and returns the lease. *)
LEMMA ContentLookup ==
  ASSUME TypeOK, IInv, ContentInv, NEW p \in Callers,
         \/ LookupStager(p) \/ (\E ok \in BOOLEAN : EvictStager(p, ok)) \/ (\E s \in Stagers : CreateStager(p, s))
         \/ AcquirePrepareLease(p) \/ (\E ok \in BOOLEAN : PreviewedPlan(p, ok)) \/ ReleasePrepareLease(p)
  PROVE  MadeInv' /\ SeenInv' /\ WantInv' /\ ReachKnown' /\ ReadyKnown' /\ PrepKnown' /\ ReopenKnown' /\ CommitKnown'
<1> USE Shapes, StagerShapes, ContentShapes DEF C, Holds, HasStager, Staging, Prepared, Goes, OthersStay, At,
            Rewrites, MayMove, StagersKeep, NoMix, Calm, Quiet, Made, Current, InReach, Reusable, Orderly
<1> DEFINE Wanted == MadeInv /\ SeenInv /\ WantInv /\ ReachKnown /\ ReadyKnown /\ PrepKnown /\ ReopenKnown /\ CommitKnown
<1>1. /\ StagerInv /\ PreviewInv /\ CompactInv /\ KnownInv
      /\ InPlace /\ MadeInv /\ SeenInv /\ WantInv /\ ReachKnown /\ ReadyKnown /\ PrepKnown /\ ReopenKnown /\ CommitKnown
  BY Parts, ContentParts
<1>2. ASSUME LookupStager(p) PROVE Wanted'
  <2>1. /\ Quiet /\ OthersStay(p) /\ call[p].pc = "lookup"
        /\ call'[p].op = call[p].op /\ call'[p].rev = call[p].rev /\ call'[p].want = call[p].want
        /\ call'[p].tok = call[p].tok /\ call'[p].seen = call[p].seen
        /\ \/ call'[p].pc = "create" /\ call'[p].st = call[p].st
           \/ call'[p].pc = "evict"
           \/ call'[p].pc = "lease" /\ call'[p].st = slot /\ slot # None /\ Reusable(slot, call[p].rev)
    <3>1. StagersKeep /\ NoMix
      BY <1>2, StagersCalm DEF LookupStager, bounds, history
    <3> QED BY <1>2, <3>1 DEF LookupStager, Goto, bounds, history
  <2>2. MadeInv' /\ SeenInv' /\ WantInv'
    BY <1>1, <2>1 DEF MadeInv, StagerInv, SeenInv, PreviewInv, WantInv
  <2>3. ReachKnown' /\ ReadyKnown' /\ PrepKnown' /\ ReopenKnown' /\ CommitKnown'
    BY <1>1, <2>1 DEF ReachKnown, ReachInv, SeenInv, KnownInv, StagingInv, ReadyKnown, ReadyInv, InPlace,
       PrepKnown, PrepInv, ReopenKnown, ReopenInv, RollingInv, CommitKnown, CommitInv, WriteSet, Durable,
       ApplyingInv, StagerInv
  <2> QED BY <2>2, <2>3
<1>3. ASSUME NEW ok \in BOOLEAN, EvictStager(p, ok) PROVE Wanted'
  <2>1. /\ Quiet /\ OthersStay(p) /\ call[p].pc = "evict" /\ call'[p].pc = "create" /\ call'[p].op = call[p].op
        /\ call'[p].rev = call[p].rev /\ call'[p].want = call[p].want /\ call'[p].tok = call[p].tok
        /\ call'[p].seen = call[p].seen /\ call'[p].st = None
    <3>1. StagersKeep /\ NoMix
      BY <1>3, ReleaseKeeps DEF EvictStager, history
    <3> QED BY <1>3, <3>1 DEF EvictStager, history
  <2>2. MadeInv' /\ SeenInv' /\ WantInv'
    BY <1>1, <2>1 DEF MadeInv, StagerInv, SeenInv, PreviewInv, WantInv
  <2>3. ReachKnown' /\ ReadyKnown' /\ PrepKnown' /\ ReopenKnown' /\ CommitKnown'
    BY <1>1, <2>1 DEF ReachKnown, ReachInv, SeenInv, KnownInv, StagingInv, ReadyKnown, ReadyInv, InPlace,
       PrepKnown, PrepInv, ReopenKnown, ReopenInv, RollingInv, CommitKnown, CommitInv, WriteSet, Durable,
       ApplyingInv, StagerInv
  <2> QED BY <2>2, <2>3
<1>4. ASSUME NEW s \in Stagers, CreateStager(p, s) PROVE Wanted'
  <2>1. /\ NoMix /\ UNCHANGED <<mem, disk, canon, committed>> /\ OthersStay(p)
        /\ call[p].pc = "create" /\ call'[p].pc = "lease"
        /\ call'[p].op = call[p].op /\ call'[p].rev = call[p].rev /\ call'[p].want = call[p].want
        /\ call'[p].tok = call[p].tok /\ call'[p].seen = call[p].seen
        /\ \/ /\ StagersKeep
              /\ call'[p].st = slot /\ slot # None /\ Reusable(slot, call[p].rev)
           \/ /\ slot' = s /\ call'[p].st = s /\ \A q \in Callers : call[q].st # s
              /\ stager'[s].rev = call[p].rev /\ stager'[s].made = None /\ ~stager'[s].box
              /\ \A t \in Stagers : t # s => stager'[t] = stager[t]
    <3>1. CASE slot # None /\ Reusable(slot, call[p].rev)
      <4>1. StagersKeep /\ NoMix
        BY <1>4, <3>1, StagersCalm DEF CreateStager, bounds
      <4> QED BY <1>4, <3>1, <4>1 DEF CreateStager, bounds
    <3>2. CASE ~(slot # None /\ Reusable(slot, call[p].rev))
      <4>1. displaced => displaced'
        BY <1>4, <3>2 DEF CreateStager
      <4>2. NoMix
        BY <1>4, <4>1 DEF CreateStager, bounds
      <4>3. \A q \in Callers : call[q].st # s
        BY <1>4, <3>2 DEF CreateStager, NewStager, Referenced
      <4> QED BY <1>4, <3>2, <4>2, <4>3 DEF CreateStager, FreshStager, bounds
    <3> QED BY <3>1, <3>2
  <2>2. MadeInv' /\ SeenInv' /\ WantInv'
    BY <1>1, <2>1 DEF MadeInv, StagerInv, SeenInv, PreviewInv, WantInv
  <2>3. ReachKnown' /\ ReadyKnown' /\ PrepKnown' /\ ReopenKnown' /\ CommitKnown'
    BY <1>1, <2>1 DEF ReachKnown, ReachInv, SeenInv, KnownInv, StagingInv, ReadyKnown, ReadyInv, InPlace,
       PrepKnown, PrepInv, ReopenKnown, ReopenInv, RollingInv, CommitKnown, CommitInv, WriteSet, Durable,
       ApplyingInv, StagerInv
  <2> QED BY <2>2, <2>3
<1>5. ASSUME AcquirePrepareLease(p) PROVE Wanted'
  <2>1. /\ Quiet /\ call[p].pc = "lease"
        /\ Goes(p, "idle") \/ Goes(p, "preview") \/ (Goes(p, "compare") /\ call[p].op = "apply")
    BY <1>5, Shapes, StagerShapes, StagersCalm, GotoGoes DEF AcquirePrepareLease, PreparedPc, GotoOrReturn,
       bounds, history
  <2>2. MadeInv' /\ SeenInv' /\ WantInv'
    BY <1>1, <2>1 DEF MadeInv, StagerInv, SeenInv, PreviewInv, WantInv
  <2>3. ReachKnown' /\ ReadyKnown' /\ PrepKnown' /\ ReopenKnown' /\ CommitKnown'
    BY <1>1, <2>1 DEF ReachKnown, ReachInv, SeenInv, KnownInv, StagingInv, ReadyKnown, ReadyInv, InPlace,
       PrepKnown, PrepInv, ReopenKnown, ReopenInv, RollingInv, CommitKnown, CommitInv, WriteSet, Durable,
       ApplyingInv, StagerInv
  <2> QED BY <2>2, <2>3
<1>6. ASSUME NEW ok \in BOOLEAN, PreviewedPlan(p, ok) PROVE Wanted'
  <2>1. /\ Quiet /\ OthersStay(p) /\ call[p].pc = "preview"
        /\ call'[p].op = call[p].op /\ call'[p].rev = call[p].rev /\ call'[p].want = call[p].want
        /\ call'[p].tok = call[p].tok /\ call'[p].st = call[p].st /\ call'[p].pc \in {"mark", "unlease", "save"}
        /\ call'[p].seen \in {call[p].seen, canon} \/ (mem.preview # None /\ call'[p].seen = mem.preview.seen)
    <3>1. StagersKeep /\ NoMix
      BY <1>6, StagersCalm DEF PreviewedPlan, bounds, history
    <3> QED BY <1>6, <3>1 DEF PreviewedPlan, CurrentPreview, Goto, bounds, history
  <2>2. MadeInv' /\ SeenInv' /\ WantInv'
    BY <1>1, <2>1 DEF MadeInv, StagerInv, SeenInv, PreviewInv, WantInv
  <2>3. ReachKnown' /\ ReadyKnown' /\ PrepKnown' /\ ReopenKnown' /\ CommitKnown'
    BY <1>1, <2>1 DEF ReachKnown, ReachInv, SeenInv, KnownInv, StagingInv, ReadyKnown, ReadyInv, InPlace,
       PrepKnown, PrepInv, ReopenKnown, ReopenInv, RollingInv, CommitKnown, CommitInv, WriteSet, Durable,
       ApplyingInv, StagerInv
  <2> QED BY <2>2, <2>3
<1>7. ASSUME ReleasePrepareLease(p) PROVE Wanted'
  <2>1. Quiet /\ call[p].pc = "unlease" /\ Goes(p, "idle")
    BY <1>7, Shapes, StagerShapes, StagersCalm, GotoGoes DEF ReleasePrepareLease, GotoOrReturn, bounds,
       history
  <2>2. MadeInv' /\ SeenInv' /\ WantInv'
    BY <1>1, <2>1 DEF MadeInv, StagerInv, SeenInv, PreviewInv, WantInv
  <2>3. ReachKnown' /\ ReadyKnown' /\ PrepKnown' /\ ReopenKnown' /\ CommitKnown'
    BY <1>1, <2>1 DEF ReachKnown, ReachInv, SeenInv, KnownInv, StagingInv, ReadyKnown, ReadyInv, InPlace,
       PrepKnown, PrepInv, ReopenKnown, ReopenInv, RollingInv, CommitKnown, CommitInv, WriteSet, Durable,
       ApplyingInv, StagerInv
  <2> QED BY <2>2, <2>3
<1> QED BY <1>2, <1>3, <1>4, <1>5, <1>6, <1>7

(* A prepare stages, undoes its staging, and records the outcome. *)
LEMMA ContentStage ==
  ASSUME TypeOK, IInv, ContentInv, NEW p \in Callers, NEW end \in Ends,
         \/ SavePreview(p, end) \/ MarkPreparing(p, end) \/ StageRequest(p) \/ StageBegin(p)
         \/ (\E variant \in Variants : StageEnd(p, variant)) \/ RecordInvariants(p, end) \/ NoInvariants(p)
         \/ (\E state \in Verdicts : MarkPrepared(p, state, end)) \/ (\E ok \in BOOLEAN : UndoStage(p, ok))
         \/ MarkFailed(p, end)
  PROVE  MadeInv' /\ SeenInv' /\ WantInv' /\ ReachKnown' /\ ReadyKnown' /\ PrepKnown' /\ ReopenKnown' /\ CommitKnown'
<1> USE Shapes, StagerShapes, ContentShapes DEF C, Holds, HasStager, Staging, Prepared, Goes, OthersStay, At,
            Rewrites, MayMove, StagersKeep, NoMix, Calm, Quiet, Made, Current, InReach, Reusable, Orderly
<1> DEFINE Wanted == MadeInv /\ SeenInv /\ WantInv /\ ReachKnown /\ ReadyKnown /\ PrepKnown /\ ReopenKnown /\ CommitKnown
<1>1. /\ StagerInv /\ PreviewInv /\ CompactInv /\ KnownInv
      /\ InPlace /\ MadeInv /\ SeenInv /\ WantInv /\ ReachKnown /\ ReadyKnown /\ PrepKnown /\ ReopenKnown /\ CommitKnown
  BY Parts, ContentParts
<1>2. ASSUME SavePreview(p, end) PROVE Wanted'
  <2>1. /\ Calm /\ call[p].pc = "save"
        /\ Goes(p, "idle") \/ (call[p].op # "preview" /\ (Goes(p, "mark") \/ Goes(p, "unlease")))
        /\ \/ UNCHANGED <<mem, disk>>
           \/ /\ mem.state \in {"OPEN", "PREVIEWED"} /\ mem'.state = "PREVIEWED" /\ mem'.rev = mem.rev
              /\ mem'.preview # None /\ mem'.preview.seen = call[p].seen /\ disk' \in {disk, mem'}
    <3> DEFINE record == [mem EXCEPT !.state = "PREVIEWED", !.fresh = TRUE,
                          !.preview = [rev |-> call[p].rev, seen |-> call[p].seen, ok |-> call[p].ok]]
    <3>0. StagersKeep /\ NoMix
      BY <1>2, StagersCalm DEF SavePreview, history
    <3>1. record.state = "PREVIEWED" /\ record.rev = mem.rev
      BY Shapes
    <3>2. record.preview # None /\ record.preview.seen = call[p].seen
      <4>1. [rev |-> call[p].rev, seen |-> call[p].seen, ok |-> call[p].ok] \in Previews
        BY DEF TypeOK, Calls, Previews
      <4>2. record.preview = [rev |-> call[p].rev, seen |-> call[p].seen, ok |-> call[p].ok]
        BY Shapes
      <4> QED BY <4>1, <4>2, NoneAssumption
    <3>3. CASE Previewable(call[p].rev)
      <4>1. Persist(record, end) /\ mem' = record
        BY <1>2, <3>3 DEF SavePreview
      <4>2. \/ GotoOrReturn(p, "idle")
            \/ call[p].op # "preview" /\ (GotoOrReturn(p, "mark") \/ GotoOrReturn(p, "unlease"))
        BY <1>2, <3>3 DEF SavePreview
      <4>3. disk' \in {disk, record}
        BY <4>1 DEF Persist
      <4> HIDE DEF record
      <4> QED BY <1>2, <3>0, <3>1, <3>2, <3>3, <4>1, <4>2, <4>3, GotoGoes DEF SavePreview, Previewable,
         history
    <3>4. CASE ~Previewable(call[p].rev)
      <4>1. \/ GotoOrReturn(p, "idle")
            \/ call[p].op # "preview" /\ GotoOrReturn(p, "unlease")
        BY <1>2, <3>4 DEF SavePreview
      <4> QED BY <1>2, <3>0, <3>4, <4>1, GotoGoes DEF SavePreview, history
    <3> QED BY <3>3, <3>4
  <2>2. MadeInv' /\ SeenInv' /\ WantInv'
    BY <1>1, <2>1 DEF MadeInv, StagerInv, SeenInv, PreviewInv, WantInv
  <2>3. ReachKnown' /\ ReadyKnown' /\ PrepKnown' /\ ReopenKnown' /\ CommitKnown'
    BY <1>1, <2>1 DEF ReachKnown, ReachInv, SeenInv, KnownInv, StagingInv, ReadyKnown, ReadyInv, InPlace,
       PrepKnown, PrepInv, ReopenKnown, ReopenInv, RollingInv, CommitKnown, CommitInv, WriteSet, Durable,
       ApplyingInv, StagerInv
  <2> QED BY <2>2, <2>3
<1>3. ASSUME MarkPreparing(p, end) PROVE Wanted'
  <2>1. /\ Calm /\ call[p].pc = "mark"
        /\ Rewrites(p, call[p].rev, "PREPARING", None, "request", "unlease")
    <3>1. TransitionPlan(p, call[p].rev, "PREPARING", None, end, "request", "unlease")
      BY <1>3 DEF MarkPreparing
    <3>2. StagersKeep /\ NoMix
      BY <1>3, StagersCalm DEF MarkPreparing, bounds, history
    <3> QED BY <1>3, <3>1, <3>2, TransitionRewrites DEF MarkPreparing, bounds, history
  <2>2. MadeInv' /\ SeenInv' /\ WantInv'
    BY <1>1, <2>1, Sources DEF MadeInv, StagerInv, SeenInv, PreviewInv, WantInv
  <2>3. ReachKnown' /\ ReadyKnown' /\ PrepKnown' /\ ReopenKnown' /\ CommitKnown'
    BY <1>1, <2>1, Sources DEF ReachKnown, ReachInv, SeenInv, KnownInv, StagingInv, ReadyKnown, ReadyInv,
       InPlace, PrepKnown, PrepInv, ReopenKnown, ReopenInv, RollingInv, CommitKnown, CommitInv, WriteSet,
       Durable, ApplyingInv, StagerInv
  <2> QED BY <2>2, <2>3
<1>4. ASSUME StageRequest(p) PROVE Wanted'
  <2>1. /\ Quiet /\ call[p].pc = "request"
        /\ Goes(p, "failed") \/ (Goes(p, "stage") /\ canon = call[p].seen)
    BY <1>4, Shapes, StagerShapes, StagersCalm, GotoGoes DEF StageRequest, GotoOrReturn, bounds, history
  <2>2. MadeInv' /\ SeenInv' /\ WantInv'
    BY <1>1, <2>1 DEF MadeInv, StagerInv, SeenInv, PreviewInv, WantInv
  <2>3. ReachKnown' /\ ReadyKnown' /\ PrepKnown' /\ ReopenKnown' /\ CommitKnown'
    BY <1>1, <2>1 DEF ReachKnown, ReachInv, SeenInv, KnownInv, StagingInv, ReadyKnown, ReadyInv, InPlace,
       PrepKnown, PrepInv, ReopenKnown, ReopenInv, RollingInv, CommitKnown, CommitInv, WriteSet, Durable,
       ApplyingInv, StagerInv
  <2> QED BY <2>2, <2>3
<1>5. ASSUME StageBegin(p) PROVE Wanted'
  <2>1. /\ NoMix /\ UNCHANGED <<mem, disk, canon, committed, slot>> /\ call[p].pc = "stage" /\ Unlocked(call[p].st)
        /\ \/ Goes(p, "undo") /\ UNCHANGED stager
           \/ /\ Goes(p, "staging") /\ ~stager[call[p].st].done /\ ~stager[call[p].st].box
              /\ stager'[call[p].st].box
              /\ \A t \in Stagers : stager'[t].rev = stager[t].rev
              /\ \A t \in Stagers : stager'[t].made = stager[t].made
              /\ \A t \in Stagers : stager'[t].done = stager[t].done
              /\ \A t \in Stagers : t # call[p].st => stager'[t] = stager[t]
    <3>1. call[p].pc = "stage" /\ call[p].st \in Stagers
      BY <1>1, <1>5 DEF StageBegin, StagerInv
    <3>2. NoMix
      BY <1>5 DEF StageBegin, bounds, history
    <3>3. ASSUME stager' = [stager EXCEPT ![call[p].st].box = TRUE]
          PROVE  /\ stager'[call[p].st].box
                 /\ \A t \in Stagers : stager'[t].rev = stager[t].rev
                 /\ \A t \in Stagers : stager'[t].made = stager[t].made
                 /\ \A t \in Stagers : stager'[t].done = stager[t].done
                 /\ \A t \in Stagers : t # call[p].st => stager'[t] = stager[t]
      <4>1. stager' = [stager EXCEPT ![call[p].st] = [stager[call[p].st] EXCEPT !.box = TRUE]]
        BY <3>3
      <4> QED BY <3>1, <4>1
    <3> QED BY <1>5, <3>1, <3>2, <3>3, GotoGoes DEF StageBegin, GotoOrReturn, bounds, history
  <2>2. MadeInv' /\ SeenInv' /\ WantInv'
    BY <1>1, <2>1 DEF MadeInv, StagerInv, SeenInv, PreviewInv, WantInv
  <2>3. ReachKnown' /\ PrepKnown' /\ ReopenKnown' /\ CommitKnown'
    BY <1>1, <2>1 DEF ReachKnown, ReachInv, SeenInv, KnownInv, StagingInv, PrepKnown, PrepInv, ReopenKnown,
       ReopenInv, RollingInv, CommitKnown, CommitInv, WriteSet, Durable, ApplyingInv, StagerInv
  <2>4. ReadyKnown'
    <3>1. ASSUME Orderly, Goes(p, "staging"), ~stager[call[p].st].done PROVE slot = call[p].st
      BY <1>1, <2>1, <3>1 DEF InPlace, StagerInv
    <3>2. ASSUME NEW q \in Callers, Orderly, call[q].pc \in {"staging", "record", "ready"} PROVE q = p
      BY <1>1, <2>1, <3>2 DEF KnownInv, StagingInv
    <3>3. ASSUME Orderly', NEW q \in Callers, call'[q].pc \in {"staging", "record", "ready"}
          PROVE  q = p /\ slot = call[p].st
      BY <2>1, <3>1, <3>2, <3>3
    <3> QED BY <1>1, <2>1, <3>3 DEF ReadyKnown, ReadyInv
  <2> QED BY <2>2, <2>3, <2>4
<1>6. ASSUME NEW variant \in Variants, StageEnd(p, variant) PROVE Wanted'
  <2>1. /\ NoMix /\ UNCHANGED <<mem, disk, canon, committed, slot>> /\ call[p].pc = "staging" /\ call[p].st \in Stagers
        /\ \A t \in Stagers : stager'[t].rev = stager[t].rev
        /\ \A t \in Stagers : stager'[t].done = stager[t].done
        /\ \A t \in Stagers : t # call[p].st => stager'[t] = stager[t]
        /\ \/ /\ Goes(p, "record") /\ stager'[call[p].st].box = stager[call[p].st].box
              /\ stager'[call[p].st].made # None /\ stager'[call[p].st].made.rev = call[p].rev
              /\ stager'[call[p].st].made.seen = call[p].seen
           \/ Goes(p, "undo") /\ stager'[call[p].st].made = stager[call[p].st].made
    <3>1. call[p].pc = "staging" /\ call[p].st \in Stagers
      BY <1>1, <1>6 DEF StageEnd, StagerInv
    <3>2. NoMix
      BY <1>6 DEF StageEnd, bounds, history
    <3>3. PICK tok : tok = Staged(p, variant)
      OBVIOUS
    <3>4. tok # None /\ tok.rev = call[p].rev /\ tok.seen = call[p].seen
      <4>1. Staged(p, variant) \in Tokens
        BY DEF TypeOK, Calls, Staged, Tokens
      <4> QED BY <3>3, <4>1 DEF Staged
    <3>5. \/ /\ GotoOrReturn(p, "record")
             /\ stager' = [stager EXCEPT ![call[p].st] = [stager[call[p].st] EXCEPT !.made = tok, !.used = "now"]]
          \/ \E keeps \in BOOLEAN :
               /\ GotoOrReturn(p, "undo")
               /\ stager' = [stager EXCEPT ![call[p].st] = [stager[call[p].st] EXCEPT !.box = keeps]]
      <4>1. \/ /\ Goto(p, "record")
               /\ stager' = [stager EXCEPT ![call[p].st].made = tok, ![call[p].st].used = "now"]
            \/ \E keeps \in BOOLEAN : Goto(p, "undo") /\ stager' = [stager EXCEPT ![call[p].st].box = keeps]
        BY <1>6, <3>3 DEF StageEnd, Goto
      <4> QED BY <4>1 DEF GotoOrReturn
    <3>6. CASE stager' = [stager EXCEPT ![call[p].st] = [stager[call[p].st] EXCEPT !.made = tok, !.used = "now"]]
                 /\ GotoOrReturn(p, "record")
      BY <1>6, <3>1, <3>2, <3>4, <3>6, GotoGoes DEF StageEnd, bounds, history
    <3>7. ASSUME NEW keeps \in BOOLEAN, GotoOrReturn(p, "undo"),
                 stager' = [stager EXCEPT ![call[p].st] = [stager[call[p].st] EXCEPT !.box = keeps]]
          PROVE  /\ Goes(p, "undo") /\ stager'[call[p].st].made = stager[call[p].st].made
                 /\ \A t \in Stagers : stager'[t].rev = stager[t].rev
                 /\ \A t \in Stagers : stager'[t].done = stager[t].done
                 /\ \A t \in Stagers : t # call[p].st => stager'[t] = stager[t]
      BY <3>1, <3>7, GotoGoes
    <3> QED BY <1>6, <3>1, <3>2, <3>5, <3>6, <3>7 DEF StageEnd, bounds, history
  <2>2. MadeInv' /\ SeenInv' /\ WantInv'
    BY <1>1, <2>1 DEF MadeInv, StagerInv, SeenInv, PreviewInv, WantInv
  <2>3. ReadyKnown' /\ PrepKnown' /\ CommitKnown'
    BY <1>1, <2>1 DEF ReadyKnown, ReadyInv, SeenInv, KnownInv, StagingInv, InPlace, PrepKnown, PrepInv,
       CommitKnown, CommitInv, WriteSet, Durable, ApplyingInv, StagerInv
  <2>4. ReachKnown'
    <3>1. ASSUME Orderly PROVE mem.state = "PREPARING" /\ mem.rev = call[p].rev
      BY <1>1, <2>1, <3>1 DEF KnownInv, StagingInv
    <3>2. stager[call[p].st].rev = call[p].rev
      BY <1>1, <2>1 DEF MadeInv
    <3>3. ASSUME Orderly, Current PROVE call[p].seen = canon
      BY <1>1, <2>1, <3>3 DEF ReadyKnown, ReadyInv
    <3>4. ASSUME NEW s \in Stagers, InReach(s)' PROVE InReach(s)
      BY <2>1, <3>4
    <3>5. ASSUME Orderly', NEW s \in Stagers, InReach(s)', Made(s)', s # call[p].st
          PROVE  /\ (stager[s].rev <= mem.rev \/ mem.state = "GONE")'
                 /\ (stager[s].rev = mem.rev => mem.state \notin {"OPEN", "PREVIEWED"} /\ (Current => stager[s].made.seen = canon))'
      BY <1>1, <2>1, <3>4, <3>5 DEF ReachKnown, ReachInv
    <3>6. ASSUME Orderly', NEW s \in Stagers, InReach(s)', Made(s)', s = call[p].st
          PROVE  /\ (stager[s].rev <= mem.rev \/ mem.state = "GONE")'
                 /\ (stager[s].rev = mem.rev => mem.state \notin {"OPEN", "PREVIEWED"} /\ (Current => stager[s].made.seen = canon))'
      BY <1>1, <2>1, <3>1, <3>2, <3>3, <3>6 DEF MadeInv
    <3> QED BY <3>5, <3>6 DEF ReachKnown, ReachInv
  <2>5. ReopenKnown'
    <3>1. ASSUME Orderly, C.op = "edit" PROVE C.pc \notin {"rolling", "rollback", "reset", "reopen"} \/ p = Canonical
      BY <1>1, <2>1, <3>1 DEF KnownInv, StagingInv, RollingInv, RollingBack
    <3> QED BY <1>1, <2>1, <3>1 DEF ReopenKnown, ReopenInv
  <2> QED BY <2>2, <2>3, <2>4, <2>5
<1>7. ASSUME RecordInvariants(p, end) PROVE Wanted'
  <2>1. /\ Calm /\ call[p].pc = "record" /\ UNCHANGED mem /\ disk' \in {disk, mem}
        /\ Goes(p, "ready") \/ Goes(p, "failed")
    BY <1>7, Shapes, StagerShapes, StagersCalm, GotoGoes DEF RecordInvariants, Persist, Goto, GotoOrReturn,
       bounds, history
  <2>2. MadeInv' /\ SeenInv' /\ WantInv'
    BY <1>1, <2>1 DEF MadeInv, StagerInv, SeenInv, PreviewInv, WantInv
  <2>3. ReachKnown' /\ ReadyKnown' /\ PrepKnown' /\ ReopenKnown' /\ CommitKnown'
    BY <1>1, <2>1 DEF ReachKnown, ReachInv, SeenInv, KnownInv, StagingInv, ReadyKnown, ReadyInv, InPlace,
       PrepKnown, PrepInv, ReopenKnown, ReopenInv, RollingInv, CommitKnown, CommitInv, WriteSet, Durable,
       ApplyingInv, StagerInv
  <2> QED BY <2>2, <2>3
<1>8. ASSUME NoInvariants(p) PROVE Wanted'
  <2>1. Quiet /\ call[p].pc = "record" /\ Goes(p, "ready")
    BY <1>8, Shapes, StagerShapes, StagersCalm, GotoGoes DEF NoInvariants, GotoOrReturn, Goto, bounds,
       history
  <2>2. MadeInv' /\ SeenInv' /\ WantInv'
    BY <1>1, <2>1 DEF MadeInv, StagerInv, SeenInv, PreviewInv, WantInv
  <2>3. ReachKnown' /\ ReadyKnown' /\ PrepKnown' /\ ReopenKnown' /\ CommitKnown'
    BY <1>1, <2>1 DEF ReachKnown, ReachInv, SeenInv, KnownInv, StagingInv, ReadyKnown, ReadyInv, InPlace,
       PrepKnown, PrepInv, ReopenKnown, ReopenInv, RollingInv, CommitKnown, CommitInv, WriteSet, Durable,
       ApplyingInv, StagerInv
  <2> QED BY <2>2, <2>3
<1>9. ASSUME NEW state \in Verdicts, MarkPrepared(p, state, end) PROVE Wanted'
  <2>1. /\ Calm /\ call[p].pc = "ready" /\ state \in Prepared
        /\ \/ call[p].op # "apply" /\ Rewrites(p, call[p].rev, state, stager[call[p].st].made, "idle", "undo")
           \/ call[p].op = "apply" /\ Rewrites(p, call[p].rev, state, stager[call[p].st].made, "compare", "undo")
    <3>1. \/ /\ call[p].op # "apply"
             /\ TransitionPlan(p, call[p].rev, state, stager[call[p].st].made, end, "idle", "undo")
          \/ /\ call[p].op = "apply"
             /\ TransitionPlan(p, call[p].rev, state, stager[call[p].st].made, end, "compare", "undo")
      BY <1>9 DEF MarkPrepared, PreparedPc
    <3>2. StagersKeep /\ NoMix
      BY <1>9, StagersCalm DEF MarkPrepared, history
    <3> QED BY <1>9, <3>1, <3>2, ConstantTypes, TransitionRewrites DEF MarkPrepared, history
  <2>2. MadeInv' /\ SeenInv' /\ WantInv'
    BY <1>1, <2>1, Sources DEF MadeInv, StagerInv, SeenInv, PreviewInv, WantInv
  <2>3. ReachKnown' /\ ReadyKnown' /\ ReopenKnown' /\ CommitKnown'
    BY <1>1, <2>1, Sources DEF ReachKnown, ReachInv, SeenInv, KnownInv, StagingInv, ReadyKnown, ReadyInv,
       InPlace, ReopenKnown, ReopenInv, RollingInv, CommitKnown, CommitInv, WriteSet, Durable, ApplyingInv,
       StagerInv
  <2>4. PrepKnown'
    <3>1. /\ Made(call[p].st) /\ call[p].st \in Stagers
          /\ stager[call[p].st].made.rev = call[p].rev /\ stager[call[p].st].made.seen = call[p].seen
      BY <1>1, <2>1 DEF MadeInv, StagerInv
    <3>2. ASSUME Orderly, slot # None, ~stager[slot].done, Made(slot) PROVE slot = call[p].st
      BY <1>1, <2>1, <3>2 DEF ReadyKnown, ReadyInv
    <3>3. ASSUME Orderly, Current PROVE call[p].seen = canon
      BY <1>1, <2>1, <3>3 DEF ReadyKnown, ReadyInv
    <3>4. CASE mem' = mem
      BY <1>1, <2>1, <3>4 DEF PrepKnown, PrepInv
    <3>5. CASE mem' # mem
      BY <1>1, <2>1, <3>1, <3>2, <3>3, <3>5 DEF PrepKnown, PrepInv
    <3> QED BY <3>4, <3>5
  <2> QED BY <2>2, <2>3, <2>4
<1>10. ASSUME NEW ok \in BOOLEAN, UndoStage(p, ok) PROVE Wanted'
  <2>1. Quiet /\ call[p].pc = "undo" /\ Goes(p, "failed")
    BY <1>10, Shapes, StagerShapes, ReleaseKeeps, GotoGoes DEF UndoStage, GotoOrReturn, Goto, history
  <2>2. MadeInv' /\ SeenInv' /\ WantInv'
    BY <1>1, <2>1 DEF MadeInv, StagerInv, SeenInv, PreviewInv, WantInv
  <2>3. ReachKnown' /\ ReadyKnown' /\ PrepKnown' /\ ReopenKnown' /\ CommitKnown'
    BY <1>1, <2>1 DEF ReachKnown, ReachInv, SeenInv, KnownInv, StagingInv, ReadyKnown, ReadyInv, InPlace,
       PrepKnown, PrepInv, ReopenKnown, ReopenInv, RollingInv, CommitKnown, CommitInv, WriteSet, Durable,
       ApplyingInv, StagerInv
  <2> QED BY <2>2, <2>3
<1>11. ASSUME MarkFailed(p, end) PROVE Wanted'
  <2>1. /\ Calm /\ call[p].pc = "failed"
        /\ Rewrites(p, call[p].rev, "FAILED", None, "unlease", "unlease")
    <3>1. TransitionPlan(p, call[p].rev, "FAILED", None, end, "unlease", "unlease")
      BY <1>11 DEF MarkFailed
    <3>2. StagersKeep /\ NoMix
      BY <1>11, StagersCalm DEF MarkFailed, bounds, history
    <3> QED BY <1>11, <3>1, <3>2, TransitionRewrites DEF MarkFailed, bounds, history
  <2>2. MadeInv' /\ SeenInv' /\ WantInv'
    BY <1>1, <2>1, Sources DEF MadeInv, StagerInv, SeenInv, PreviewInv, WantInv
  <2>3. ReachKnown' /\ ReadyKnown' /\ PrepKnown' /\ ReopenKnown' /\ CommitKnown'
    BY <1>1, <2>1, Sources DEF ReachKnown, ReachInv, SeenInv, KnownInv, StagingInv, ReadyKnown, ReadyInv,
       InPlace, PrepKnown, PrepInv, ReopenKnown, ReopenInv, RollingInv, CommitKnown, CommitInv, WriteSet,
       Durable, ApplyingInv, StagerInv
  <2> QED BY <2>2, <2>3
<1> QED BY <1>2, <1>3, <1>4, <1>5, <1>6, <1>7, <1>8, <1>9, <1>10, <1>11

LEMMA StartGoes ==
  ASSUME TypeOK, NEW op, NEW rev, NEW pc, NEW st, Start(op, rev, pc, st)
  PROVE  /\ OthersStay(Canonical)
         /\ C'.pc = pc /\ C'.op = op /\ C'.st = st /\ C'.rev = rev /\ C'.want = rev /\ C'.seen = 0
BY Shapes DEF Start, NoCall, OthersStay, C

(* A call starts. *)
LEMMA ContentStarts ==
  ASSUME TypeOK, IInv, ContentInv, changePlan
  PROVE  MadeInv' /\ SeenInv' /\ WantInv' /\ ReachKnown' /\ ReadyKnown' /\ PrepKnown' /\ ReopenKnown' /\ CommitKnown'
<1> USE Shapes, StagerShapes, ContentShapes DEF C, Holds, HasStager, Staging, Prepared, Goes, OthersStay, At,
            Rewrites, MayMove, StagersKeep, NoMix, Calm, Quiet, Made, Current, InReach, Reusable, Orderly
<1> DEFINE Wanted == MadeInv /\ SeenInv /\ WantInv /\ ReachKnown /\ ReadyKnown /\ PrepKnown /\ ReopenKnown /\ CommitKnown
<1>1. /\ StagerInv /\ PreviewInv /\ CompactInv /\ KnownInv
      /\ InPlace /\ MadeInv /\ SeenInv /\ WantInv /\ ReachKnown /\ ReadyKnown /\ PrepKnown /\ ReopenKnown /\ CommitKnown
  BY Parts, ContentParts
<1>2. ASSUME NEW p \in Preparers, NEW rev \in Revisions, StartPrepare(p, rev) PROVE Wanted'
  <2>1. /\ Quiet /\ p \in Callers /\ p # Canonical /\ OthersStay(p) /\ call[p].pc = "idle" /\ call'[p].pc = "lookup"
        /\ call'[p].seen = 0
    <3>1. StagersKeep /\ NoMix
      BY <1>2, StagersCalm DEF StartPrepare, bounds, history
    <3> QED BY <1>2, <3>1, CallersAssumption DEF StartPrepare, NoCall, Callers, bounds, history
  <2>2. MadeInv' /\ SeenInv' /\ WantInv'
    BY <1>1, <2>1 DEF MadeInv, StagerInv, SeenInv, PreviewInv, WantInv
  <2>3. ReachKnown' /\ ReadyKnown' /\ PrepKnown' /\ ReopenKnown' /\ CommitKnown'
    BY <1>1, <2>1 DEF ReachKnown, ReachInv, SeenInv, KnownInv, StagingInv, ReadyKnown, ReadyInv, InPlace,
       PrepKnown, PrepInv, ReopenKnown, ReopenInv, RollingInv, CommitKnown, CommitInv, WriteSet, Durable,
       ApplyingInv, StagerInv
  <2> QED BY <2>2, <2>3
<1>3. ASSUME NEW ok \in BOOLEAN, StartPreview(ok) PROVE Wanted'
  <2>1. /\ Quiet /\ OthersStay(Canonical) /\ C.pc = "idle" /\ C'.pc = "save" /\ C'.op = "preview" /\ C'.seen = canon
    <3>1. StagersKeep /\ NoMix
      BY <1>3, StagersCalm DEF StartPreview, bounds, history
    <3> QED BY <1>3, <3>1 DEF StartPreview, NoCall, bounds, history
  <2>2. MadeInv' /\ SeenInv' /\ WantInv'
    BY <1>1, <2>1 DEF MadeInv, StagerInv, SeenInv, PreviewInv, WantInv
  <2>3. ReachKnown' /\ ReadyKnown' /\ PrepKnown' /\ ReopenKnown' /\ CommitKnown'
    BY <1>1, <2>1 DEF ReachKnown, ReachInv, SeenInv, KnownInv, StagingInv, ReadyKnown, ReadyInv, InPlace,
       PrepKnown, PrepInv, ReopenKnown, ReopenInv, RollingInv, CommitKnown, CommitInv, WriteSet, Durable,
       ApplyingInv, StagerInv
  <2> QED BY <2>2, <2>3
<1>4. ASSUME StartEdit PROVE Wanted'
  <2>1. /\ Quiet /\ OthersStay(Canonical) /\ C.pc = "idle" /\ C'.op = "edit" /\ C'.seen = 0
        /\ \/ C'.pc = "edit"
           \/ /\ C'.pc = "rolling"
              /\ slot # None /\ Reusable(slot, mem.rev) => C'.st = slot
    <3>1. StagersKeep /\ NoMix
      BY <1>4, StagersCalm DEF StartEdit, TouchFound, bounds, history
    <3>2. PICK pc, st : /\ Start("edit", mem.rev, pc, st)
                        /\ \/ pc = "edit"
                           \/ pc = "rolling" /\ (slot # None /\ Reusable(slot, mem.rev) => st = slot)
      <4>1. CASE mem.state \in Prepared
        <5>1. slot # None /\ Reusable(slot, mem.rev) => Found(mem.rev) = slot
          BY DEF Found, Lookup
        <5>2. Start("edit", mem.rev, "rolling", Found(mem.rev))
          BY <1>4, <4>1 DEF StartEdit
        <5> QED BY <5>1, <5>2
      <4>2. CASE mem.state \notin Prepared
        BY <1>4, <4>2 DEF StartEdit
      <4> QED BY <4>1, <4>2
    <3> QED BY <1>4, <3>1, <3>2, StartGoes DEF StartEdit, bounds, history
  <2>2. MadeInv' /\ SeenInv' /\ WantInv'
    BY <1>1, <2>1 DEF MadeInv, StagerInv, SeenInv, PreviewInv, WantInv
  <2>3. ReachKnown' /\ ReadyKnown' /\ PrepKnown' /\ ReopenKnown' /\ CommitKnown'
    BY <1>1, <2>1 DEF ReachKnown, ReachInv, SeenInv, KnownInv, StagingInv, ReadyKnown, ReadyInv, InPlace,
       PrepKnown, PrepInv, ReopenKnown, ReopenInv, RollingInv, CommitKnown, CommitInv, WriteSet, Durable,
       ApplyingInv, StagerInv
  <2> QED BY <2>2, <2>3
<1>5. ASSUME StartDiscard PROVE Wanted'
  <2>1. /\ Quiet /\ OthersStay(Canonical) /\ C.pc = "idle" /\ C'.op = "discard" /\ C'.seen = 0 /\ C'.pc \in {"discard", "rolling"}
    <3>1. StagersKeep /\ NoMix
      BY <1>5, StagersCalm DEF StartDiscard, bounds, history
    <3>2. PICK st, pc : Start("discard", mem.rev, pc, st) /\ pc \in {"discard", "rolling"}
      BY <1>5 DEF StartDiscard
    <3> QED BY <1>5, <3>1, <3>2, StartGoes DEF StartDiscard, bounds, history
  <2>2. MadeInv' /\ SeenInv' /\ WantInv'
    BY <1>1, <2>1 DEF MadeInv, StagerInv, SeenInv, PreviewInv, WantInv
  <2>3. ReachKnown' /\ ReadyKnown' /\ PrepKnown' /\ ReopenKnown' /\ CommitKnown'
    BY <1>1, <2>1 DEF ReachKnown, ReachInv, SeenInv, KnownInv, StagingInv, ReadyKnown, ReadyInv, InPlace,
       PrepKnown, PrepInv, ReopenKnown, ReopenInv, RollingInv, CommitKnown, CommitInv, WriteSet, Durable,
       ApplyingInv, StagerInv
  <2> QED BY <2>2, <2>3
<1>6. ASSUME NEW rev \in Revisions, NEW tok \in Tokens, StartApply(rev, tok) PROVE Wanted'
  <2>1. /\ Quiet /\ OthersStay(Canonical) /\ C.pc = "idle" /\ C'.op = "apply" /\ C'.seen = 0
        /\ C'.tok = tok /\ C'.want = rev /\ rev <= C'.rev
        /\ \/ C'.pc = "lookup" /\ C'.st = None
           \/ /\ C'.pc = "admit" /\ C'.st = slot /\ slot # None /\ ~stager[slot].done
              /\ stager[slot].rev = rev /\ C'.rev = rev
    <3>1. StagersKeep /\ NoMix
      BY <1>6, StagersCalm DEF StartApply, bounds, history
    <3>2. ASSUME Lookup(rev) = "found", call' = [call EXCEPT ![Canonical] = [NoCall EXCEPT !.op = "apply",
                     !.rev = rev, !.want = rev, !.pc = "admit", !.st = slot, !.tok = tok]]
          PROVE  /\ OthersStay(Canonical) /\ C'.op = "apply" /\ C'.pc = "admit" /\ C'.st = slot /\ C'.seen = 0
                 /\ C'.tok = tok /\ C'.want = rev /\ C'.rev = rev
                 /\ slot # None /\ ~stager[slot].done /\ stager[slot].rev = rev
      BY <3>2, Shapes DEF Lookup, NoCall
    <3>3. ASSUME call' = [call EXCEPT ![Canonical] = [NoCall EXCEPT !.op = "apply", !.rev = mem.rev,
                     !.want = rev, !.pc = "lookup", !.tok = tok]]
          PROVE  /\ OthersStay(Canonical) /\ C'.op = "apply" /\ C'.pc = "lookup" /\ C'.st = None /\ C'.seen = 0
                 /\ C'.tok = tok /\ C'.want = rev /\ C'.rev = mem.rev
      BY <3>3, Shapes DEF NoCall
    <3>4. \/ Lookup(rev) = "found" /\ call' = [call EXCEPT ![Canonical] = [NoCall EXCEPT !.op = "apply",
                !.rev = rev, !.want = rev, !.pc = "admit", !.st = slot, !.tok = tok]]
          \/ call' = [call EXCEPT ![Canonical] = [NoCall EXCEPT !.op = "apply", !.rev = mem.rev,
                !.want = rev, !.pc = "lookup", !.tok = tok]]
      BY <1>6 DEF StartApply
    <3>5. rev \in Nat /\ rev <= mem.rev /\ C.pc = "idle" /\ UNCHANGED <<mem, disk, canon, committed>>
      BY <1>6 DEF StartApply, Revisions, bounds, history
    <3> QED BY <3>1, <3>2, <3>3, <3>4, <3>5
  <2>2. MadeInv' /\ SeenInv' /\ WantInv'
    BY <1>1, <2>1 DEF MadeInv, StagerInv, SeenInv, PreviewInv, WantInv
  <2>3. ReachKnown' /\ ReadyKnown' /\ PrepKnown' /\ ReopenKnown' /\ CommitKnown'
    BY <1>1, <2>1 DEF ReachKnown, ReachInv, SeenInv, KnownInv, StagingInv, ReadyKnown, ReadyInv, InPlace,
       PrepKnown, PrepInv, ReopenKnown, ReopenInv, RollingInv, CommitKnown, CommitInv, WriteSet, Durable,
       ApplyingInv, StagerInv
  <2> QED BY <2>2, <2>3
<1> QED BY <1>2, <1>3, <1>4, <1>5, <1>6 DEF changePlan

(* An edit or a discard goes on. *)
LEMMA ContentRollBack ==
  ASSUME TypeOK, IInv, ContentInv, NEW end \in Ends,
         \/ EditPlan(end) \/ DiscardPlan(end) \/ MarkRollingBack(end) \/ (\E ok \in BOOLEAN : RollbackStager(ok))
         \/ RollbackFailed(end) \/ ResetProofs(end) \/ ReopenPlan(end) \/ MarkRolledBack(end) \/ ReleaseLease
  PROVE  MadeInv' /\ SeenInv' /\ WantInv' /\ ReachKnown' /\ ReadyKnown' /\ PrepKnown' /\ ReopenKnown' /\ CommitKnown'
<1> USE Shapes, StagerShapes, ContentShapes DEF C, Holds, HasStager, Staging, Prepared, Goes, OthersStay, At,
            Rewrites, MayMove, StagersKeep, NoMix, Calm, Quiet, Made, Current, InReach, Reusable, Orderly
<1> DEFINE Wanted == MadeInv /\ SeenInv /\ WantInv /\ ReachKnown /\ ReadyKnown /\ PrepKnown /\ ReopenKnown /\ CommitKnown
<1>1. /\ StagerInv /\ PreviewInv /\ CompactInv /\ KnownInv
      /\ InPlace /\ MadeInv /\ SeenInv /\ WantInv /\ ReachKnown /\ ReadyKnown /\ PrepKnown /\ ReopenKnown /\ CommitKnown
  BY Parts, ContentParts
<1>2. ASSUME EditPlan(end) PROVE Wanted'
  <2>1. /\ Calm /\ C.pc = "edit" /\ Goes(Canonical, "idle")
        /\ \/ UNCHANGED <<mem, disk>>
           \/ /\ CanTransition(mem.state, "OPEN")
              /\ mem'.state = "OPEN" /\ mem'.rev = mem.rev + 1 /\ mem'.preview = None /\ disk' \in {disk, mem'}
    <3> DEFINE record == [mem EXCEPT !.state = "OPEN", !.rev = @ + 1, !.preview = None,
                                        !.prep = None, !.fresh = TRUE]
    <3>1. record.state = "OPEN" /\ record.rev = mem.rev + 1 /\ record.preview = None
      BY Shapes
    <3>2. Goes(Canonical, "idle")
      BY <1>2, Shapes, GotoGoes DEF EditPlan, GotoOrReturn
    <3>3. ASSUME Persist(record, end) PROVE disk' \in {disk, record}
      BY <3>3 DEF Persist
    <3>4. \/ UNCHANGED <<mem, disk>>
          \/ CanTransition(mem.state, "OPEN") /\ Persist(record, end) /\ mem' = record
      BY <1>2 DEF EditPlan
    <3>5. StagersKeep /\ NoMix
      BY <1>2, StagersCalm DEF EditPlan, history
    <3> HIDE DEF record
    <3> QED BY <1>2, <3>1, <3>2, <3>3, <3>4, <3>5 DEF EditPlan, history
  <2>2. MadeInv' /\ SeenInv' /\ WantInv'
    BY <1>1, <2>1, Sources DEF MadeInv, StagerInv, SeenInv, PreviewInv, WantInv
  <2>3. ReadyKnown' /\ PrepKnown' /\ ReopenKnown' /\ CommitKnown'
    BY <1>1, <2>1, Sources DEF ReadyKnown, ReadyInv, SeenInv, KnownInv, StagingInv, InPlace, PrepKnown,
       PrepInv, ReopenKnown, ReopenInv, RollingInv, CommitKnown, CommitInv, WriteSet, Durable, ApplyingInv,
       StagerInv
  <2>4. ReachKnown'
    <3>1. CASE UNCHANGED <<mem, disk>>
      BY <1>1, <2>1, <3>1 DEF ReachKnown, ReachInv
    <3>2. CASE CanTransition(mem.state, "OPEN") /\ mem'.rev = mem.rev + 1
      <4>1. ASSUME Orderly', NEW s \in Stagers, InReach(s)', Made(s)' PROVE stager'[s].rev <= mem.rev
        BY <1>1, <2>1, <3>2, <4>1, Sources DEF ReachKnown, ReachInv
      <4>2. ASSUME Orderly', NEW s \in Stagers, InReach(s)', Made(s)'
            PROVE  stager'[s].rev <= mem'.rev /\ stager'[s].rev # mem'.rev
        BY <2>1, <3>2, <4>1, <4>2
      <4> QED BY <4>2 DEF ReachKnown, ReachInv
    <3> QED BY <2>1, <3>1, <3>2
  <2> QED BY <2>2, <2>3, <2>4
<1>3. ASSUME DiscardPlan(end) PROVE Wanted'
  <2>1. /\ Calm /\ C.pc = "discard" /\ Goes(Canonical, "idle")
        /\ \/ UNCHANGED <<mem, disk>>
           \/ /\ CanTransition(mem.state, "DISCARDED")
              /\ mem'.state = "DISCARDED" /\ mem'.rev = mem.rev /\ mem'.preview = mem.preview /\ disk' \in {disk, mem'}
    <3> DEFINE record == [mem EXCEPT !.state = "DISCARDED", !.fresh = TRUE]
    <3>1. record.state = "DISCARDED" /\ record.rev = mem.rev /\ record.preview = mem.preview
      BY Shapes
    <3>2. Goes(Canonical, "idle")
      BY <1>3, Shapes, GotoGoes DEF DiscardPlan, GotoOrReturn
    <3>3. ASSUME Persist(record, end) PROVE disk' \in {disk, record}
      BY <3>3 DEF Persist
    <3>4. \/ UNCHANGED <<mem, disk>>
          \/ CanTransition(mem.state, "DISCARDED") /\ Persist(record, end) /\ mem' = record
      BY <1>3 DEF DiscardPlan
    <3>5. StagersKeep /\ NoMix
      BY <1>3, StagersCalm DEF DiscardPlan, history
    <3> HIDE DEF record
    <3> QED BY <1>3, <3>1, <3>2, <3>3, <3>4, <3>5 DEF DiscardPlan, history
  <2>2. MadeInv' /\ SeenInv' /\ WantInv'
    BY <1>1, <2>1, Sources DEF MadeInv, StagerInv, SeenInv, PreviewInv, WantInv
  <2>3. ReachKnown' /\ ReadyKnown' /\ PrepKnown' /\ ReopenKnown' /\ CommitKnown'
    BY <1>1, <2>1, Sources DEF ReachKnown, ReachInv, SeenInv, KnownInv, StagingInv, ReadyKnown, ReadyInv,
       InPlace, PrepKnown, PrepInv, ReopenKnown, ReopenInv, RollingInv, CommitKnown, CommitInv, WriteSet,
       Durable, ApplyingInv, StagerInv
  <2> QED BY <2>2, <2>3
<1>4. ASSUME MarkRollingBack(end) PROVE Wanted'
  <2>1. /\ Calm /\ C.pc = "rolling"
        /\ \/ C.st = None /\ Rewrites(Canonical, C.rev, "ROLLING_BACK", mem.prep, "reset", "idle")
           \/ C.st # None /\ Rewrites(Canonical, C.rev, "ROLLING_BACK", mem.prep, "rollback", "idle")
    <3>1. \/ /\ C.st = None
             /\ TransitionPlan(Canonical, C.rev, "ROLLING_BACK", mem.prep, end, "reset", "idle")
          \/ /\ C.st # None
             /\ TransitionPlan(Canonical, C.rev, "ROLLING_BACK", mem.prep, end, "rollback", "idle")
      BY <1>4 DEF MarkRollingBack
    <3>2. StagersKeep /\ NoMix
      BY <1>4, StagersCalm DEF MarkRollingBack, history
    <3> QED BY <1>4, <3>1, <3>2, TransitionRewrites DEF MarkRollingBack, history
  <2>2. MadeInv' /\ SeenInv' /\ WantInv'
    BY <1>1, <2>1, Sources DEF MadeInv, StagerInv, SeenInv, PreviewInv, WantInv
  <2>3. ReachKnown' /\ ReadyKnown' /\ PrepKnown' /\ ReopenKnown' /\ CommitKnown'
    BY <1>1, <2>1, Sources DEF ReachKnown, ReachInv, SeenInv, KnownInv, StagingInv, ReadyKnown, ReadyInv,
       InPlace, PrepKnown, PrepInv, ReopenKnown, ReopenInv, RollingInv, CommitKnown, CommitInv, WriteSet,
       Durable, ApplyingInv, StagerInv
  <2> QED BY <2>2, <2>3
<1>5. ASSUME NEW ok \in BOOLEAN, RollbackStager(ok) PROVE Wanted'
  <2>1. /\ Quiet /\ C.pc = "rollback"
        /\ \/ Goes(Canonical, "rbfailed") \/ Goes(Canonical, "rolledback")
           \/ Goes(Canonical, "reset")
        /\ Orderly' /\ C.st \in Stagers => stager'[C.st].done
    BY <1>5, Shapes, StagerShapes, ReleaseKeeps, GotoGoes DEF RollbackStager, GotoOrReturn, Goto, history
  <2>2. MadeInv' /\ SeenInv' /\ WantInv'
    BY <1>1, <2>1 DEF MadeInv, StagerInv, SeenInv, PreviewInv, WantInv
  <2>3. ReachKnown' /\ ReadyKnown' /\ PrepKnown' /\ ReopenKnown' /\ CommitKnown'
    BY <1>1, <2>1 DEF ReachKnown, ReachInv, SeenInv, KnownInv, StagingInv, ReadyKnown, ReadyInv, InPlace,
       PrepKnown, PrepInv, ReopenKnown, ReopenInv, RollingInv, CommitKnown, CommitInv, WriteSet, Durable,
       ApplyingInv, StagerInv
  <2> QED BY <2>2, <2>3
<1>6. ASSUME RollbackFailed(end) PROVE Wanted'
  <2>1. /\ Calm /\ C.pc = "rbfailed"
        /\ Rewrites(Canonical, C.rev, "FAILED", None, "idle", "idle")
    <3>1. TransitionPlan(Canonical, C.rev, "FAILED", None, end, "idle", "idle")
      BY <1>6 DEF RollbackFailed
    <3>2. StagersKeep /\ NoMix
      BY <1>6, StagersCalm DEF RollbackFailed, bounds
    <3> QED BY <1>6, <3>1, <3>2, TransitionRewrites DEF RollbackFailed, bounds
  <2>2. MadeInv' /\ SeenInv' /\ WantInv'
    BY <1>1, <2>1, Sources DEF MadeInv, StagerInv, SeenInv, PreviewInv, WantInv
  <2>3. ReachKnown' /\ ReadyKnown' /\ PrepKnown' /\ ReopenKnown' /\ CommitKnown'
    BY <1>1, <2>1, Sources DEF ReachKnown, ReachInv, SeenInv, KnownInv, StagingInv, ReadyKnown, ReadyInv,
       InPlace, PrepKnown, PrepInv, ReopenKnown, ReopenInv, RollingInv, CommitKnown, CommitInv, WriteSet,
       Durable, ApplyingInv, StagerInv
  <2> QED BY <2>2, <2>3
<1>7. ASSUME ResetProofs(end) PROVE Wanted'
  <2>1. /\ Calm /\ C.pc = "reset" /\ UNCHANGED mem /\ disk' \in {disk, mem}
        /\ Goes(Canonical, "reopen") \/ Goes(Canonical, "idle")
    <3>1. GotoOrReturn(Canonical, "reopen") \/ GotoOrReturn(Canonical, "idle")
      BY <1>7 DEF ResetProofs, GotoOrReturn
    <3>2. disk' \in {disk, mem}
      BY <1>7 DEF ResetProofs, Persist
    <3>3. StagersKeep /\ NoMix
      BY <1>7, StagersCalm DEF ResetProofs
    <3> QED BY <1>7, <3>1, <3>2, <3>3, GotoGoes DEF ResetProofs
  <2>2. MadeInv' /\ SeenInv' /\ WantInv'
    BY <1>1, <2>1 DEF MadeInv, StagerInv, SeenInv, PreviewInv, WantInv
  <2>3. ReachKnown' /\ ReadyKnown' /\ PrepKnown' /\ ReopenKnown' /\ CommitKnown'
    BY <1>1, <2>1 DEF ReachKnown, ReachInv, SeenInv, KnownInv, StagingInv, ReadyKnown, ReadyInv, InPlace,
       PrepKnown, PrepInv, ReopenKnown, ReopenInv, RollingInv, CommitKnown, CommitInv, WriteSet, Durable,
       ApplyingInv, StagerInv
  <2> QED BY <2>2, <2>3
<1>8. ASSUME ReopenPlan(end) PROVE Wanted'
  <2>1. /\ Calm /\ C.pc = "reopen"
        /\ Rewrites(Canonical, C.rev, "OPEN", None, "editable", "ended")
    <3>1. TransitionPlan(Canonical, C.rev, "OPEN", None, end, "editable", "ended")
      BY <1>8 DEF ReopenPlan
    <3>2. StagersKeep /\ NoMix
      BY <1>8, StagersCalm DEF ReopenPlan, bounds, history
    <3> QED BY <1>8, <3>1, <3>2, TransitionRewrites DEF ReopenPlan, bounds, history
  <2>2. MadeInv' /\ SeenInv' /\ WantInv'
    BY <1>1, <2>1, Sources DEF MadeInv, StagerInv, SeenInv, PreviewInv, WantInv
  <2>3. ReadyKnown' /\ PrepKnown' /\ ReopenKnown' /\ CommitKnown'
    BY <1>1, <2>1, Sources DEF ReadyKnown, ReadyInv, SeenInv, KnownInv, StagingInv, InPlace, PrepKnown,
       PrepInv, ReopenKnown, ReopenInv, RollingInv, CommitKnown, CommitInv, WriteSet, Durable, ApplyingInv,
       StagerInv
  <2>4. ReachKnown'
    <3>1. ASSUME Orderly PROVE C.op = "edit"
      BY <1>1, <2>1, <3>1 DEF KnownInv, RollingInv
    <3>2. ASSUME Orderly, NEW s \in Stagers, InReach(s), Made(s) PROVE stager[s].rev # mem.rev
      BY <1>1, <2>1, <3>1, <3>2 DEF ReopenKnown, ReopenInv
    <3> QED BY <1>1, <2>1, <3>1, <3>2, Sources DEF ReachKnown, ReachInv
  <2> QED BY <2>2, <2>3, <2>4
<1>9. ASSUME MarkRolledBack(end) PROVE Wanted'
  <2>1. /\ Calm /\ C.pc = "rolledback"
        /\ Rewrites(Canonical, C.rev, "ROLLED_BACK", None, "ended", "ended")
    <3>1. TransitionPlan(Canonical, C.rev, "ROLLED_BACK", None, end, "ended", "ended")
      BY <1>9 DEF MarkRolledBack
    <3>2. StagersKeep /\ NoMix
      BY <1>9, StagersCalm DEF MarkRolledBack, bounds, history
    <3> QED BY <1>9, <3>1, <3>2, TransitionRewrites DEF MarkRolledBack, bounds, history
  <2>2. MadeInv' /\ SeenInv' /\ WantInv'
    BY <1>1, <2>1, Sources DEF MadeInv, StagerInv, SeenInv, PreviewInv, WantInv
  <2>3. ReachKnown' /\ ReadyKnown' /\ PrepKnown' /\ ReopenKnown' /\ CommitKnown'
    BY <1>1, <2>1, Sources DEF ReachKnown, ReachInv, SeenInv, KnownInv, StagingInv, ReadyKnown, ReadyInv,
       InPlace, PrepKnown, PrepInv, ReopenKnown, ReopenInv, RollingInv, CommitKnown, CommitInv, WriteSet,
       Durable, ApplyingInv, StagerInv
  <2> QED BY <2>2, <2>3
<1>10. ASSUME ReleaseLease PROVE Wanted'
  <2>1. /\ Quiet
        /\ \/ C.pc = "editable" /\ Goes(Canonical, "edit")
           \/ C.pc = "ended" /\ Goes(Canonical, "idle")
    BY <1>10, Shapes, StagerShapes, StagersCalm, GotoGoes DEF ReleaseLease, GotoOrReturn, Goto, bounds,
       history
  <2>2. MadeInv' /\ SeenInv' /\ WantInv'
    BY <1>1, <2>1 DEF MadeInv, StagerInv, SeenInv, PreviewInv, WantInv
  <2>3. ReachKnown' /\ ReadyKnown' /\ PrepKnown' /\ ReopenKnown' /\ CommitKnown'
    BY <1>1, <2>1 DEF ReachKnown, ReachInv, SeenInv, KnownInv, StagingInv, ReadyKnown, ReadyInv, InPlace,
       PrepKnown, PrepInv, ReopenKnown, ReopenInv, RollingInv, CommitKnown, CommitInv, WriteSet, Durable,
       ApplyingInv, StagerInv
  <2> QED BY <2>2, <2>3
<1> QED BY <1>2, <1>3, <1>4, <1>5, <1>6, <1>7, <1>8, <1>9, <1>10

(* An apply goes on. *)
LEMMA ContentApply ==
  ASSUME TypeOK, IInv, ContentInv, NEW end \in Ends,
         \/ CompareRecovered \/ (\E ok \in BOOLEAN : DropMismatch(ok))
         \/ (\E epochsAgree \in BOOLEAN : AdmitCommit(epochsAgree)) \/ RefuseAdmission
         \/ (\E journaled \in BOOLEAN : StageWriteSet(journaled)) \/ MarkCommitting(end) \/ ApplyRefused
         \/ (\E ok \in BOOLEAN : ApplyJournal(ok)) \/ MarkCommitted(end) \/ MarkRecovery(end)
         \/ (\E state \in {"CONFLICTED", "FAILED"} : Refuse(state, end)) \/ (\E ok \in BOOLEAN : FinishCommit(ok))
  PROVE  MadeInv' /\ SeenInv' /\ WantInv' /\ ReachKnown' /\ ReadyKnown' /\ PrepKnown' /\ ReopenKnown' /\ CommitKnown'
<1> USE Shapes, StagerShapes, ContentShapes DEF C, Holds, HasStager, Staging, Prepared, Goes, OthersStay, At,
            Rewrites, MayMove, StagersKeep, NoMix, Calm, Quiet, Made, Current, InReach, Reusable, Orderly
<1> DEFINE Wanted == MadeInv /\ SeenInv /\ WantInv /\ ReachKnown /\ ReadyKnown /\ PrepKnown /\ ReopenKnown /\ CommitKnown
<1>1. /\ StagerInv /\ PreviewInv /\ CompactInv /\ KnownInv
      /\ InPlace /\ MadeInv /\ SeenInv /\ WantInv /\ ReachKnown /\ ReadyKnown /\ PrepKnown /\ ReopenKnown /\ CommitKnown
  BY Parts, ContentParts
<1>2. ASSUME CompareRecovered PROVE Wanted'
  <2>1. /\ Quiet /\ OthersStay(Canonical) /\ C.pc = "compare" /\ C'.pc \in {"admit", "mismatch"}
        /\ C'.rev = C.want /\ C'.want = C.want
        /\ C'.st = C.st /\ C'.op = C.op /\ C'.tok = C.tok /\ C'.seen = C.seen
    <3>1. StagersKeep /\ NoMix
      BY <1>2, StagersCalm DEF CompareRecovered, bounds, history
    <3> QED BY <1>2, <3>1 DEF CompareRecovered, bounds, history
  <2>2. MadeInv' /\ SeenInv' /\ WantInv'
    BY <1>1, <2>1 DEF MadeInv, StagerInv, SeenInv, PreviewInv, WantInv
  <2>3. ReachKnown' /\ ReadyKnown' /\ PrepKnown' /\ ReopenKnown' /\ CommitKnown'
    BY <1>1, <2>1 DEF ReachKnown, ReachInv, SeenInv, KnownInv, StagingInv, ReadyKnown, ReadyInv, InPlace,
       PrepKnown, PrepInv, ReopenKnown, ReopenInv, RollingInv, CommitKnown, CommitInv, WriteSet, Durable,
       ApplyingInv, StagerInv
  <2> QED BY <2>2, <2>3
<1>3. ASSUME NEW ok \in BOOLEAN, DropMismatch(ok) PROVE Wanted'
  <2>1. Quiet /\ C.pc = "mismatch" /\ Goes(Canonical, "idle")
    BY <1>3, Shapes, StagerShapes, ReleaseKeeps, GotoGoes DEF DropMismatch, GotoOrReturn, Goto, history
  <2>2. MadeInv' /\ SeenInv' /\ WantInv'
    BY <1>1, <2>1 DEF MadeInv, StagerInv, SeenInv, PreviewInv, WantInv
  <2>3. ReachKnown' /\ ReadyKnown' /\ PrepKnown' /\ ReopenKnown' /\ CommitKnown'
    BY <1>1, <2>1 DEF ReachKnown, ReachInv, SeenInv, KnownInv, StagingInv, ReadyKnown, ReadyInv, InPlace,
       PrepKnown, PrepInv, ReopenKnown, ReopenInv, RollingInv, CommitKnown, CommitInv, WriteSet, Durable,
       ApplyingInv, StagerInv
  <2> QED BY <2>2, <2>3
<1>4. ASSUME NEW epochsAgree \in BOOLEAN, AdmitCommit(epochsAgree) PROVE Wanted'
  <2>1. /\ Quiet /\ C.pc = "admit"
        /\ \/ Goes(Canonical, "idle")
           \/ /\ mem.rev = C.rev /\ mem.state \in Prepared /\ mem.prep = C.tok
              /\ OthersStay(Canonical) /\ C'.pc = "writeset" /\ C'.rev = C.rev /\ C'.want = C.want
              /\ C'.st = C.st /\ C'.op = C.op /\ C'.tok = C.tok /\ C'.seen = mem.preview.seen
    <3>1. StagersKeep /\ NoMix
      BY <1>4, StagersCalm DEF AdmitCommit, bounds, history
    <3>2. \/ GotoOrReturn(Canonical, "idle")
          \/ /\ mem.rev = C.rev /\ mem.state \in Prepared /\ mem.prep = C.tok
             /\ call' = [call EXCEPT ![Canonical] = [C EXCEPT !.pc = "writeset", !.seen = mem.preview.seen]]
      BY <1>4 DEF AdmitCommit, GotoOrReturn
    <3>3. PICK seen : seen = mem.preview.seen
      OBVIOUS
    <3>4. ASSUME call' = [call EXCEPT ![Canonical] = [C EXCEPT !.pc = "writeset", !.seen = seen]]
          PROVE  /\ OthersStay(Canonical) /\ C'.pc = "writeset" /\ C'.rev = C.rev /\ C'.want = C.want
                 /\ C'.st = C.st /\ C'.op = C.op /\ C'.tok = C.tok /\ C'.seen = seen
      BY <3>4
    <3> QED BY <1>4, <3>1, <3>2, <3>3, <3>4, GotoGoes DEF AdmitCommit, bounds, history
  <2>2. MadeInv' /\ SeenInv' /\ WantInv'
    BY <1>1, <2>1 DEF MadeInv, StagerInv, SeenInv, PreviewInv, WantInv
  <2>3. ReachKnown' /\ ReadyKnown' /\ PrepKnown' /\ ReopenKnown'
    BY <1>1, <2>1 DEF ReachKnown, ReachInv, SeenInv, KnownInv, StagingInv, ReadyKnown, ReadyInv, InPlace,
       PrepKnown, PrepInv, ReopenKnown, ReopenInv, RollingInv
  <2>4. CommitKnown'
    <3>1. CASE Goes(Canonical, "idle")
      BY <1>1, <2>1, <3>1 DEF CommitKnown, CommitInv
    <3>2. CASE ~Goes(Canonical, "idle")
      <4>1. /\ mem.rev = C.rev /\ mem.state \in Prepared /\ mem.prep = C.tok /\ C.op = "apply" /\ C.want = C.rev
            /\ mem.preview # None /\ C'.seen = mem.preview.seen /\ C'.st = C.st /\ C'.tok = C.tok /\ C'.rev = C.rev
            /\ C.st \in Stagers /\ C.rev <= stager[C.st].rev /\ C'.pc = "writeset"
        BY <1>1, <2>1, <3>2 DEF WantInv, StagerInv, PreviewInv
      <4>2. Orderly => /\ mem.prep # None /\ mem.prep.rev = mem.rev
                       /\ Current => mem.prep.seen = canon
        BY <1>1, <4>1 DEF PrepKnown, PrepInv
      <4>3. Orderly /\ Made(C.st) => /\ stager[C.st].rev = mem.rev
                                     /\ Current => stager[C.st].made.seen = canon
        BY <1>1, <2>1, <4>1 DEF ReachKnown, ReachInv
      <4>4. Made(C.st) => stager[C.st].made.rev = stager[C.st].rev
        BY <1>1, <4>1 DEF MadeInv
      <4>5. WriteSet' = IF Durable(C.st) THEN stager[C.st].made ELSE [rev |-> C.rev, seen |-> mem.preview.seen, variant |-> Plain]
        BY <2>1, <4>1 DEF WriteSet, Durable
      <4>6. ASSUME Orderly', Current PROVE (WriteSet.rev = C.tok.rev /\ WriteSet.seen = C.tok.seen)'
        <5>1. CASE Durable(C.st)
          BY <2>1, <4>1, <4>2, <4>3, <4>4, <4>5, <4>6, <5>1 DEF Durable
        <5>2. CASE ~Durable(C.st)
          <6>1. /\ WriteSet' = [rev |-> C.rev, seen |-> mem.preview.seen, variant |-> Plain]
                /\ C.rev = mem.prep.rev /\ mem.preview.seen = mem.prep.seen /\ C'.tok = mem.prep
            BY <2>1, <4>1, <4>2, <4>5, <4>6, <5>2
          <6> QED BY <6>1
        <5> QED BY <5>1, <5>2
      <4>7. Orderly' => C'.tok # None
        BY <2>1, <4>1, <4>2
      <4>8. Orderly' => committed' # "other"
        BY <1>1, <2>1 DEF CommitKnown, CommitInv
      <4>9. C'.seen = canon' => Current
        BY <2>1, <4>1
      <4> QED BY <4>1, <4>6, <4>7, <4>8, <4>9 DEF CommitKnown, CommitInv
    <3> QED BY <3>1, <3>2
  <2> QED BY <2>2, <2>3, <2>4
<1>5. ASSUME RefuseAdmission PROVE Wanted'
  <2>1. Quiet /\ C.pc = "admit" /\ Goes(Canonical, "idle")
    BY <1>5, Shapes, StagerShapes, StagersCalm, GotoGoes DEF RefuseAdmission, GotoOrReturn, Goto, bounds,
       history
  <2>2. MadeInv' /\ SeenInv' /\ WantInv'
    BY <1>1, <2>1 DEF MadeInv, StagerInv, SeenInv, PreviewInv, WantInv
  <2>3. ReachKnown' /\ ReadyKnown' /\ PrepKnown' /\ ReopenKnown' /\ CommitKnown'
    BY <1>1, <2>1 DEF ReachKnown, ReachInv, SeenInv, KnownInv, StagingInv, ReadyKnown, ReadyInv, InPlace,
       PrepKnown, PrepInv, ReopenKnown, ReopenInv, RollingInv, CommitKnown, CommitInv, WriteSet, Durable,
       ApplyingInv, StagerInv
  <2> QED BY <2>2, <2>3
<1>6. ASSUME NEW journaled \in BOOLEAN, StageWriteSet(journaled) PROVE Wanted'
  <2>1. /\ Quiet /\ C.pc = "writeset" /\ OthersStay(Canonical) /\ C'.rev = C.rev /\ C'.want = C.want
        /\ C'.st = C.st /\ C'.op = C.op /\ C'.tok = C.tok /\ C'.seen = C.seen
        /\ C'.ok = (WriteSet.rev = C.tok.rev /\ WriteSet.seen = C.tok.seen)
        /\ C'.pc = "refuse" \/ (C'.pc = "committing" /\ canon = C.seen)
    <3>1. StagersKeep /\ NoMix
      BY <1>6, StagersCalm DEF StageWriteSet, bounds, history
    <3>2. PICK ok : ok = (WriteSet.rev = C.tok.rev /\ WriteSet.seen = C.tok.seen)
      OBVIOUS
    <3>3. PICK pc : pc = IF canon = C.seen /\ journaled THEN "committing" ELSE "refuse"
      OBVIOUS
    <3>4. call' = [call EXCEPT ![Canonical] = [C EXCEPT !.pc = pc, !.ok = ok]]
      BY <1>6, <3>2, <3>3 DEF StageWriteSet
    <3>5. /\ OthersStay(Canonical) /\ C'.rev = C.rev /\ C'.want = C.want /\ C'.st = C.st /\ C'.op = C.op
          /\ C'.tok = C.tok /\ C'.seen = C.seen /\ C'.ok = ok /\ C'.pc = pc
      BY <3>4
    <3>6. C.pc = "writeset" /\ UNCHANGED <<mem, disk, canon, committed>>
      BY <1>6 DEF StageWriteSet, history
    <3> QED BY <3>1, <3>2, <3>3, <3>5, <3>6 DEF StageWriteSet, bounds, history
  <2>2. MadeInv' /\ SeenInv' /\ WantInv'
    BY <1>1, <2>1 DEF MadeInv, StagerInv, SeenInv, PreviewInv, WantInv
  <2>3. ReachKnown' /\ ReadyKnown' /\ PrepKnown'
    BY <1>1, <2>1 DEF ReachKnown, ReachInv, SeenInv, KnownInv, StagingInv, ReadyKnown, ReadyInv, InPlace,
       PrepKnown, PrepInv
  <2>4. ReopenKnown' /\ CommitKnown'
    BY <1>1, <2>1 DEF ReopenKnown, ReopenInv, KnownInv, StagingInv, RollingInv, CommitKnown, CommitInv,
       SeenInv, WriteSet, Durable, ApplyingInv, StagerInv
  <2> QED BY <2>2, <2>3, <2>4
<1>7. ASSUME MarkCommitting(end) PROVE Wanted'
  <2>1. /\ Calm /\ C.pc = "committing"
        /\ Rewrites(Canonical, C.rev, "COMMITTING", C.tok, "applying", "refuse")
    <3>1. TransitionPlan(Canonical, C.rev, "COMMITTING", C.tok, end, "applying", "refuse")
      BY <1>7 DEF MarkCommitting
    <3>2. StagersKeep /\ NoMix
      BY <1>7, StagersCalm DEF MarkCommitting, bounds, history
    <3> QED BY <1>7, <3>1, <3>2, TransitionRewrites DEF MarkCommitting, bounds, history
  <2>2. MadeInv' /\ SeenInv' /\ WantInv'
    BY <1>1, <2>1, Sources DEF MadeInv, StagerInv, SeenInv, PreviewInv, WantInv
  <2>3. ReachKnown' /\ ReadyKnown' /\ PrepKnown' /\ ReopenKnown' /\ CommitKnown'
    BY <1>1, <2>1, Sources DEF ReachKnown, ReachInv, SeenInv, KnownInv, StagingInv, ReadyKnown, ReadyInv,
       InPlace, PrepKnown, PrepInv, ReopenKnown, ReopenInv, RollingInv, CommitKnown, CommitInv, WriteSet,
       Durable, ApplyingInv, StagerInv
  <2> QED BY <2>2, <2>3
<1>8. ASSUME ApplyRefused PROVE Wanted'
  <2>1. Quiet /\ C.pc = "applying" /\ Goes(Canonical, "refuse")
    BY <1>8, Shapes, StagerShapes, StagersCalm, GotoGoes DEF ApplyRefused, GotoOrReturn, Goto, bounds,
       history
  <2>2. MadeInv' /\ SeenInv' /\ WantInv'
    BY <1>1, <2>1 DEF MadeInv, StagerInv, SeenInv, PreviewInv, WantInv
  <2>3. ReachKnown' /\ ReadyKnown' /\ PrepKnown' /\ ReopenKnown' /\ CommitKnown'
    BY <1>1, <2>1 DEF ReachKnown, ReachInv, SeenInv, KnownInv, StagingInv, ReadyKnown, ReadyInv, InPlace,
       PrepKnown, PrepInv, ReopenKnown, ReopenInv, RollingInv, CommitKnown, CommitInv, WriteSet, Durable,
       ApplyingInv, StagerInv
  <2> QED BY <2>2, <2>3
<1>9. ASSUME NEW ok \in BOOLEAN, ApplyJournal(ok) PROVE Wanted'
  <2>1. /\ StagersKeep /\ NoMix /\ UNCHANGED <<mem, disk>> /\ C.pc = "applying"
        /\ Goes(Canonical, "sealed") \/ Goes(Canonical, "recovery")
        /\ canon' = canon + 1 /\ committed' = IF C.ok THEN "prepared" ELSE "other"
    BY <1>9, Shapes, StagerShapes, ReleaseKeeps, GotoGoes DEF ApplyJournal, GotoOrReturn, Goto
  <2>2. MadeInv' /\ SeenInv' /\ WantInv'
    BY <1>1, <2>1 DEF MadeInv, StagerInv, SeenInv, PreviewInv, WantInv
  <2>3. ReachKnown' /\ ReadyKnown' /\ PrepKnown' /\ ReopenKnown' /\ CommitKnown'
    BY <1>1, <2>1 DEF ReachKnown, ReachInv, SeenInv, KnownInv, StagingInv, ReadyKnown, ReadyInv, InPlace,
       PrepKnown, PrepInv, ReopenKnown, ReopenInv, RollingInv, CommitKnown, CommitInv, WriteSet, Durable,
       ApplyingInv, StagerInv
  <2> QED BY <2>2, <2>3
<1>10. ASSUME MarkCommitted(end) PROVE Wanted'
  <2>1. /\ Calm /\ C.pc = "sealed"
        /\ Rewrites(Canonical, C.rev, "COMMITTED", C.tok, "finish", "recovery")
    <3>1. TransitionPlan(Canonical, C.rev, "COMMITTED", C.tok, end, "finish", "recovery")
      BY <1>10 DEF MarkCommitted
    <3>2. StagersKeep /\ NoMix
      BY <1>10, StagersCalm DEF MarkCommitted, bounds, history
    <3> QED BY <1>10, <3>1, <3>2, TransitionRewrites DEF MarkCommitted, bounds, history
  <2>2. MadeInv' /\ SeenInv' /\ WantInv'
    BY <1>1, <2>1, Sources DEF MadeInv, StagerInv, SeenInv, PreviewInv, WantInv
  <2>3. ReachKnown' /\ ReadyKnown' /\ PrepKnown' /\ ReopenKnown' /\ CommitKnown'
    BY <1>1, <2>1, Sources DEF ReachKnown, ReachInv, SeenInv, KnownInv, StagingInv, ReadyKnown, ReadyInv,
       InPlace, PrepKnown, PrepInv, ReopenKnown, ReopenInv, RollingInv, CommitKnown, CommitInv, WriteSet,
       Durable, ApplyingInv, StagerInv
  <2> QED BY <2>2, <2>3
<1>11. ASSUME MarkRecovery(end) PROVE Wanted'
  <2>1. /\ Calm /\ C.pc = "recovery"
        /\ Rewrites(Canonical, C.rev, "RECOVERY_REQUIRED", C.tok, "finish", "finish")
    <3>1. TransitionPlan(Canonical, C.rev, "RECOVERY_REQUIRED", C.tok, end, "finish", "finish")
      BY <1>11 DEF MarkRecovery
    <3>2. StagersKeep /\ NoMix
      BY <1>11, StagersCalm DEF MarkRecovery, bounds, history
    <3> QED BY <1>11, <3>1, <3>2, TransitionRewrites DEF MarkRecovery, bounds, history
  <2>2. MadeInv' /\ SeenInv' /\ WantInv'
    BY <1>1, <2>1, Sources DEF MadeInv, StagerInv, SeenInv, PreviewInv, WantInv
  <2>3. ReachKnown' /\ ReadyKnown' /\ PrepKnown' /\ ReopenKnown' /\ CommitKnown'
    BY <1>1, <2>1, Sources DEF ReachKnown, ReachInv, SeenInv, KnownInv, StagingInv, ReadyKnown, ReadyInv,
       InPlace, PrepKnown, PrepInv, ReopenKnown, ReopenInv, RollingInv, CommitKnown, CommitInv, WriteSet,
       Durable, ApplyingInv, StagerInv
  <2> QED BY <2>2, <2>3
<1>12. ASSUME NEW state \in {"CONFLICTED", "FAILED"}, Refuse(state, end) PROVE Wanted'
  <2>1. /\ Calm /\ C.pc = "refuse"
        /\ Rewrites(Canonical, C.rev, state, C.tok, "finish", "finish")
    <3>1. TransitionPlan(Canonical, C.rev, state, C.tok, end, "finish", "finish")
      BY <1>12 DEF Refuse
    <3>2. StagersKeep /\ NoMix
      BY <1>12, StagersCalm DEF Refuse, bounds, history
    <3> QED BY <1>12, <3>1, <3>2, TransitionRewrites DEF Refuse, bounds, history
  <2>2. MadeInv' /\ SeenInv' /\ WantInv'
    BY <1>1, <2>1, Sources DEF MadeInv, StagerInv, SeenInv, PreviewInv, WantInv
  <2>3. ReachKnown' /\ ReadyKnown' /\ PrepKnown' /\ ReopenKnown' /\ CommitKnown'
    BY <1>1, <2>1, Sources DEF ReachKnown, ReachInv, SeenInv, KnownInv, StagingInv, ReadyKnown, ReadyInv,
       InPlace, PrepKnown, PrepInv, ReopenKnown, ReopenInv, RollingInv, CommitKnown, CommitInv, WriteSet,
       Durable, ApplyingInv, StagerInv
  <2> QED BY <2>2, <2>3
<1>13. ASSUME NEW ok \in BOOLEAN, FinishCommit(ok) PROVE Wanted'
  <2>1. Quiet /\ C.pc = "finish" /\ Goes(Canonical, "ended")
    BY <1>13, Shapes, StagerShapes, ReleaseKeeps, GotoGoes DEF FinishCommit, GotoOrReturn, Goto, history
  <2>2. MadeInv' /\ SeenInv' /\ WantInv'
    BY <1>1, <2>1 DEF MadeInv, StagerInv, SeenInv, PreviewInv, WantInv
  <2>3. ReachKnown' /\ ReadyKnown' /\ PrepKnown' /\ ReopenKnown' /\ CommitKnown'
    BY <1>1, <2>1 DEF ReachKnown, ReachInv, SeenInv, KnownInv, StagingInv, ReadyKnown, ReadyInv, InPlace,
       PrepKnown, PrepInv, ReopenKnown, ReopenInv, RollingInv, CommitKnown, CommitInv, WriteSet, Durable,
       ApplyingInv, StagerInv
  <2> QED BY <2>2, <2>3
<1> QED BY <1>2, <1>3, <1>4, <1>5, <1>6, <1>7, <1>8, <1>9, <1>10, <1>11, <1>12, <1>13

(* The sweep and the surroundings. *)
LEMMA ContentOutside ==
  ASSUME TypeOK, IInv, ContentInv, NEW end \in Ends,
         \/ Sweep \/ Expire(end) \/ SweepUnlease \/ DropUnneeded \/ (\E ok \in BOOLEAN : DropStager(ok))
         \/ Minute \/ Hour \/ Retention \/ Restart \/ ExternalEdit \/ UNCHANGED vars
  PROVE  MadeInv' /\ SeenInv' /\ WantInv' /\ ReachKnown' /\ ReadyKnown' /\ PrepKnown' /\ ReopenKnown' /\ CommitKnown'
<1> USE Shapes, StagerShapes, ContentShapes DEF C, Holds, HasStager, Staging, Prepared, Goes, OthersStay, At,
            Rewrites, MayMove, StagersKeep, NoMix, Calm, Quiet, Made, Current, InReach, Reusable, Orderly
<1> DEFINE Wanted == MadeInv /\ SeenInv /\ WantInv /\ ReachKnown /\ ReadyKnown /\ PrepKnown /\ ReopenKnown /\ CommitKnown
<1>1. /\ StagerInv /\ PreviewInv /\ CompactInv /\ KnownInv
      /\ InPlace /\ MadeInv /\ SeenInv /\ WantInv /\ ReachKnown /\ ReadyKnown /\ PrepKnown /\ ReopenKnown /\ CommitKnown
  BY Parts, ContentParts
<1>2. ASSUME Sweep \/ SweepUnlease \/ DropUnneeded \/ UNCHANGED vars PROVE Wanted'
  <2>1. Quiet /\ UNCHANGED call
    <3>1. UNCHANGED <<slot, stager, releaseFaults, displaced, mem, disk, call, canon, committed>>
      BY <1>2 DEF Sweep, SweepUnlease, DropUnneeded, vars, bounds, history
    <3>2. overtaken => overtaken'
      BY <1>2 DEF Sweep, SweepUnlease, DropUnneeded, vars, history
    <3> QED BY <3>1, <3>2
  <2>2. MadeInv' /\ SeenInv' /\ WantInv'
    BY <1>1, <2>1 DEF MadeInv, StagerInv, SeenInv, PreviewInv, WantInv
  <2>3. ReachKnown' /\ ReadyKnown' /\ PrepKnown' /\ ReopenKnown' /\ CommitKnown'
    BY <1>1, <2>1 DEF ReachKnown, ReachInv, SeenInv, KnownInv, StagingInv, ReadyKnown, ReadyInv, InPlace,
       PrepKnown, PrepInv, ReopenKnown, ReopenInv, RollingInv, CommitKnown, CommitInv, WriteSet, Durable,
       ApplyingInv, StagerInv
  <2> QED BY <2>2, <2>3
<1>3. ASSUME NEW ok \in BOOLEAN, DropStager(ok) PROVE Wanted'
  <2>1. Quiet /\ UNCHANGED call
    BY <1>3, Shapes, StagerShapes, ReleaseKeeps DEF DropStager, history
  <2>2. MadeInv' /\ SeenInv' /\ WantInv'
    BY <1>1, <2>1 DEF MadeInv, StagerInv, SeenInv, PreviewInv, WantInv
  <2>3. ReachKnown' /\ ReadyKnown' /\ PrepKnown' /\ ReopenKnown' /\ CommitKnown'
    BY <1>1, <2>1 DEF ReachKnown, ReachInv, SeenInv, KnownInv, StagingInv, ReadyKnown, ReadyInv, InPlace,
       PrepKnown, PrepInv, ReopenKnown, ReopenInv, RollingInv, CommitKnown, CommitInv, WriteSet, Durable,
       ApplyingInv, StagerInv
  <2> QED BY <2>2, <2>3
<1>4. ASSUME Minute PROVE Wanted'
  <2>1. Quiet /\ UNCHANGED call
    <3>1. stager' = [stager EXCEPT ![slot] = [stager[slot] EXCEPT !.used = "recent"]]
      BY <1>4 DEF Minute
    <3> QED BY <1>4, <3>1 DEF Minute, bounds, history
  <2>2. MadeInv' /\ SeenInv' /\ WantInv'
    BY <1>1, <2>1 DEF MadeInv, StagerInv, SeenInv, PreviewInv, WantInv
  <2>3. ReachKnown' /\ ReadyKnown' /\ PrepKnown' /\ ReopenKnown' /\ CommitKnown'
    BY <1>1, <2>1 DEF ReachKnown, ReachInv, SeenInv, KnownInv, StagingInv, ReadyKnown, ReadyInv, InPlace,
       PrepKnown, PrepInv, ReopenKnown, ReopenInv, RollingInv, CommitKnown, CommitInv, WriteSet, Durable,
       ApplyingInv, StagerInv
  <2> QED BY <2>2, <2>3
<1>5. ASSUME Hour PROVE Wanted'
  <2>1. /\ Calm /\ UNCHANGED call
        /\ mem'.state = mem.state /\ mem'.rev = mem.rev /\ mem'.preview = mem.preview /\ mem'.prep = mem.prep
        /\ disk'.preview = disk.preview
    BY <1>5, Shapes, StagerShapes DEF Hour, bounds, history
  <2>2. MadeInv' /\ SeenInv' /\ WantInv'
    BY <1>1, <2>1 DEF MadeInv, StagerInv, SeenInv, PreviewInv, WantInv
  <2>3. ReachKnown' /\ ReadyKnown' /\ PrepKnown' /\ ReopenKnown' /\ CommitKnown'
    BY <1>1, <2>1 DEF ReachKnown, ReachInv, SeenInv, KnownInv, StagingInv, ReadyKnown, ReadyInv, InPlace,
       PrepKnown, PrepInv, ReopenKnown, ReopenInv, RollingInv, CommitKnown, CommitInv, WriteSet, Durable,
       ApplyingInv, StagerInv
  <2> QED BY <2>2, <2>3
<1>6. ASSUME Expire(end) PROVE Wanted'
  <2>1. /\ Calm /\ UNCHANGED call
        /\ \/ UNCHANGED <<mem, disk>>
           \/ /\ mem' = mem \/ (/\ mem'.state = "EXPIRED" /\ mem'.rev = mem.rev /\ mem'.preview = mem.preview
                                /\ mem.state # "GONE")
              /\ disk'.preview \in {disk.preview, mem.preview}
    <3> DEFINE record == Expired(mem)
    <3>0. Calm
      BY <1>6 DEF Expire
    <3>1. record.state = "EXPIRED" /\ record.rev = mem.rev /\ record.preview = mem.preview
      BY Shapes DEF Expired
    <3>2. \/ UNCHANGED <<mem, disk>>
          \/ Expirable(mem) /\ Persist(record, end) /\ mem' \in {mem, record}
      BY <1>6 DEF Expire
    <3>3. ASSUME Persist(record, end) PROVE disk' \in {disk, record}
      BY <3>3 DEF Persist
    <3>4. UNCHANGED call
      BY <1>6 DEF Expire
    <3> HIDE DEF record
    <3> QED BY <3>0, <3>1, <3>2, <3>3, <3>4 DEF Expirable
  <2>2. MadeInv' /\ SeenInv' /\ WantInv'
    BY <1>1, <2>1 DEF MadeInv, StagerInv, SeenInv, PreviewInv, WantInv
  <2>3. ReachKnown' /\ ReadyKnown' /\ PrepKnown' /\ ReopenKnown' /\ CommitKnown'
    BY <1>1, <2>1 DEF ReachKnown, ReachInv, SeenInv, KnownInv, StagingInv, ReadyKnown, ReadyInv, InPlace,
       PrepKnown, PrepInv, ReopenKnown, ReopenInv, RollingInv, CommitKnown, CommitInv, WriteSet, Durable,
       ApplyingInv, StagerInv
  <2> QED BY <2>2, <2>3
<1>7. ASSUME Retention PROVE Wanted'
  <2>1. /\ Calm /\ UNCHANGED call /\ mem.state \notin Prepared \cup {"PREPARING", "ROLLING_BACK"} /\ disk' = mem' /\ mem'.preview = None
        /\ \/ mem'.state = mem.state /\ mem'.rev = mem.rev
           \/ mem'.state = "GONE"
    BY <1>7, Shapes, StagerShapes DEF Retention, Compacted, NewPlan, Terminal, bounds, history
  <2>2. MadeInv' /\ SeenInv' /\ WantInv'
    BY <1>1, <2>1 DEF MadeInv, StagerInv, SeenInv, PreviewInv, WantInv
  <2>3. ReachKnown' /\ ReadyKnown' /\ PrepKnown' /\ CommitKnown'
    BY <1>1, <2>1 DEF ReachKnown, ReachInv, SeenInv, KnownInv, StagingInv, ReadyKnown, ReadyInv, InPlace,
       PrepKnown, PrepInv, CommitKnown, CommitInv, WriteSet, Durable, ApplyingInv, StagerInv
  <2>4. ReopenKnown'
    BY <1>1, <2>1 DEF ReopenKnown, ReopenInv, KnownInv, RollingInv, RollingBack
  <2> QED BY <2>2, <2>3, <2>4
<1>8. ASSUME Restart PROVE Wanted'
  <2>1. /\ \A p \in Callers : /\ call'[p].pc = "idle" /\ call'[p].op = "prepare"
                            /\ call'[p].st = None /\ call'[p].seen = 0
        /\ \A s \in Stagers : stager'[s].made = None
        /\ slot' = None /\ canon' = canon /\ committed' = "none"
        /\ mem'.preview = disk.preview /\ disk' = mem' /\ mem'.state \notin Prepared
    <3>1. PICK state \in LoadedStates(disk) : mem' = Loaded(disk, state) /\ disk' = mem'
      BY <1>8 DEF Restart
    <3>2. state \notin Prepared
      BY <3>1 DEF LoadedStates
    <3>3. Loaded(disk, state).state \in {state, "EXPIRED"} /\ Loaded(disk, state).preview = disk.preview
      BY Shapes DEF Loaded, Expired
    <3> QED BY <1>8, <3>1, <3>2, <3>3 DEF Restart, FreshStager, NoCall
  <2>2. MadeInv' /\ SeenInv' /\ WantInv'
    BY <1>1, <2>1 DEF MadeInv, StagerInv, SeenInv, PreviewInv, WantInv
  <2>3. ReachKnown' /\ ReadyKnown' /\ PrepKnown' /\ ReopenKnown' /\ CommitKnown'
    BY <1>1, <2>1 DEF ReachKnown, ReachInv, SeenInv, KnownInv, StagingInv, ReadyKnown, ReadyInv, InPlace,
       PrepKnown, PrepInv, ReopenKnown, ReopenInv, RollingInv, CommitKnown, CommitInv, WriteSet, Durable,
       ApplyingInv, StagerInv
  <2> QED BY <2>2, <2>3
<1>9. ASSUME ExternalEdit PROVE Wanted'
  <2>1. /\ StagersKeep /\ NoMix /\ UNCHANGED <<mem, disk, call, committed>> /\ canon' = canon + 1
    BY <1>9, Shapes, StagerShapes DEF ExternalEdit, bounds, history
  <2>2. MadeInv' /\ SeenInv' /\ WantInv'
    BY <1>1, <2>1 DEF MadeInv, StagerInv, SeenInv, PreviewInv, WantInv
  <2>3. ReachKnown' /\ ReadyKnown' /\ PrepKnown' /\ ReopenKnown' /\ CommitKnown'
    BY <1>1, <2>1 DEF ReachKnown, ReachInv, SeenInv, KnownInv, StagingInv, ReadyKnown, ReadyInv, InPlace,
       PrepKnown, PrepInv, ReopenKnown, ReopenInv, RollingInv, CommitKnown, CommitInv, WriteSet, Durable,
       ApplyingInv, StagerInv
  <2> QED BY <2>2, <2>3
<1> QED BY <1>2, <1>3, <1>4, <1>5, <1>6, <1>7, <1>8, <1>9

LEMMA ContentInit == Init => ContentInv
<1>1. Init => /\ mem = NewPlan /\ disk = NewPlan /\ canon = 0 /\ slot = None /\ committed = "none"
              /\ \A p \in Callers : call[p] = NoCall
              /\ \A s \in Stagers : stager[s].made = None
  BY DEF Init, FreshStager
<1>2. /\ NoCall.pc = "idle" /\ NoCall.op = "prepare" /\ NoCall.seen = 0 /\ NoCall.st = None
      /\ NewPlan.state = "OPEN" /\ NewPlan.preview = None
  BY DEF NoCall, NewPlan
<1>3. Init => MadeInv /\ SeenInv /\ WantInv
  BY <1>1, <1>2, ConstantTypes DEF MadeInv, SeenInv, WantInv, Made, Holds, Staging, At, C
<1>4. Init => ReachInv /\ ReadyInv /\ PrepInv /\ ReopenInv /\ CommitInv
  BY <1>1, <1>2, ConstantTypes DEF ReachInv, ReadyInv, PrepInv, ReopenInv, CommitInv, Made, Prepared, C
<1> QED BY <1>3, <1>4, PlaceInit DEF ContentInv

LEMMA ContentStep ==
  ASSUME TypeOK, IInv, ContentInv, [Next]_vars
  PROVE  ContentInv'
<1> DEFINE Wanted == MadeInv /\ SeenInv /\ WantInv /\ ReachKnown /\ ReadyKnown /\ PrepKnown /\ ReopenKnown /\ CommitKnown
<1>1. "ok" \in Ends
  BY DEF Ends
<1>2. ASSUME NEW p \in Callers, Prepare(p) PROVE Wanted'
  BY <1>1, <1>2, ContentLookup, ContentStage DEF Prepare
<1>3. ASSUME RollBack PROVE Wanted'
  BY <1>1, <1>3, ContentRollBack DEF RollBack
<1>4. ASSUME Apply PROVE Wanted'
  BY <1>1, <1>4, ContentApply DEF Apply
<1>5. ASSUME ExpireIdle PROVE Wanted'
  BY <1>1, <1>5, ContentOutside DEF ExpireIdle
<1>6. Wanted'
  <2> HIDE DEF Wanted
  <2>1. ASSUME changePlan PROVE Wanted'
    BY <2>1, ContentStarts DEF Wanted
  <2>2. ASSUME Sweep \/ Minute \/ Hour \/ Retention \/ Restart \/ ExternalEdit \/ UNCHANGED vars PROVE Wanted'
    BY <1>1, <2>2, ContentOutside DEF Wanted
  <2> QED BY <1>2, <1>3, <1>4, <1>5, <2>1, <2>2 DEF Next
<1>7. InPlace'
  BY PlaceStep, Parts, ContentParts
<1> QED BY <1>6, <1>7, ContentParts

-----------------------------------------------------------------------------

(* The plan's variables have their types, and the lease, the calls and the record
   agree as IInv says, for every number of prepares, stagers and revisions, whatever
   fails, expires or restarts in between. *)
THEOREM PlanInvariant == Spec => [](TypeOK /\ IInv)
<1>1. Init => TypeOK /\ IInv
  BY InitType, InitIInv
<1>2. TypeOK /\ IInv /\ [Next]_vars => TypeOK' /\ IInv'
  BY TypeStep, StepIInv DEF IInv
<1> QED BY <1>1, <1>2, PTL DEF Spec

(* No two calls prepare the plan at the same time, and the lease is held while it
   stands prepared (acquirePrepareLease). *)
THEOREM PreparationIsExclusive == Spec => []PreparationExclusive
<1>1. IInv => PreparationExclusive
  BY DEF IInv, StagingInv, LeaseInv, PreparationExclusive
<1> QED BY <1>1, PlanInvariant, PTL

(* While the canonical bytes are written, memory and disk say COMMITTING for the
   revision that is written (CommitPlan). *)
THEOREM AppliesAreDurable == Spec => []ApplyIsDurable
<1>1. IInv => ApplyIsDurable
  BY DEF IInv, ApplyingInv, ApplyIsDurable
<1> QED BY <1>1, PlanInvariant, PTL

(* The stagers are in their place, and what they hold, what the plan names as prepared
   and what an apply has in hand agree as ContentInv says. *)
THEOREM ContentInvariant == Spec => []ContentInv
<1>1. TypeOK /\ IInv /\ ContentInv /\ [Next]_vars => ContentInv'
  BY ContentStep
<1> QED BY <1>1, ContentInit, PlanInvariant, PTL DEF Spec

(* As long as no stager in use is displaced by a prepare of another revision, the
   lease, a plan in the middle of an operation and every sandbox have somebody who
   gives them back (RollbackPlan, PlanStager, dropUnneededStagers, ExpireIdlePlans). *)
THEOREM NothingIsStranded == Spec => [](~displaced => NothingStranded)
<1>1. IInv => LeaseHasOwner
  <2>1. ASSUME IInv, lease, ~leaked, mem.state \notin Prepared, reaper.pc # "unlease"
        PROVE  \E p \in Callers : call[p].pc \in Leased /\ ~(call[p].op = "preview")
    <3>1. (\E p \in Callers : Holds(p)) \/ C.pc \in RollingBack \cup Admitted \cup {"editable"}
      BY <2>1 DEF IInv, LeaseOwned
    <3>2. \A p \in Callers : call[p].pc # "idle" /\ call[p].op = "preview" => call[p].pc = "save"
      BY <2>1 DEF IInv, PreviewInv
    <3>3. \A p \in Callers : Holds(p) => call[p].pc \in Leased /\ ~(call[p].op = "preview")
      BY <3>2 DEF Holds, Leased, Staging
    <3>4. C.pc \in RollingBack \cup Admitted \cup {"editable"} => C.pc \in Leased /\ ~(C.op = "preview")
      BY <3>2, ConstantTypes DEF C, RollingBack, Admitted, Leased
    <3> QED BY <3>1, <3>3, <3>4, ConstantTypes DEF C
  <2> QED BY <2>1 DEF LeaseHasOwner
<1>2. IInv => OperationHasOwner
  BY DEF IInv, OperationOwned, OperationHasOwner, Staging, RollingBack
<1>3. ContentInv /\ ~displaced => SandboxOwned
  BY DEF ContentInv, InPlace, SandboxOwned, Referenced
<1>4. IInv /\ ContentInv => (~displaced => NothingStranded)
  BY <1>1, <1>2, <1>3 DEF NothingStranded
<1> QED BY <1>4, PlanInvariant, ContentInvariant, PTL

(* As long as every release succeeds, no stager in use is displaced, and no sweep
   expires the plan beside a call of it, the sandbox readers of a prepared plan find
   is the one its prepared revision names, and an apply writes the plan revision and
   the canonical bytes which that names (stageWriteSet, PlanStager). *)
THEOREM PreparedIsApplied == Spec => [](Orderly => AppliedIsPrepared)
<1>1. ContentInv => (Orderly => AppliedIsPrepared)
  BY DEF ContentInv, PrepInv, CommitInv, Made, AppliedIsPrepared
<1> QED BY <1>1, ContentInvariant, PTL
=============================================================================
