------------------------ MODULE CommitJournalProofs ------------------------
(***************************************************************************)
(* Proofs about CommitJournal, for every set of plans, paths and contents, *)
(* every write set and every bound on crashes, faults and foreign writes.  *)
(***************************************************************************)
EXTENDS CommitJournal, TLAPS

USE PlansAssumption, PathsAssumption, WriteSetAssumption, TargetAssumption,
    TreeAssumption, BoundsAssumption

(* The idle record is a run, whatever transaction CHOOSE gives it. *)
LEMMA IdleIsRun == Idle \in Runs
<1>1. Txns # {}
  <2>1. PICK t \in Plans : TRUE
    BY PlansAssumption
  <2>2. <<t, "do">> \in Txns
    BY <2>1 DEF Txns
  <2> QED BY <2>2
<1>2. (CHOOSE j \in Txns : TRUE) \in Txns
  BY <1>1
<1>3. Paths # {}
  BY PlansAssumption, WriteSetAssumption
<1>4. (CHOOSE p \in Paths : TRUE) \in Paths
  BY <1>3
<1> QED BY <1>2, <1>4 DEF Idle, Runs, Phases

(* The empty journal is a journal. *)
LEMMA NoJournalIsJournal == NoJournal \in Journals
BY DEF NoJournal, Journals, JournalStates, Images

(* A transaction is a plan and a direction. *)
LEMMA TxnParts ==
  /\ \A j \in Txns : PlanOf(j) \in Plans /\ j[2] \in {"do", "undo"} /\ j = <<PlanOf(j), j[2]>>
  /\ \A t \in Plans : <<t, "do">> \in Txns /\ <<t, "undo">> \in Txns
BY DEF Txns, PlanOf

(* The entries of a transaction are paths. *)
LEMMA EntriesArePaths == \A j \in Txns : Entries(j) \in SUBSET Paths
BY TxnParts DEF Entries

(* What a journal write leaves behind. *)
LEMMA PersistKeepsType ==
  ASSUME TypeOK, NEW j \in Txns, NEW record \in Journals, NEW ok \in BOOLEAN,
         PersistJournal(j, record, ok)
  PROVE  journal' \in [Txns -> Journals] /\ faults' \in Nat
BY DEF TypeOK, PersistJournal, Faulty

(* A fault is counted and changes no type. *)
LEMMA FaultyKeepsType ==
  ASSUME TypeOK, NEW ok \in BOOLEAN, Faulty(ok)
  PROVE  faults' \in Nat
BY DEF TypeOK, Faulty

(* A write of the journal leaves a journal (writeTransition). *)
LEMMA TransitionKeepsType ==
  ASSUME TypeOK, NEW t \in Plans, NEW state \in PlanStates, NEW ok \in BOOLEAN,
         Transition(t, state, ok)
  PROVE  planState' \in [Plans -> PlanStates] /\ faults' \in Nat
BY DEF TypeOK, Transition, Faulty

(* Replacing a file leaves bytes or their absence. *)
LEMMA PutImageKeepsType ==
  ASSUME TypeOK, NEW p \in Paths, NEW image \in Images, PutImage(p, image)
  PROVE  tree' \in [Paths -> Images] /\ stamp' \in [Paths -> SUBSET Plans]
BY DEF TypeOK, PutImage

(* Garbage collection takes journals and stagings away. *)
LEMMA CollectKeepsType ==
  ASSUME TypeOK, NEW newest, CollectCommitJournals(newest)
  PROVE  journal' \in [Txns -> Journals] /\ wrote' \in [Txns -> SUBSET Paths]
BY NoJournalIsJournal DEF TypeOK, CollectCommitJournals

(* A transaction begins with a journal of its own type. *)
LEMMA BeginKeepsType ==
  ASSUME NEW j \in Txns, NEW phase \in Phases, Begin(j, phase)
  PROVE  run' \in Runs
BY IdleIsRun DEF Begin, Runs

(* Type correctness, for the steps of a request. *)
LEMMA TypeRequest == TypeOK /\ Request => TypeOK'
<1> SUFFICES ASSUME TypeOK, NEW t \in Plans,
                    \/ Prepare(t)
                    \/ \E ok \in BOOLEAN : StageWriteSet(t, ok) \/ RefuseStale(t, ok) \/ Compensate(t, ok)
             PROVE  TypeOK'
  BY DEF Request
<1> USE IdleIsRun, TxnParts
<1>1. CASE Prepare(t)
  BY <1>1 DEF TypeOK, Prepare, PlanStates, bounds, history
<1>2. ASSUME NEW ok \in BOOLEAN, StageWriteSet(t, ok)  PROVE TypeOK'
  <2>1. NewJournal(prep[t], Target[t]) \in Journals
    BY DEF NewJournal, Journals, JournalStates, TypeOK
  <2>2. journal' \in [Txns -> Journals] /\ faults' \in Nat
    BY <1>2, <2>1, PersistKeepsType DEF StageWriteSet
  <2>3. run' \in Runs
    BY <1>2 DEF StageWriteSet, Begin, Runs, Phases, CommitPhases
  <2> QED BY <1>2, <2>2, <2>3 DEF StageWriteSet, TypeOK, history
<1>3. ASSUME NEW ok \in BOOLEAN, RefuseStale(t, ok)  PROVE TypeOK'
  <2>1. planState' \in [Plans -> PlanStates] /\ faults' \in Nat
    BY <1>3, TransitionKeepsType DEF RefuseStale, PlanStates
  <2> QED BY <1>3, <2>1 DEF RefuseStale, TypeOK, history
<1>4. ASSUME NEW ok \in BOOLEAN, Compensate(t, ok)  PROVE TypeOK'
  <2> DEFINE source == journal[<<t, "do">>]
  <2>1. NewJournal(source.after, source.before) \in Journals
    BY DEF NewJournal, Journals, JournalStates, TypeOK
  <2>2. journal' \in [Txns -> Journals] /\ faults' \in Nat
    BY <1>4, <2>1, PersistKeepsType DEF Compensate
  <2>3. run' \in Runs
    <3>1. run' = run \/ Begin(<<t, "undo">>, "staged")
      BY <1>4 DEF Compensate
    <3>2. run \in Runs /\ <<t, "undo">> \in Txns /\ "staged" \in Phases
      BY DEF TypeOK, Phases, CommitPhases
    <3> QED BY <3>1, <3>2, BeginKeepsType
  <2>4. wrote' \in [Txns -> SUBSET Paths]
    BY <1>4 DEF Compensate, TypeOK
  <2> QED BY <1>4, <2>2, <2>3, <2>4 DEF Compensate, TypeOK
<1> QED BY <1>1, <1>2, <1>3, <1>4

(* Going on moves a program counter and nothing else. *)
LEMMA GotoKeepsType ==
  ASSUME TypeOK, NEW phase \in Phases, Goto(phase)
  PROVE  run' \in Runs
BY DEF TypeOK, Goto, Runs

(* A failed transaction ends with its error. *)
LEMMA FailAsKeepsType ==
  ASSUME TypeOK, NEW written \in BOOLEAN, NEW code \in {"CONFLICTED", "FAILED"},
         FailAs(written, code)
  PROVE  run' \in Runs
BY DEF TypeOK, FailAs, Runs, Phases, CommitPhases

(* The journal of the run in flight, with a new state, is a journal. *)
LEMMA CurWithState ==
  ASSUME TypeOK, NEW state \in JournalStates
  PROVE  /\ Cur \in Journals /\ run.txn \in Txns
         /\ [Cur EXCEPT !.state = state] \in Journals
<1>1. run.txn \in Txns
  BY DEF TypeOK, Runs
<1>2. Cur \in Journals
  BY <1>1 DEF TypeOK, Cur
<1> QED BY <1>1, <1>2 DEF Journals

(* Type correctness, for the steps of a commit or an undo. *)
LEMMA TypeCommitStep == TypeOK /\ CommitStep => TypeOK'
<1> SUFFICES ASSUME TypeOK, CommitStep PROVE TypeOK'
  OBVIOUS
<1> USE IdleIsRun, TxnParts
<1>a. run \in Runs /\ run.txn \in Txns /\ PlanOf(run.txn) \in Plans
      /\ run.done \in SUBSET Paths /\ run.written \in BOOLEAN /\ run.cur \in Paths
      /\ Cur \in Journals
  BY DEF TypeOK, Runs, Cur
<1>1. ASSUME NEW ok \in BOOLEAN, StartCommitting(ok) PROVE TypeOK'
  <2>1. planState' \in [Plans -> PlanStates] /\ faults' \in Nat
    BY <1>1, <1>a, TransitionKeepsType DEF StartCommitting, PlanStates
  <2>2. run' \in Runs
    BY <1>1, GotoKeepsType DEF StartCommitting, Phases, CommitPhases
  <2> QED BY <1>1, <2>1, <2>2 DEF StartCommitting, TypeOK, history
<1>2. ASSUME NEW ok \in BOOLEAN, MarkApplying(ok) PROVE TypeOK'
  <2>1. journal' \in [Txns -> Journals] /\ faults' \in Nat
    BY <1>2, CurWithState, PersistKeepsType DEF MarkApplying, JournalStates
  <2>2. run' \in Runs
    BY <1>2, GotoKeepsType DEF MarkApplying, Phases, CommitPhases
  <2> QED BY <1>2, <2>1, <2>2 DEF MarkApplying, TypeOK, history
<1>3. ASSUME NEW ok \in BOOLEAN, WriteEntry(ok) PROVE TypeOK'
  <2>1. Cur.after[run.cur] \in Images
    BY <1>a DEF Journals
  <2>2. tree' \in [Paths -> Images] /\ stamp' \in [Paths -> SUBSET Plans]
    BY <1>3, <1>a, <2>1, PutImageKeepsType DEF WriteEntry
  <2>3. wrote' \in [Txns -> SUBSET Paths]
    BY <1>3, <1>a DEF WriteEntry, TypeOK
  <2>4. run' \in Runs
    BY <1>3 DEF WriteEntry, TypeOK, Runs, Phases, CommitPhases
  <2>5. faults' \in Nat
    BY <1>3, FaultyKeepsType DEF WriteEntry
  <2> QED BY <1>3, <2>2, <2>3, <2>4, <2>5 DEF WriteEntry, TypeOK
<1>4. ASSUME NEW ok \in BOOLEAN, RecordProgress(ok) PROVE TypeOK'
  <2>1. [Cur EXCEPT !.applied = run.done \cup {run.cur}] \in Journals
    BY <1>a DEF Journals
  <2>2. journal' \in [Txns -> Journals] /\ faults' \in Nat
    BY <1>4, <1>a, <2>1, PersistKeepsType DEF RecordProgress
  <2>3. run' \in Runs
    BY <1>4, <1>a DEF RecordProgress, Runs, Phases, CommitPhases
  <2> QED BY <1>4, <2>2, <2>3 DEF RecordProgress, TypeOK, history
<1>5. ASSUME NEW ok \in BOOLEAN, StagerCommit(ok) PROVE TypeOK'
  <2>1. run' \in Runs
    BY <1>5, <1>a, GotoKeepsType, FailAsKeepsType DEF StagerCommit, Phases, CommitPhases
  <2>2. faults' \in Nat
    BY <1>5, FaultyKeepsType DEF StagerCommit
  <2> QED BY <1>5, <2>1, <2>2 DEF StagerCommit, TypeOK, durable, history
<1>6. ASSUME NEW ok \in BOOLEAN, SealCommittedJournal(ok) PROVE TypeOK'
  <2>1. journal' \in [Txns -> Journals] /\ faults' \in Nat
    BY <1>6, CurWithState, PersistKeepsType DEF SealCommittedJournal, JournalStates
  <2>2. run' \in Runs
    BY <1>6, GotoKeepsType DEF SealCommittedJournal, Phases, CommitPhases
  <2> QED BY <1>6, <2>1, <2>2 DEF SealCommittedJournal, TypeOK, history
<1>7. ASSUME NEW ok \in BOOLEAN, RecordReceiptFailed(ok) PROVE TypeOK'
  <2>1. planState' \in [Plans -> PlanStates] /\ faults' \in Nat
    BY <1>7, <1>a, TransitionKeepsType DEF RecordReceiptFailed, PlanStates
  <2> QED BY <1>7, <2>1 DEF RecordReceiptFailed, TypeOK, history
<1>8. ASSUME NEW ok \in BOOLEAN, AbortJournal(ok) PROVE TypeOK'
  <2>1. journal' \in [Txns -> Journals] /\ faults' \in Nat
    BY <1>8, CurWithState, PersistKeepsType DEF AbortJournal, JournalStates
  <2>2. run' \in Runs
    BY <1>8, GotoKeepsType DEF AbortJournal, Phases, CommitPhases
  <2> QED BY <1>8, <2>1, <2>2 DEF AbortJournal, TypeOK, history
<1>9. ASSUME NEW ok \in BOOLEAN, RefusePlan(ok) PROVE TypeOK'
  <2>1. run.code \in PlanStates
    BY <1>a DEF Runs, PlanStates
  <2>2. planState' \in [Plans -> PlanStates] /\ faults' \in Nat
    BY <1>9, <1>a, <2>1, TransitionKeepsType DEF RefusePlan
  <2> QED BY <1>9, <2>2 DEF RefusePlan, TypeOK, history
<1>10. ASSUME NEW ok \in BOOLEAN, MarkJournalRecovery(ok) PROVE TypeOK'
  <2>1. [Cur EXCEPT !.state = "recovery_required", !.applied = run.done] \in Journals
    BY <1>a DEF Journals, JournalStates
  <2>2. journal' \in [Txns -> Journals] /\ faults' \in Nat
    BY <1>10, <1>a, <2>1, PersistKeepsType DEF MarkJournalRecovery
  <2>3. run' \in Runs
    BY <1>10, GotoKeepsType DEF MarkJournalRecovery, Phases, CommitPhases
  <2> QED BY <1>10, <2>2, <2>3 DEF MarkJournalRecovery, TypeOK, history
<1>11. ASSUME NEW ok \in BOOLEAN, MarkPlanRecovery(ok) PROVE TypeOK'
  <2>1. planState' \in [Plans -> PlanStates] /\ faults' \in Nat
    BY <1>11, <1>a, TransitionKeepsType DEF MarkPlanRecovery, PlanStates
  <2> QED BY <1>11, <2>1 DEF MarkPlanRecovery, TypeOK, history
<1>12. ASSUME NEW p \in Paths, CheckEntry(p) PROVE TypeOK'
  <2>1. run' \in Runs
    BY <1>12, <1>a, FailAsKeepsType DEF CheckEntry, Runs, Phases, CommitPhases
  <2> QED BY <1>12, <2>1 DEF CheckEntry, TypeOK, durable, bounds, history
<1>13. CASE RevalidateRefused
  <2>1. run' \in Runs
    BY <1>13, FailAsKeepsType DEF RevalidateRefused
  <2> QED BY <1>13, <2>1 DEF RevalidateRefused, TypeOK, durable, bounds, history
<1>14. CASE ApplyCancelled
  <2>1. run' \in Runs /\ faults' \in Nat
    BY <1>14, <1>a, FailAsKeepsType, FaultyKeepsType DEF ApplyCancelled
  <2> QED BY <1>14, <2>1 DEF ApplyCancelled, TypeOK, durable, history
<1>15. CASE WriteRefused
  <2>1. run' \in Runs
    BY <1>15, FailAsKeepsType DEF WriteRefused
  <2>2. faults' \in Nat
    BY <1>15 DEF WriteRefused, Faulty, TypeOK
  <2> QED BY <1>15, <2>1, <2>2 DEF WriteRefused, TypeOK, durable, history
<1>16. CASE RecordCommitted
  <2>1. planState' \in [Plans -> PlanStates]
    BY <1>16, <1>a DEF RecordCommitted, TypeOK, PlanStates
  <2>2. journal' \in [Txns -> Journals] /\ wrote' \in [Txns -> SUBSET Paths]
    BY <1>16, CollectKeepsType DEF RecordCommitted
  <2> QED BY <1>16, <2>1, <2>2 DEF RecordCommitted, TypeOK, bounds
<1>17. CASE RecordCommittedFailed
  <2>1. run' \in Runs /\ faults' \in Nat
    BY <1>17, GotoKeepsType, FaultyKeepsType DEF RecordCommittedFailed, Phases, CommitPhases
  <2> QED BY <1>17, <2>1 DEF RecordCommittedFailed, TypeOK, durable, history
<1> QED BY <1>1, <1>2, <1>3, <1>4, <1>5, <1>6, <1>7, <1>8, <1>9, <1>10, <1>11, <1>12,
           <1>13, <1>14, <1>15, <1>16, <1>17 DEF CommitStep

(* Type correctness, for the steps of an opening workspace. *)
LEMMA TypeRecoveryStep == TypeOK /\ RecoveryStep => TypeOK'
<1> SUFFICES ASSUME TypeOK, RecoveryStep PROVE TypeOK'
  OBVIOUS
<1> USE IdleIsRun, TxnParts
<1>a. run \in Runs /\ run.txn \in Txns /\ PlanOf(run.txn) \in Plans
      /\ run.done \in SUBSET Paths /\ run.cur \in Paths /\ Cur \in Journals
  BY DEF TypeOK, Runs, Cur
<1>b. {"rmark", "rconflict", "restore", "restored", "rmatched", "rchecked", "rverify"}
        \subseteq Phases
  BY DEF Phases, RecoveryPhases
<1>1. ASSUME NEW j \in Txns, ScanClosed(j) PROVE TypeOK'
  <2>1. run' \in Runs
    BY <1>1, <1>b, BeginKeepsType DEF ScanClosed
  <2> QED BY <1>1, <2>1 DEF ScanClosed, TypeOK, durable, bounds, history
<1>2. ASSUME NEW j \in Txns, ScanInterrupted(j) PROVE TypeOK'
  <2>1. run' \in Runs
    BY <1>2, <1>b, BeginKeepsType DEF ScanInterrupted
  <2> QED BY <1>2, <2>1 DEF ScanInterrupted, TypeOK, durable, bounds, history
<1>3. ASSUME NEW j \in Txns, NEW ok \in BOOLEAN, ScanPrepared(j, ok) PROVE TypeOK'
  <2>1. journal[j] \in Journals
    BY DEF TypeOK
  <2>2. [journal[j] EXCEPT !.state = "rolled_back"] \in Journals
    BY <2>1 DEF Journals, JournalStates
  <2>3. journal' \in [Txns -> Journals] /\ faults' \in Nat
    BY <1>3, <2>2, PersistKeepsType DEF ScanPrepared
  <2>4. run' \in Runs
    BY <1>3, <1>b, BeginKeepsType DEF ScanPrepared
  <2> QED BY <1>3, <2>3, <2>4 DEF ScanPrepared, TypeOK, history
<1>4. ASSUME NEW ok \in BOOLEAN, RestoreEntry(ok) PROVE TypeOK'
  <2>1. Cur.before[run.cur] \in Images
    BY <1>a DEF Journals
  <2>2. tree' \in [Paths -> Images] /\ stamp' \in [Paths -> SUBSET Plans]
    BY <1>4, <1>a, <2>1, PutImageKeepsType DEF RestoreEntry
  <2>3. wrote' \in [Txns -> SUBSET Paths]
    BY <1>4, <1>a DEF RestoreEntry, TypeOK
  <2>4. run' \in Runs
    BY <1>4, <1>b, GotoKeepsType DEF RestoreEntry
  <2>5. faults' \in Nat
    BY <1>4, FaultyKeepsType DEF RestoreEntry
  <2> QED BY <1>4, <2>2, <2>3, <2>4, <2>5 DEF RestoreEntry, TypeOK
<1>5. ASSUME NEW ok \in BOOLEAN, RecordRestored(ok) PROVE TypeOK'
  <2>1. [Cur EXCEPT !.applied = @ \ {run.cur}, !.restored = @ \cup {run.cur}] \in Journals
    BY <1>a DEF Journals
  <2>2. journal' \in [Txns -> Journals] /\ faults' \in Nat
    BY <1>5, <1>a, <2>1, PersistKeepsType DEF RecordRestored
  <2>3. run' \in Runs
    BY <1>5, <1>a, <1>b DEF RecordRestored, Runs
  <2> QED BY <1>5, <2>2, <2>3 DEF RecordRestored, TypeOK, history
<1>6. ASSUME NEW ok \in BOOLEAN, FinishRecovery(ok) PROVE TypeOK'
  <2>1. journal' \in [Txns -> Journals] /\ faults' \in Nat
    BY <1>6, CurWithState, PersistKeepsType DEF FinishRecovery, JournalStates
  <2>2. run' \in Runs
    BY <1>6, <1>b, GotoKeepsType DEF FinishRecovery
  <2> QED BY <1>6, <2>1, <2>2 DEF FinishRecovery, TypeOK, history
<1>7. ASSUME NEW ok \in BOOLEAN, ReconcilePlan(ok) PROVE TypeOK'
  <2>1. planState' \in [Plans -> PlanStates]
    BY <1>7, <1>a DEF ReconcilePlan, Reconcile, TypeOK, PlanStates
  <2>2. faults' \in Nat
    BY <1>7, FaultyKeepsType DEF ReconcilePlan
  <2> QED BY <1>7, <2>1, <2>2 DEF ReconcilePlan, TypeOK, history
<1>8. ASSUME NEW ok \in BOOLEAN, RecoveryConflict(ok) PROVE TypeOK'
  <2>1. journal' \in [Txns -> Journals] /\ faults' \in Nat
    BY <1>8, CurWithState, PersistKeepsType DEF RecoveryConflict, JournalStates
  <2> QED BY <1>8, <2>1 DEF RecoveryConflict, TypeOK, history
<1>9. ASSUME NEW p \in Paths, InspectEntry(p) PROVE TypeOK'
  <2>1. run' \in Runs
    BY <1>9, <1>a, <1>b DEF InspectEntry, Runs
  <2>2. wrote' \in [Txns -> SUBSET Paths]
    BY <1>9, <1>a DEF InspectEntry, TypeOK
  <2> QED BY <1>9, <2>1, <2>2 DEF InspectEntry, TypeOK, durable, bounds
<1>10. CASE RecheckEntry
  <2>1. run' \in Runs
    BY <1>10, <1>b, GotoKeepsType DEF RecheckEntry
  <2> QED BY <1>10, <2>1 DEF RecheckEntry, TypeOK, durable, bounds, history
<1>11. CASE RestoreRefused
  <2>1. run' \in Runs /\ faults' \in Nat
    BY <1>11, <1>b, GotoKeepsType, FaultyKeepsType DEF RestoreRefused
  <2> QED BY <1>11, <2>1 DEF RestoreRefused, TypeOK, durable, history
<1>12. CASE VerifyRestored
  <2>1. run' \in Runs
    BY <1>12, <1>b, GotoKeepsType DEF VerifyRestored
  <2> QED BY <1>12, <2>1 DEF VerifyRestored, TypeOK, durable, bounds, history
<1>13. CASE OpenDone
  <2>1. journal' \in [Txns -> Journals] /\ wrote' \in [Txns -> SUBSET Paths]
    BY <1>13, CollectKeepsType DEF OpenDone
  <2> QED BY <1>13, <2>1 DEF OpenDone, TypeOK, bounds
<1> QED BY <1>1, <1>2, <1>3, <1>4, <1>5, <1>6, <1>7, <1>8, <1>9, <1>10, <1>11, <1>12,
           <1>13 DEF RecoveryStep

(* Type correctness of every step. *)
LEMMA TypeStep == TypeOK /\ [Next]_vars => TypeOK'
<1> SUFFICES ASSUME TypeOK, [Next]_vars PROVE TypeOK'
  OBVIOUS
<1>1. CASE Request
  BY <1>1, TypeRequest
<1>2. CASE CommitStep
  BY <1>2, TypeCommitStep
<1>3. CASE RecoveryStep
  BY <1>3, TypeRecoveryStep
<1>4. CASE OpenWorkspace
  <2>1. planState' \in [Plans -> PlanStates]
    BY <1>4 DEF OpenWorkspace, LoadedState, TypeOK, PlanStates
  <2> QED BY <1>4, <2>1 DEF OpenWorkspace, TypeOK, bounds, history
<1>5. CASE Crash
  BY <1>5, IdleIsRun DEF Crash, TypeOK, durable, history
<1>6. ASSUME NEW p \in Paths, NEW image \in Images, External(p, image) PROVE TypeOK'
  <2>1. tree' \in [Paths -> Images] /\ stamp' \in [Paths -> SUBSET Plans]
    BY <1>6, PutImageKeepsType DEF External
  <2>2. raced' \in BOOLEAN
    BY <1>6 DEF External, TypeOK
  <2> QED BY <1>6, <2>1, <2>2 DEF External, TypeOK
<1>7. CASE UNCHANGED vars
  BY <1>7 DEF vars, durable, bounds, history, TypeOK
<1> QED BY <1>1, <1>2, <1>3, <1>4, <1>5, <1>6, <1>7 DEF Next

(* Every behaviour of the journal protocol is well typed: the durable records
   and the call in flight never leave the states the code names. *)
THEOREM TypeCorrect == Spec => []TypeOK
<1>1. Init => TypeOK
  <2> SUFFICES ASSUME Init PROVE TypeOK
    OBVIOUS
  <2>1. journal \in [Txns -> Journals] /\ run \in Runs
    BY IdleIsRun, NoJournalIsJournal DEF Init
  <2>2. tree \in [Paths -> Images] /\ prep \in [Plans -> [Paths -> Images]]
    BY TreeAssumption DEF Init
  <2>3. planState \in [Plans -> PlanStates] /\ stamp \in [Paths -> SUBSET Plans]
    BY DEF Init, PlanStates
  <2>4. scan \in SUBSET Txns /\ wrote \in [Txns -> SUBSET Paths]
    BY DEF Init
  <2> QED BY <2>1, <2>2, <2>3, <2>4 DEF Init, TypeOK
<1> QED BY <1>1, TypeStep, PTL DEF Spec

-----------------------------------------------------------------------------
(* The safety invariant. *)

(* What a journal write changes: at most one file, and that one only to the new
   record, which is there for certain when the write reported success. *)
LEMMA PersistEffect ==
  ASSUME TypeOK, NEW j \in Txns, NEW record, NEW ok \in BOOLEAN, PersistJournal(j, record, ok)
  PROVE  /\ \A i \in Txns : i # j => journal'[i] = journal[i]
         /\ journal'[j] = record \/ journal'[j] = journal[j]
         /\ ok => journal'[j] = record
BY DEF PersistJournal, TypeOK

(* What a plan transition changes. *)
LEMMA TransitionEffect ==
  ASSUME TypeOK, NEW t \in Plans, NEW state, NEW ok \in BOOLEAN, Transition(t, state, ok)
  PROVE  /\ \A u \in Plans : u # t => planState'[u] = planState[u]
         /\ planState'[t] = state \/ planState'[t] = planState[t]
         /\ ok => planState'[t] = state
BY DEF Transition, TypeOK

(* What retention removes: completed journals, each with its history. *)
LEMMA CollectEffect ==
  ASSUME TypeOK, NEW newest, CollectCommitJournals(newest)
  PROVE  \A j \in Txns :
           \/ journal'[j] = journal[j] /\ wrote'[j] = wrote[j]
           \/ /\ journal'[j].state = "none" /\ wrote'[j] = {} /\ j \notin newest
              /\ journal[j].state \in {"committed", "rolled_back"}
BY DEF CollectCommitJournals, Completed, NoJournal

(* With no call in flight the phase invariants say nothing. *)
LEMMA IdlePhases == run'.phase = "idle" => CommitPhaseInv' /\ RecoveryPhaseInv'
BY DEF CommitPhaseInv, RecoveryPhaseInv, CommitPhases, RecoveryPhases

(* A step of transaction j leaves every other transaction alone. *)
OnlyTouches(j) ==
  /\ \A i \in Txns : i # j => journal'[i] = journal[i] /\ wrote'[i] = wrote[i]
  /\ \A u \in Plans : planState'[u] = planState[u] \/ j = <<u, "do">>

(* What a transaction settled stays settled through the steps of the others. *)
LEMMA OthersStaySettled ==
  ASSUME IInv, NEW j \in Txns, OnlyTouches(j), TxnSettled(j)'
  PROVE  \A i \in Txns : TxnSettled(i)'
<1> SUFFICES ASSUME NEW i \in Txns, i # j PROVE TxnSettled(i)'
  OBVIOUS
<1>1. journal'[i] = journal[i] /\ wrote'[i] = wrote[i] /\ TxnSettled(i)
  BY DEF OnlyTouches, IInv
<1>2. i[2] = "do" => planState'[PlanOf(i)] = planState[PlanOf(i)]
  <2>1. SUFFICES ASSUME i[2] = "do" PROVE planState'[PlanOf(i)] = planState[PlanOf(i)]
    OBVIOUS
  <2>2. PlanOf(i) \in Plans /\ j # <<PlanOf(i), "do">>
    BY <2>1, TxnParts
  <2> QED BY <2>2 DEF OnlyTouches
<1> QED BY <1>1, <1>2 DEF TxnSettled, Entries

(* The invariant is preserved by a request. *)
LEMMA SafeRequest == TypeOK /\ IInv /\ Request => IInv'
<1> SUFFICES ASSUME TypeOK, IInv, NEW t \in Plans,
                    \/ Prepare(t)
                    \/ \E ok \in BOOLEAN : StageWriteSet(t, ok) \/ RefuseStale(t, ok) \/ Compensate(t, ok)
             PROVE  IInv'
  BY DEF Request
<1>a. <<t, "do">> \in Txns /\ <<t, "undo">> \in Txns
      /\ PlanOf(<<t, "do">>) = t /\ PlanOf(<<t, "undo">>) = t
  BY TxnParts DEF PlanOf
<1>1. CASE Prepare(t)
  <2> DEFINE j == <<t, "do">>
  <2>1. OnlyTouches(j)
    BY <1>1 DEF Prepare, OnlyTouches, TypeOK, history
  <2>2. journal' = journal /\ wrote' = wrote /\ run' = run /\ svc' = svc
        /\ planState'[t] = "READY" /\ planState[t] \in {"OPEN", "FAILED", "CONFLICTED"}
    BY <1>1 DEF Prepare, TypeOK, history
  <2>3. TxnSettled(j)'
    BY <2>2, <1>a DEF IInv, TxnSettled, Entries
  <2>4. CommitPhaseInv'
    <3>1. run.phase \in CommitPhases /\ run.txn[2] = "do" => PlanOf(run.txn) # t
      BY <2>2 DEF IInv, CommitPhaseInv
    <3>2. run.txn[2] = "do" /\ PlanOf(run.txn) # t
            => planState'[PlanOf(run.txn)] = planState[PlanOf(run.txn)]
      BY <1>1, TxnParts DEF Prepare, TypeOK, Runs
    <3> QED BY <2>2, <3>1, <3>2 DEF IInv, CommitPhaseInv, Entries
  <2>5. RecoveryPhaseInv'
    BY <2>2 DEF IInv, RecoveryPhaseInv, Entries
  <2> QED BY <2>1, <2>3, <2>4, <2>5, <1>a, OthersStaySettled DEF IInv
<1>2. ASSUME NEW ok \in BOOLEAN, StageWriteSet(t, ok)  PROVE IInv'
  <2> DEFINE j == <<t, "do">>
  <2>0. PersistJournal(j, NewJournal(prep[t], Target[t]), ok)
    BY <1>2 DEF StageWriteSet
  <2>1. /\ \A i \in Txns : i # j => journal'[i] = journal[i]
        /\ journal'[j].state = "prepared" \/ journal'[j] = journal[j]
        /\ ok => journal'[j].state = "prepared"
    BY <1>a, <2>0, PersistEffect DEF NewJournal
  <2>2. wrote' = wrote /\ planState' = planState /\ planState[t] = "READY" /\ svc' = "open"
    BY <1>2 DEF StageWriteSet, history
  <2>3. wrote[j] = {}
    BY <1>a, <2>2 DEF IInv, TxnSettled
  <2>4. OnlyTouches(j) /\ TxnSettled(j)'
    BY <1>a, <2>1, <2>2, <2>3 DEF IInv, TxnSettled, OnlyTouches, Entries
  <2>5. /\ run'.txn = j /\ run'.phase = IF ok THEN "staged" ELSE "refuse"
        /\ run'.done = {} /\ run'.written = FALSE
    BY <1>2, IdleIsRun DEF StageWriteSet, Begin, Runs, Idle
  <2>6. CommitPhaseInv'
    BY <1>a, <2>1, <2>2, <2>3, <2>5 DEF CommitPhaseInv, CommitPhases
  <2>7. RecoveryPhaseInv'
    BY <2>5 DEF RecoveryPhaseInv, RecoveryPhases
  <2> QED BY <2>4, <2>6, <2>7, <1>a, OthersStaySettled DEF IInv
<1>3. ASSUME NEW ok \in BOOLEAN, RefuseStale(t, ok)  PROVE IInv'
  <2> DEFINE j == <<t, "do">>
  <2>1. /\ \A u \in Plans : u # t => planState'[u] = planState[u]
        /\ planState'[t] \in {"CONFLICTED", "READY"} /\ planState[t] = "READY"
    BY <1>3, TransitionEffect DEF RefuseStale
  <2>2. journal' = journal /\ wrote' = wrote /\ run'.phase = "idle"
    BY <1>3 DEF RefuseStale, history
  <2>3. OnlyTouches(j) /\ TxnSettled(j)'
    BY <1>a, <2>1, <2>2 DEF IInv, TxnSettled, OnlyTouches, Entries
  <2> QED BY <2>2, <2>3, <1>a, IdlePhases, OthersStaySettled DEF IInv
<1>4. ASSUME NEW ok \in BOOLEAN, Compensate(t, ok)  PROVE IInv'
  <2> DEFINE j == <<t, "undo">>
             record == NewJournal(journal[<<t, "do">>].after, journal[<<t, "do">>].before)
  <2>0. PersistJournal(j, record, ok) /\ record.state = "prepared"
    BY <1>4 DEF Compensate, NewJournal
  <2>1. /\ \A i \in Txns : i # j => journal'[i] = journal[i]
        /\ journal'[j].state = "prepared" \/ journal'[j] = journal[j]
        /\ ok => journal'[j].state = "prepared"
    <3> HIDE DEF record
    <3> QED BY <1>a, <2>0, PersistEffect
  <2>2. /\ \A i \in Txns : i # j => wrote'[i] = wrote[i]
        /\ wrote'[j] = {} \/ (journal' = journal /\ wrote' = wrote)
    BY <1>4, <1>a DEF Compensate, TypeOK
  <2>3. planState' = planState /\ svc' = "open"
    BY <1>4 DEF Compensate
  <2>4. OnlyTouches(j)
    BY <2>1, <2>2, <2>3 DEF OnlyTouches
  <2>5. TxnSettled(j)' /\ (ok => wrote'[j] = {})
    <3>1. TxnSettled(j) /\ j[2] = "undo"
      BY <1>a DEF IInv
    <3>2. CASE wrote'[j] = {}
      <4>1. journal'[j].state # "committed"
        BY <1>4, <2>1 DEF Compensate
      <4> QED BY <3>1, <3>2, <4>1 DEF TxnSettled, Entries
    <3>3. CASE journal' = journal /\ wrote' = wrote
      <4>1. ok => wrote[j] = {}
        BY <2>1, <3>1, <3>3 DEF TxnSettled
      <4> QED BY <3>1, <3>3, <4>1, <2>3 DEF TxnSettled, Entries
    <3> QED BY <2>2, <3>2, <3>3
  <2>6. CASE ok
    <3>1. Begin(j, "staged")
      BY <1>4, <2>6 DEF Compensate
    <3>2. run'.txn = j /\ run'.phase = "staged" /\ run'.done = {} /\ run'.written = FALSE
      BY <3>1, IdleIsRun DEF Begin, Runs, Idle
    <3>3. CommitPhaseInv' /\ RecoveryPhaseInv'
      BY <1>a, <2>1, <2>3, <2>5, <2>6, <3>2
         DEF CommitPhaseInv, RecoveryPhaseInv, CommitPhases, RecoveryPhases
    <3> QED BY <2>4, <2>5, <3>3, <1>a, OthersStaySettled DEF IInv
  <2>7. CASE ~ok
    <3>1. run'.phase = "idle"
      BY <1>4, <2>7 DEF Compensate
    <3> QED BY <2>4, <2>5, <3>1, <1>a, IdlePhases, OthersStaySettled DEF IInv
  <2> QED BY <2>6, <2>7
<1> QED BY <1>1, <1>2, <1>3, <1>4

(* A step of the call in flight that leaves it idle only has to settle its own
   transaction. *)
LEMMA EndsSettled ==
  ASSUME IInv, NEW j \in Txns, OnlyTouches(j), TxnSettled(j)', run'.phase = "idle"
  PROVE  IInv'
BY OthersStaySettled, IdlePhases DEF IInv

(* What a step that writes its own journal touches. *)
LEMMA PersistTouches ==
  ASSUME TypeOK, NEW j \in Txns, NEW record, NEW ok \in BOOLEAN,
         PersistJournal(j, record, ok), wrote' = wrote, planState' = planState
  PROVE  /\ OnlyTouches(j)
         /\ journal'[j] = record \/ journal'[j] = journal[j]
         /\ ok => journal'[j] = record
BY PersistEffect DEF OnlyTouches

(* What a step that moves its own plan touches. *)
LEMMA TransitionTouches ==
  ASSUME TypeOK, NEW j \in Txns, NEW state, NEW ok \in BOOLEAN,
         Transition(PlanOf(j), state, ok), j[2] = "do", wrote' = wrote, journal' = journal
  PROVE  /\ OnlyTouches(j)
         /\ planState'[PlanOf(j)] = state \/ planState'[PlanOf(j)] = planState[PlanOf(j)]
         /\ ok => planState'[PlanOf(j)] = state
<1>1. PlanOf(j) \in Plans /\ j = <<PlanOf(j), "do">>
  BY TxnParts
<1> QED BY <1>1, TransitionEffect DEF OnlyTouches

(* A step that changes neither journal, plan record nor history. *)
LEMMA QuietTouches ==
  ASSUME NEW j \in Txns, journal' = journal, wrote' = wrote, planState' = planState,
         TxnSettled(j)
  PROVE  OnlyTouches(j) /\ TxnSettled(j)'
BY DEF OnlyTouches, TxnSettled, Entries

(* The invariant is preserved by the steps of a commit or an undo. *)
LEMMA SafeCommitStep == TypeOK /\ IInv /\ CommitStep => IInv'
<1> SUFFICES ASSUME TypeOK, IInv, CommitStep, NEW j \in Txns, j = run.txn PROVE IInv'
  BY DEF TypeOK, Runs
<1>a. /\ PlanOf(j) \in Plans /\ TxnSettled(j) /\ Cur = journal[j]
      /\ Cur \in Journals /\ run \in Runs /\ run.cur \in Paths /\ Entries(j) \in SUBSET Paths
      /\ j[2] \in {"do", "undo"} /\ (j[2] = "do" => j = <<PlanOf(j), "do">>)
  BY TxnParts, EntriesArePaths DEF TypeOK, Runs, Cur, IInv
<1>b. \A s : [Cur EXCEPT !.state = s].state = s
  BY <1>a DEF Journals
<1>c. CommitPhaseInv
  BY DEF IInv
<1>1. ASSUME NEW ok \in BOOLEAN, StartCommitting(ok) PROVE IInv'
  <2>1. /\ run.phase = "staged" /\ j[2] = "do" /\ wrote' = wrote /\ journal' = journal /\ svc' = svc
        /\ run'.txn = j /\ run'.done = run.done /\ run'.written = run.written
        /\ run'.phase = IF ok THEN "committing" ELSE "abort"
    BY <1>1, <1>a DEF StartCommitting, Goto, history, Runs
  <2>2. OnlyTouches(j) /\ planState'[PlanOf(j)] \in {"COMMITTING", planState[PlanOf(j)]}
        /\ (ok => planState'[PlanOf(j)] = "COMMITTING")
    BY <1>1, <2>1, TransitionTouches DEF StartCommitting
  <2>3. journal[j].state = "prepared" /\ wrote[j] = {} /\ run.done = {}
        /\ planState[PlanOf(j)] \in {"READY", "COMMITTING"} /\ svc = "open"
    BY <1>a, <1>c, <2>1 DEF CommitPhaseInv, CommitPhases, TxnSettled
  <2>4. TxnSettled(j)'
    BY <1>a, <2>1, <2>2, <2>3 DEF TxnSettled, Entries
  <2>5. CommitPhaseInv' /\ RecoveryPhaseInv'
    BY <1>a, <2>1, <2>2, <2>3
       DEF CommitPhaseInv, RecoveryPhaseInv, CommitPhases, RecoveryPhases, Entries
  <2> QED BY <2>2, <2>4, <2>5, OthersStaySettled DEF IInv
<1>2. ASSUME NEW ok \in BOOLEAN, MarkApplying(ok) PROVE IInv'
  <2>1. /\ run.phase \in {"staged", "committing"} /\ wrote' = wrote /\ planState' = planState
        /\ run.phase = "staged" => j[2] = "undo"
        /\ svc' = svc /\ run'.txn = j /\ run'.done = run.done /\ run'.written = run.written
        /\ run'.phase = IF ok THEN "applying" ELSE "abort"
    BY <1>2, <1>a DEF MarkApplying, Goto, history, Runs
  <2> DEFINE record == [Cur EXCEPT !.state = "applying"]
  <2>r. PersistJournal(j, record, ok) /\ record.state = "applying"
    BY <1>2, <1>b DEF MarkApplying
  <2>2. OnlyTouches(j) /\ journal'[j].state \in {"applying", journal[j].state}
        /\ (ok => journal'[j].state = "applying")
    <3> HIDE DEF record
    <3> QED BY <2>r, <2>1, PersistTouches
  <2>3. journal[j].state = "prepared" /\ wrote[j] = {} /\ run.done = {}
        /\ (j[2] = "do" => planState[PlanOf(j)] = "COMMITTING") /\ svc = "open"
    BY <1>a, <1>c, <2>1 DEF CommitPhaseInv, CommitPhases, TxnSettled
  <2>4. TxnSettled(j)'
    BY <1>a, <2>1, <2>2, <2>3 DEF TxnSettled, Entries
  <2>5. CommitPhaseInv' /\ RecoveryPhaseInv'
    BY <1>a, <2>1, <2>2, <2>3
       DEF CommitPhaseInv, RecoveryPhaseInv, CommitPhases, RecoveryPhases, Entries
  <2> QED BY <2>2, <2>4, <2>5, OthersStaySettled DEF IInv
<1>d. \A written \in BOOLEAN, code \in {"CONFLICTED", "FAILED"} :
        FailAs(written, code) =>
          /\ run'.txn = j /\ run'.done = run.done /\ run'.written = written
          /\ run'.phase = IF written THEN "fail" ELSE "abort"
  BY <1>a DEF FailAs, Runs
<1>e. \A phase \in Phases : Goto(phase) =>
          /\ run'.txn = j /\ run'.done = run.done /\ run'.written = run.written
          /\ run'.cur = run.cur /\ run'.phase = phase
  BY <1>a DEF Goto, Runs
<1>f. ASSUME journal' = journal, wrote' = wrote, planState' = planState,
             CommitPhaseInv', RecoveryPhaseInv'
      PROVE  IInv'
  BY <1>a, <1>f, QuietTouches, OthersStaySettled DEF IInv
<1>3. CASE RevalidateRefused
  <2>1. run.phase = "committing" /\ journal' = journal /\ wrote' = wrote
        /\ planState' = planState /\ svc' = svc /\ FailAs(FALSE, "CONFLICTED")
    BY <1>3 DEF RevalidateRefused, durable, history
  <2>2. wrote[j] = {} /\ journal[j].state = "prepared" /\ svc = "open" /\ run.done = {}
        /\ (j[2] = "do" => planState[PlanOf(j)] \in {"READY", "COMMITTING"})
    BY <1>a, <1>c, <2>1 DEF CommitPhaseInv, CommitPhases, TxnSettled
  <2>3. run'.txn = j /\ run'.done = run.done /\ run'.phase = "abort"
    BY <1>d, <2>1
  <2>4. CommitPhaseInv' /\ RecoveryPhaseInv'
    BY <2>1, <2>2, <2>3 DEF CommitPhaseInv, RecoveryPhaseInv, CommitPhases, RecoveryPhases
  <2> QED BY <1>f, <2>1, <2>4
<1>g. ASSUME run.phase \in {"applying", "checked"}
      PROVE  /\ svc = "open" /\ journal[j].state = "applying" /\ wrote[j] = run.done
             /\ run.done \subseteq Entries(j) /\ run.written \in BOOLEAN
             /\ (j[2] = "do" => planState[PlanOf(j)] = "COMMITTING")
             /\ (~run.written => wrote[j] = {})
             /\ (run.phase = "checked" => run.cur \in Entries(j))
  BY <1>a, <1>c, <1>g DEF CommitPhaseInv, CommitPhases, Runs
<1>h. ASSUME run.phase \in {"applying", "checked"}, svc' = svc,
             journal' = journal, wrote' = wrote, planState' = planState,
             NEW written \in BOOLEAN, NEW code \in {"CONFLICTED", "FAILED"},
             FailAs(written, code), run.written => written
      PROVE  IInv'
  <2>1. /\ run'.txn = j /\ run'.done = run.done /\ run'.written = written
        /\ run'.phase = IF written THEN "fail" ELSE "abort"
    BY <1>h, <1>d
  <2>2. CommitPhaseInv' /\ RecoveryPhaseInv'
    BY <1>h, <1>g, <2>1
       DEF CommitPhaseInv, RecoveryPhaseInv, CommitPhases, RecoveryPhases, Entries
  <2> QED BY <1>f, <1>h, <2>2
<1>4. CASE ApplyCancelled
  BY <1>4, <1>g, <1>h DEF ApplyCancelled, durable, history
<1>5. ASSUME NEW p \in Paths, CheckEntry(p) PROVE IInv'
  <2>1. run.phase = "applying" /\ journal' = journal /\ wrote' = wrote
        /\ planState' = planState /\ svc' = svc
    BY <1>5 DEF CheckEntry, durable, history
  <2>2. CASE Recheck(run.txn, p)
    <3>1. /\ run'.txn = j /\ run'.done = run.done /\ run'.written = run.written
          /\ run'.cur = p /\ run'.phase = "checked" /\ p \in Entries(j)
      BY <1>5, <2>2, <1>a DEF CheckEntry, Runs, FirstEntry, Todo
    <3>2. CommitPhaseInv' /\ RecoveryPhaseInv'
      BY <1>g, <2>1, <3>1
         DEF CommitPhaseInv, RecoveryPhaseInv, CommitPhases, RecoveryPhases, Entries
    <3> QED BY <1>f, <2>1, <3>2
  <2>3. CASE ~Recheck(run.txn, p)
    <3>1. FailAs(run.written, "CONFLICTED")
      BY <1>5, <2>3 DEF CheckEntry
    <3> QED BY <1>g, <1>h, <2>1, <3>1
  <2> QED BY <2>2, <2>3
<1>6. CASE WriteRefused
  BY <1>6, <1>g, <1>h DEF WriteRefused, durable, history
<1>7. ASSUME NEW ok \in BOOLEAN, WriteEntry(ok) PROVE IInv'
  <2>1. /\ run.phase = "checked" /\ journal' = journal /\ planState' = planState /\ svc' = svc
        /\ run'.txn = j /\ run'.done = run.done /\ run'.written = TRUE /\ run'.cur = run.cur
        /\ run'.phase = IF ok THEN "written" ELSE "fail"
    BY <1>7, <1>a DEF WriteEntry, Runs
  <2>2. /\ \A i \in Txns : i # j => wrote'[i] = wrote[i]
        /\ wrote'[j] = wrote[j] \cup {run.cur}
    BY <1>7 DEF WriteEntry, TypeOK
  <2>3. OnlyTouches(j)
    BY <2>1, <2>2 DEF OnlyTouches
  <2>4. TxnSettled(j)'
    BY <1>a, <1>g, <2>1, <2>2 DEF TxnSettled, Entries
  <2>5. CommitPhaseInv' /\ RecoveryPhaseInv'
    BY <1>g, <2>1, <2>2
       DEF CommitPhaseInv, RecoveryPhaseInv, CommitPhases, RecoveryPhases, Entries
  <2> QED BY <2>3, <2>4, <2>5, OthersStaySettled DEF IInv
<1>8. ASSUME NEW ok \in BOOLEAN, RecordProgress(ok) PROVE IInv'
  <2>1. /\ run.phase = "written" /\ wrote' = wrote /\ planState' = planState /\ svc' = svc
        /\ run'.txn = j /\ run'.done = run.done \cup {run.cur} /\ run'.written = run.written
        /\ run'.phase = IF ok THEN "applying" ELSE "fail"
    BY <1>8, <1>a DEF RecordProgress, Runs, history
  <2> DEFINE record == [Cur EXCEPT !.applied = run.done \cup {run.cur}]
  <2>2. PersistJournal(j, record, ok) /\ record.state = journal[j].state
    BY <1>8, <1>a DEF RecordProgress, Journals
  <2>3. OnlyTouches(j) /\ journal'[j].state = journal[j].state
    <3> HIDE DEF record
    <3> QED BY <2>1, <2>2, PersistTouches
  <2>4. /\ svc = "open" /\ journal[j].state = "applying" /\ wrote[j] = run.done \cup {run.cur}
        /\ run.done \subseteq Entries(j) /\ run.cur \in Entries(j) /\ run.written
        /\ (j[2] = "do" => planState[PlanOf(j)] = "COMMITTING")
    BY <1>c, <2>1 DEF CommitPhaseInv, CommitPhases
  <2>5. TxnSettled(j)'
    BY <1>a, <2>1, <2>3 DEF TxnSettled, Entries
  <2>6. CommitPhaseInv' /\ RecoveryPhaseInv'
    BY <2>1, <2>3, <2>4
       DEF CommitPhaseInv, RecoveryPhaseInv, CommitPhases, RecoveryPhases, Entries
  <2> QED BY <2>3, <2>5, <2>6, OthersStaySettled DEF IInv
<1>9. ASSUME NEW ok \in BOOLEAN, StagerCommit(ok) PROVE IInv'
  <2>1. run.phase = "applying" /\ journal' = journal /\ wrote' = wrote
        /\ planState' = planState /\ svc' = svc /\ Todo = {}
    BY <1>9 DEF StagerCommit, durable, history
  <2>2. CASE ok
    <3>1. /\ run'.txn = j /\ run'.done = run.done /\ run'.written = run.written
          /\ run'.phase = "resynced"
      BY <1>9, <2>2, <1>e DEF StagerCommit, Phases, CommitPhases
    <3>2. Entries(j) # {}
      BY <1>a DEF Entries
    <3>3. wrote[j] = Entries(j) /\ run.written
      BY <1>g, <2>1, <3>2 DEF Todo
    <3>4. CommitPhaseInv' /\ RecoveryPhaseInv'
      BY <1>g, <2>1, <3>1, <3>3
         DEF CommitPhaseInv, RecoveryPhaseInv, CommitPhases, RecoveryPhases, Entries
    <3> QED BY <1>f, <2>1, <3>4
  <2>3. CASE ~ok
    BY <1>9, <1>g, <1>h, <2>1, <2>3 DEF StagerCommit
  <2> QED BY <2>2, <2>3
<1>10. ASSUME NEW ok \in BOOLEAN, SealCommittedJournal(ok) PROVE IInv'
  <2>1. /\ run.phase = "resynced" /\ wrote' = wrote /\ planState' = planState /\ svc' = svc
        /\ run'.txn = j /\ run'.done = run.done /\ run'.written = run.written
        /\ run'.phase = IF ok THEN "sealed" ELSE "fail"
    BY <1>10, <1>a DEF SealCommittedJournal, Goto, Runs, history
  <2> DEFINE record == [Cur EXCEPT !.state = "committed"]
  <2>2. PersistJournal(j, record, ok) /\ record.state = "committed"
    BY <1>10, <1>b DEF SealCommittedJournal
  <2>3. OnlyTouches(j) /\ journal'[j].state \in {"committed", journal[j].state}
        /\ (ok => journal'[j].state = "committed")
    <3> HIDE DEF record
    <3> QED BY <2>1, <2>2, PersistTouches
  <2>4. /\ svc = "open" /\ journal[j].state = "applying" /\ wrote[j] = Entries(j)
        /\ run.done \subseteq Entries(j) /\ run.written
        /\ (j[2] = "do" => planState[PlanOf(j)] = "COMMITTING")
    BY <1>c, <2>1 DEF CommitPhaseInv, CommitPhases
  <2>5. TxnSettled(j)'
    BY <1>a, <2>1, <2>3, <2>4 DEF TxnSettled, Entries
  <2>6. CommitPhaseInv' /\ RecoveryPhaseInv'
    BY <2>1, <2>3, <2>4
       DEF CommitPhaseInv, RecoveryPhaseInv, CommitPhases, RecoveryPhases, Entries
  <2> QED BY <2>3, <2>5, <2>6, OthersStaySettled DEF IInv
<1>11. CASE RecordCommitted
  <2>1. /\ run.phase = "sealed" /\ CollectCommitJournals({j}) /\ run'.phase = "idle"
        /\ (j[2] = "do" => planState' = [planState EXCEPT ![PlanOf(j)] = "COMMITTED"])
        /\ (j[2] # "do" => planState' = planState)
    BY <1>11 DEF RecordCommitted, Idle
  <2>2. journal[j].state = "committed"
    BY <1>c, <2>1 DEF CommitPhaseInv
  <2>3. ASSUME NEW i \in Txns PROVE TxnSettled(i)'
    <3>1. TxnSettled(i) /\ PlanOf(i) \in Plans /\ (i[2] = "do" => i = <<PlanOf(i), "do">>)
      BY TxnParts DEF IInv
    <3>2. \/ journal'[i] = journal[i] /\ wrote'[i] = wrote[i]
          \/ journal'[i].state = "none" /\ wrote'[i] = {} /\ i # j
      BY <2>1, CollectEffect
    <3>3. i[2] = "do" => \/ planState'[PlanOf(i)] = planState[PlanOf(i)]
                         \/ i = j /\ planState'[PlanOf(i)] = "COMMITTED"
      BY <1>a, <2>1, <3>1 DEF TypeOK
    <3> QED BY <2>2, <3>1, <3>2, <3>3 DEF TxnSettled, Entries
  <2> QED BY <2>1, <2>3, IdlePhases DEF IInv
<1>12. CASE RecordCommittedFailed
  <2>1. /\ run.phase = "sealed" /\ journal' = journal /\ wrote' = wrote
        /\ planState' = planState /\ svc' = svc /\ j[2] = "do"
        /\ run'.txn = j /\ run'.done = run.done /\ run'.written = run.written
        /\ run'.phase = "receipt_failed"
    BY <1>12, <1>e DEF RecordCommittedFailed, durable, history, Phases, CommitPhases
  <2>2. CommitPhaseInv' /\ RecoveryPhaseInv'
    BY <1>c, <2>1 DEF CommitPhaseInv, RecoveryPhaseInv, CommitPhases, RecoveryPhases, Entries
  <2> QED BY <1>f, <2>1, <2>2
<1>13. ASSUME NEW ok \in BOOLEAN, RecordReceiptFailed(ok) PROVE IInv'
  <2>1. /\ run.phase = "receipt_failed" /\ journal' = journal /\ wrote' = wrote
        /\ run'.phase = "idle"
    BY <1>13 DEF RecordReceiptFailed, Idle, history
  <2>2. j[2] = "do" /\ planState[PlanOf(j)] = "COMMITTING"
    BY <1>c, <2>1 DEF CommitPhaseInv, CommitPhases
  <2>3. OnlyTouches(j) /\ planState'[PlanOf(j)] \in {"RECOVERY_REQUIRED", planState[PlanOf(j)]}
    BY <1>13, <2>1, <2>2, TransitionTouches DEF RecordReceiptFailed
  <2>4. TxnSettled(j)'
    BY <1>a, <2>1, <2>2, <2>3 DEF TxnSettled, Entries
  <2> QED BY <2>1, <2>3, <2>4, EndsSettled
<1>14. ASSUME NEW ok \in BOOLEAN, AbortJournal(ok) PROVE IInv'
  <2>1. run.phase = "abort" /\ wrote' = wrote /\ planState' = planState /\ svc' = svc
    BY <1>14 DEF AbortJournal, history
  <2> DEFINE record == [Cur EXCEPT !.state = "rolled_back"]
  <2>2. PersistJournal(j, record, ok) /\ record.state = "rolled_back"
    BY <1>14, <1>b DEF AbortJournal
  <2>3. OnlyTouches(j) /\ journal'[j].state \in {"rolled_back", journal[j].state}
    <3> HIDE DEF record
    <3> QED BY <2>1, <2>2, PersistTouches
  <2>4. /\ svc = "open" /\ wrote[j] = {} /\ journal[j].state \in {"prepared", "applying"}
        /\ run.done \subseteq Entries(j)
        /\ (j[2] = "do" => planState[PlanOf(j)] \in {"READY", "COMMITTING"})
    BY <1>c, <2>1 DEF CommitPhaseInv, CommitPhases
  <2>5. TxnSettled(j)'
    BY <1>a, <2>1, <2>3, <2>4 DEF TxnSettled, Entries
  <2>6. CASE j[2] = "do"
    <3>1. run'.txn = j /\ run'.done = run.done /\ run'.phase = "refuse"
      BY <1>14, <1>e, <2>6 DEF AbortJournal, Phases, CommitPhases
    <3>2. CommitPhaseInv' /\ RecoveryPhaseInv'
      BY <2>1, <2>4, <2>6, <3>1
         DEF CommitPhaseInv, RecoveryPhaseInv, CommitPhases, RecoveryPhases, Entries
    <3> QED BY <2>3, <2>5, <3>2, OthersStaySettled DEF IInv
  <2>7. CASE j[2] # "do"
    <3>1. run'.phase = "idle"
      BY <1>14, <2>7 DEF AbortJournal, Idle
    <3> QED BY <2>3, <2>5, <3>1, EndsSettled
  <2> QED BY <2>6, <2>7
<1>15. ASSUME NEW ok \in BOOLEAN, RefusePlan(ok) PROVE IInv'
  <2>1. /\ run.phase = "refuse" /\ journal' = journal /\ wrote' = wrote
        /\ run'.phase = "idle" /\ run.code \in {"CONFLICTED", "FAILED"}
    BY <1>15, <1>a DEF RefusePlan, Idle, history, Runs
  <2>2. j[2] = "do" /\ planState[PlanOf(j)] \in {"READY", "COMMITTING"} /\ wrote[j] = {}
    BY <1>c, <2>1 DEF CommitPhaseInv, CommitPhases
  <2>3. OnlyTouches(j) /\ planState'[PlanOf(j)] \in {run.code, planState[PlanOf(j)]}
    BY <1>15, <2>1, <2>2, TransitionTouches DEF RefusePlan
  <2>4. TxnSettled(j)'
    BY <1>a, <2>1, <2>2, <2>3 DEF TxnSettled, Entries
  <2> QED BY <2>1, <2>3, <2>4, EndsSettled
<1>16. ASSUME NEW ok \in BOOLEAN, MarkJournalRecovery(ok) PROVE IInv'
  <2>1. run.phase = "fail" /\ wrote' = wrote /\ planState' = planState /\ svc' = svc
    BY <1>16 DEF MarkJournalRecovery, history
  <2> DEFINE record == [Cur EXCEPT !.state = "recovery_required", !.applied = run.done]
  <2>2. PersistJournal(j, record, ok) /\ record.state = "recovery_required"
    BY <1>16, <1>a DEF MarkJournalRecovery, Journals
  <2>3. OnlyTouches(j) /\ journal'[j].state \in {"recovery_required", journal[j].state}
    <3> HIDE DEF record
    <3> QED BY <2>1, <2>2, PersistTouches
  <2>4. /\ svc = "open" /\ journal[j].state \in {"applying", "committed"}
        /\ run.done \subseteq Entries(j) /\ (~run.written => wrote[j] = {})
        /\ (j[2] = "do" => planState[PlanOf(j)] = "COMMITTING")
    BY <1>c, <2>1 DEF CommitPhaseInv, CommitPhases
  <2>5. TxnSettled(j)'
    BY <1>a, <2>1, <2>3, <2>4 DEF TxnSettled, Entries
  <2>6. CASE j[2] = "do"
    <3>1. /\ run'.txn = j /\ run'.done = run.done /\ run'.written = run.written
          /\ run'.phase = "failplan"
      BY <1>16, <1>e, <2>6 DEF MarkJournalRecovery, Phases, CommitPhases
    <3>2. CommitPhaseInv' /\ RecoveryPhaseInv'
      BY <2>1, <2>4, <2>6, <3>1
         DEF CommitPhaseInv, RecoveryPhaseInv, CommitPhases, RecoveryPhases, Entries
    <3> QED BY <2>3, <2>5, <3>2, OthersStaySettled DEF IInv
  <2>7. CASE j[2] # "do"
    <3>1. run'.phase = "idle"
      BY <1>16, <2>7 DEF MarkJournalRecovery, Idle
    <3> QED BY <2>3, <2>5, <3>1, EndsSettled
  <2> QED BY <2>6, <2>7
<1>17. ASSUME NEW ok \in BOOLEAN, MarkPlanRecovery(ok) PROVE IInv'
  <2>1. /\ run.phase = "failplan" /\ journal' = journal /\ wrote' = wrote
        /\ run'.phase = "idle"
    BY <1>17 DEF MarkPlanRecovery, Idle, history
  <2>2. j[2] = "do" /\ planState[PlanOf(j)] = "COMMITTING"
    BY <1>c, <2>1 DEF CommitPhaseInv, CommitPhases
  <2>3. OnlyTouches(j) /\ planState'[PlanOf(j)] \in {"RECOVERY_REQUIRED", planState[PlanOf(j)]}
    BY <1>17, <2>1, <2>2, TransitionTouches DEF MarkPlanRecovery
  <2>4. TxnSettled(j)'
    BY <1>a, <2>1, <2>2, <2>3 DEF TxnSettled, Entries
  <2> QED BY <2>1, <2>3, <2>4, EndsSettled
<1> QED BY <1>1, <1>2, <1>3, <1>4, <1>5, <1>6, <1>7, <1>8, <1>9, <1>10, <1>11, <1>12,
           <1>13, <1>14, <1>15, <1>16, <1>17 DEF CommitStep

(* The invariant is preserved by the steps of startup recovery. *)
LEMMA SafeRecoveryStep == TypeOK /\ IInv /\ RecoveryStep => IInv'
<1> SUFFICES ASSUME TypeOK, IInv, RecoveryStep, NEW j \in Txns, j = run.txn PROVE IInv'
  BY DEF TypeOK, Runs
<1>a. /\ PlanOf(j) \in Plans /\ TxnSettled(j) /\ Cur = journal[j]
      /\ Cur \in Journals /\ run \in Runs /\ run.cur \in Paths /\ Entries(j) \in SUBSET Paths
      /\ (j[2] = "do" => j = <<PlanOf(j), "do">>)
  BY TxnParts, EntriesArePaths DEF TypeOK, Runs, Cur, IInv
<1>b. \A s : [Cur EXCEPT !.state = s].state = s
  BY <1>a DEF Journals
<1>c. RecoveryPhaseInv
  BY DEF IInv
<1>d. \A phase \in Phases : Goto(phase) =>
          /\ run'.txn = j /\ run'.done = run.done /\ run'.cur = run.cur /\ run'.phase = phase
  BY <1>a DEF Goto, Runs
<1>e. ASSUME NEW i \in Txns, NEW phase \in Phases, Begin(i, phase)
      PROVE  run'.txn = i /\ run'.done = {} /\ run'.phase = phase
  BY <1>e, IdleIsRun DEF Begin, Runs, Idle
<1>f. ASSUME journal' = journal, wrote' = wrote, planState' = planState,
             CommitPhaseInv', RecoveryPhaseInv'
      PROVE  IInv'
  BY <1>a, <1>f, QuietTouches, OthersStaySettled DEF IInv
<1>g. ASSUME run.phase \in {"restore", "rmatched", "rchecked", "rverify", "restored"}
      PROVE  /\ svc = "opening" /\ journal[j].state \in Restartable
             /\ wrote[j] \cap run.done = {}
             /\ (run.phase # "restore" => run.cur \in Entries(j))
             /\ (run.phase \in {"rverify", "restored"} => run.cur \notin wrote[j])
  BY <1>c, <1>g DEF RecoveryPhaseInv, RecoveryPhases
<1>1. ASSUME NEW i \in Txns, ScanClosed(i) \/ ScanInterrupted(i) PROVE IInv'
  <2>1. journal' = journal /\ wrote' = wrote /\ planState' = planState /\ svc' = "opening"
    BY <1>1 DEF ScanClosed, ScanInterrupted, durable, history
  <2>2. run'.txn = i /\ run'.done = {}
        /\ \/ run'.phase = "rmark" /\ journal[i].state \in {"committed", "rolled_back"}
           \/ run'.phase = "restore" /\ journal[i].state \in Restartable
    BY <1>1, <1>e DEF ScanClosed, ScanInterrupted, Phases, RecoveryPhases, Restartable
  <2>3. CommitPhaseInv' /\ RecoveryPhaseInv'
    BY <2>1, <2>2 DEF CommitPhaseInv, RecoveryPhaseInv, CommitPhases, RecoveryPhases
  <2> QED BY <1>f, <2>1, <2>3
<1>2. ASSUME NEW i \in Txns, NEW ok \in BOOLEAN, ScanPrepared(i, ok) PROVE IInv'
  <2>1. /\ wrote' = wrote /\ planState' = planState /\ svc' = "opening"
        /\ journal[i].state = "prepared"
    BY <1>2 DEF ScanPrepared, history
  <2> DEFINE record == [journal[i] EXCEPT !.state = "rolled_back"]
  <2>2. PersistJournal(i, record, ok) /\ record.state = "rolled_back"
    <3>1. journal[i] \in Journals
      BY DEF TypeOK
    <3> QED BY <1>2, <3>1 DEF ScanPrepared, Journals
  <2>3. OnlyTouches(i) /\ journal'[i].state \in {"rolled_back", "prepared"}
        /\ (ok => journal'[i].state = "rolled_back")
    <3> HIDE DEF record
    <3> QED BY <2>1, <2>2, PersistTouches
  <2>4. TxnSettled(i)'
    BY <2>1, <2>3 DEF IInv, TxnSettled, Entries
  <2>5. run'.txn = i /\ run'.phase = IF ok THEN "rmark" ELSE "rconflict"
    BY <1>2, <1>e DEF ScanPrepared, Phases, RecoveryPhases
  <2>6. CommitPhaseInv' /\ RecoveryPhaseInv'
    BY <2>1, <2>3, <2>5
       DEF CommitPhaseInv, RecoveryPhaseInv, CommitPhases, RecoveryPhases, Restartable
  <2> QED BY <2>3, <2>4, <2>6, OthersStaySettled DEF IInv
<1>3. ASSUME NEW p \in Paths, InspectEntry(p) PROVE IInv'
  <2>1. /\ run.phase = "restore" /\ journal' = journal /\ planState' = planState /\ svc' = svc
        /\ run'.txn = j /\ run'.done = run.done /\ run'.cur = p /\ p \in Entries(j)
        /\ run'.phase \in {"restored", "rmatched", "rconflict"}
    BY <1>3, <1>a DEF InspectEntry, Runs, LastEntry, Todo, durable
  <2>2. /\ \A i \in Txns : i # j => wrote'[i] = wrote[i]
        /\ wrote'[j] \subseteq wrote[j]
        /\ run'.phase = "restored" => p \notin wrote'[j]
    BY <1>3, <1>a DEF InspectEntry, TypeOK, Runs
  <2>3. OnlyTouches(j)
    BY <2>1, <2>2 DEF OnlyTouches
  <2>4. TxnSettled(j)'
    BY <1>a, <1>g, <2>1, <2>2 DEF TxnSettled, Entries, Restartable
  <2>5. CommitPhaseInv' /\ RecoveryPhaseInv'
    BY <1>g, <2>1, <2>2
       DEF CommitPhaseInv, RecoveryPhaseInv, CommitPhases, RecoveryPhases, Entries
  <2> QED BY <2>3, <2>4, <2>5, OthersStaySettled DEF IInv
<1>4. CASE RecheckEntry \/ RestoreRefused \/ VerifyRestored
  <2>1. /\ run.phase \in {"rmatched", "rchecked", "rverify"} /\ journal' = journal
        /\ wrote' = wrote /\ planState' = planState /\ svc' = svc
        /\ run'.txn = j /\ run'.done = run.done /\ run'.cur = run.cur
        /\ run'.phase \in {"rchecked", "rconflict", "restored"}
        /\ run'.phase = "restored" => run.phase = "rverify"
    <3>1. \/ run.phase = "rmatched" /\ (Goto("rchecked") \/ Goto("rconflict"))
          \/ run.phase = "rchecked" /\ Goto("rconflict")
          \/ run.phase = "rverify" /\ (Goto("restored") \/ Goto("rconflict"))
      BY <1>4 DEF RecheckEntry, RestoreRefused, VerifyRestored
    <3>2. {"rchecked", "rconflict", "restored"} \subseteq Phases
      BY DEF Phases, RecoveryPhases
    <3>3. journal' = journal /\ wrote' = wrote /\ planState' = planState /\ svc' = svc
      BY <1>4 DEF RecheckEntry, RestoreRefused, VerifyRestored, durable, history
    <3> QED BY <1>d, <3>1, <3>2, <3>3
  <2>2. CommitPhaseInv' /\ RecoveryPhaseInv'
    BY <1>g, <2>1 DEF CommitPhaseInv, RecoveryPhaseInv, CommitPhases, RecoveryPhases, Entries
  <2> QED BY <1>f, <2>1, <2>2
<1>5. ASSUME NEW ok \in BOOLEAN, RestoreEntry(ok) PROVE IInv'
  <2>1. /\ run.phase = "rchecked" /\ journal' = journal /\ planState' = planState /\ svc' = svc
        /\ run'.txn = j /\ run'.done = run.done /\ run'.cur = run.cur
        /\ run'.phase \in {"rverify", "rconflict"}
    BY <1>5, <1>d DEF RestoreEntry, Phases, RecoveryPhases
  <2>2. /\ \A i \in Txns : i # j => wrote'[i] = wrote[i]
        /\ wrote'[j] = wrote[j] \ {run.cur}
    BY <1>5 DEF RestoreEntry, TypeOK
  <2>3. OnlyTouches(j)
    BY <2>1, <2>2 DEF OnlyTouches
  <2>4. TxnSettled(j)'
    BY <1>a, <1>g, <2>1, <2>2 DEF TxnSettled, Entries, Restartable
  <2>5. CommitPhaseInv' /\ RecoveryPhaseInv'
    BY <1>g, <2>1, <2>2
       DEF CommitPhaseInv, RecoveryPhaseInv, CommitPhases, RecoveryPhases, Entries
  <2> QED BY <2>3, <2>4, <2>5, OthersStaySettled DEF IInv
<1>6. ASSUME NEW ok \in BOOLEAN, RecordRestored(ok) PROVE IInv'
  <2>1. /\ run.phase = "restored" /\ wrote' = wrote /\ planState' = planState /\ svc' = svc
        /\ run'.txn = j /\ run'.done = run.done \cup {run.cur}
        /\ run'.phase \in {"restore", "rconflict"}
    BY <1>6, <1>a DEF RecordRestored, Runs, history
  <2> DEFINE record == [Cur EXCEPT !.applied = @ \ {run.cur},
                                   !.restored = @ \cup {run.cur}]
  <2>2. PersistJournal(j, record, ok) /\ record.state = journal[j].state
    BY <1>6, <1>a DEF RecordRestored, Journals
  <2>3. OnlyTouches(j) /\ journal'[j].state = journal[j].state
    <3> HIDE DEF record
    <3> QED BY <2>1, <2>2, PersistTouches
  <2>4. TxnSettled(j)'
    BY <1>a, <2>1, <2>3 DEF TxnSettled, Entries
  <2>5. CommitPhaseInv' /\ RecoveryPhaseInv'
    BY <1>g, <2>1, <2>3
       DEF CommitPhaseInv, RecoveryPhaseInv, CommitPhases, RecoveryPhases, Entries
  <2> QED BY <2>3, <2>4, <2>5, OthersStaySettled DEF IInv
<1>7. ASSUME NEW ok \in BOOLEAN, FinishRecovery(ok) PROVE IInv'
  <2>1. /\ run.phase = "restore" /\ wrote' = wrote /\ planState' = planState /\ svc' = svc
        /\ run'.txn = j /\ run'.phase = IF ok THEN "rmark" ELSE "rconflict"
    BY <1>7, <1>d DEF FinishRecovery, Phases, RecoveryPhases, history
  <2> DEFINE record == [Cur EXCEPT !.state = "rolled_back"]
  <2>2. PersistJournal(j, record, ok) /\ record.state = "rolled_back"
    BY <1>7, <1>b DEF FinishRecovery
  <2>3. OnlyTouches(j) /\ journal'[j].state \in {"rolled_back", journal[j].state}
        /\ (ok => journal'[j].state = "rolled_back")
    <3> HIDE DEF record
    <3> QED BY <2>1, <2>2, PersistTouches
  <2>4. wrote[j] = {}
    BY <1>7, <1>a, <1>g, <2>1 DEF FinishRecovery, Todo, TxnSettled
  <2>5. TxnSettled(j)'
    BY <1>a, <1>g, <2>1, <2>3, <2>4 DEF TxnSettled, Entries, Restartable
  <2>6. CommitPhaseInv' /\ RecoveryPhaseInv'
    BY <1>g, <2>1, <2>3
       DEF CommitPhaseInv, RecoveryPhaseInv, CommitPhases, RecoveryPhases
  <2> QED BY <2>3, <2>5, <2>6, OthersStaySettled DEF IInv
<1>8. ASSUME NEW ok \in BOOLEAN, ReconcilePlan(ok) PROVE IInv'
  <2>1. /\ run.phase = "rmark" /\ wrote' = wrote /\ journal' = journal /\ run'.phase = "idle"
    BY <1>8 DEF ReconcilePlan, history, Idle
  <2>2. journal[j].state \in {"committed", "rolled_back"}
    BY <1>c, <2>1 DEF RecoveryPhaseInv
  <2>3. \/ planState' = planState
        \/ /\ j[2] = "do"
           /\ planState' = [planState EXCEPT ![PlanOf(j)] =
                              IF journal[j].state = "committed" THEN "COMMITTED"
                              ELSE "ROLLED_BACK"]
    BY <1>8, <1>a DEF ReconcilePlan, Reconcile
  <2>4. OnlyTouches(j)
    BY <1>a, <2>1, <2>3 DEF OnlyTouches, TypeOK
  <2>5. \/ planState'[PlanOf(j)] = planState[PlanOf(j)]
        \/ planState'[PlanOf(j)] = "COMMITTED" /\ journal[j].state = "committed"
        \/ planState'[PlanOf(j)] = "ROLLED_BACK" /\ journal[j].state = "rolled_back"
    BY <1>a, <2>2, <2>3 DEF TypeOK
  <2>6. TxnSettled(j)'
    BY <1>a, <2>1, <2>5 DEF TxnSettled, Entries
  <2> QED BY <2>1, <2>4, <2>6, EndsSettled
<1>9. ASSUME NEW ok \in BOOLEAN, RecoveryConflict(ok) PROVE IInv'
  <2>1. /\ run.phase = "rconflict" /\ wrote' = wrote /\ planState' = planState
        /\ run'.phase = "idle"
    BY <1>9 DEF RecoveryConflict, history, Idle
  <2> DEFINE record == [Cur EXCEPT !.state = "recovery_required"]
  <2>2. PersistJournal(j, record, ok) /\ record.state = "recovery_required"
    BY <1>9, <1>b DEF RecoveryConflict
  <2>3. OnlyTouches(j) /\ journal'[j].state \in {"recovery_required", journal[j].state}
    <3> HIDE DEF record
    <3> QED BY <2>1, <2>2, PersistTouches
  <2>4. journal[j].state \notin {"none", "committed"}
    BY <1>c, <2>1 DEF RecoveryPhaseInv, Restartable
  <2>5. TxnSettled(j)'
    BY <1>a, <2>1, <2>3, <2>4 DEF TxnSettled, Entries
  <2> QED BY <2>1, <2>3, <2>5, EndsSettled
<1>10. CASE OpenDone
  <2>1. CollectCommitJournals({}) /\ planState' = planState /\ run'.phase = "idle"
    BY <1>10 DEF OpenDone
  <2>2. ASSUME NEW i \in Txns PROVE TxnSettled(i)'
    <3>1. TxnSettled(i)
      BY DEF IInv
    <3>2. \/ journal'[i] = journal[i] /\ wrote'[i] = wrote[i]
          \/ journal'[i].state = "none" /\ wrote'[i] = {}
      BY <2>1, CollectEffect
    <3> QED BY <2>1, <3>1, <3>2 DEF TxnSettled, Entries
  <2> QED BY <2>1, <2>2, IdlePhases DEF IInv
<1> QED BY <1>1, <1>2, <1>3, <1>4, <1>5, <1>6, <1>7, <1>8, <1>9, <1>10 DEF RecoveryStep

(* The invariant is preserved by every step. *)
LEMMA SafeStep == TypeOK /\ IInv /\ [Next]_vars => IInv'
<1> SUFFICES ASSUME TypeOK, IInv, [Next]_vars PROVE IInv'
  OBVIOUS
<1>1. CASE Request
  BY <1>1, SafeRequest
<1>2. CASE CommitStep
  BY <1>2, SafeCommitStep
<1>3. CASE RecoveryStep
  BY <1>3, SafeRecoveryStep
<1>4. CASE OpenWorkspace
  <2>1. journal' = journal /\ wrote' = wrote /\ run' = run /\ svc = svc
        /\ svc \in {"down", "refused"}
    BY <1>4 DEF OpenWorkspace, history
  <2>2. run.phase \notin CommitPhases \cup RecoveryPhases
    BY <2>1 DEF IInv, CommitPhaseInv, RecoveryPhaseInv
  <2>3. run'.phase = "idle"
    BY <2>1, <2>2 DEF TypeOK, Runs, Phases
  <2>4. ASSUME NEW i \in Txns PROVE TxnSettled(i)'
    <3>1. TxnSettled(i) /\ PlanOf(i) \in Plans
      BY TxnParts DEF IInv
    <3>2. planState'[PlanOf(i)] = LoadedState(planState[PlanOf(i)])
      BY <1>4, <3>1 DEF OpenWorkspace
    <3>3. \/ planState'[PlanOf(i)] = planState[PlanOf(i)]
          \/ planState'[PlanOf(i)] = "RECOVERY_REQUIRED"
          \/ planState'[PlanOf(i)] = "FAILED" /\ planState[PlanOf(i)] = "READY"
      BY <3>2 DEF LoadedState
    <3> QED BY <2>1, <3>1, <3>3 DEF TxnSettled, Entries
  <2> QED BY <2>3, <2>4, IdlePhases DEF IInv
<1>5. CASE Crash
  <2>1. journal' = journal /\ wrote' = wrote /\ planState' = planState /\ run'.phase = "idle"
    BY <1>5 DEF Crash, durable, history, Idle
  <2> QED BY <2>1, IdlePhases DEF IInv, TxnSettled, Entries
<1>6. ASSUME NEW p \in Paths, NEW image \in Images, External(p, image) PROVE IInv'
  <2>1. journal' = journal /\ wrote' = wrote /\ planState' = planState /\ run' = run /\ svc' = svc
    BY <1>6 DEF External
  <2> QED BY <2>1 DEF IInv, TxnSettled, Entries, CommitPhaseInv, RecoveryPhaseInv
<1>7. CASE UNCHANGED vars
  BY <1>7 DEF vars, durable, history, IInv, TxnSettled, Entries, CommitPhaseInv, RecoveryPhaseInv
<1> QED BY <1>1, <1>2, <1>3, <1>4, <1>5, <1>6, <1>7 DEF Next

(* Before the first transaction there is nothing to settle. *)
LEMMA InitSafe == Init => IInv
<1> SUFFICES ASSUME Init PROVE IInv
  OBVIOUS
<1>1. run.phase = "idle"
  BY DEF Init, Idle
<1>2. CommitPhaseInv /\ RecoveryPhaseInv
  BY <1>1 DEF CommitPhaseInv, RecoveryPhaseInv, CommitPhases, RecoveryPhases
<1>3. \A j \in Txns : TxnSettled(j)
  BY TxnParts DEF Init, TxnSettled, NoJournal
<1> QED BY <1>2, <1>3 DEF IInv

(* The inductive invariant holds in every reachable state. *)
THEOREM Inductive == Spec => []IInv
BY InitSafe, SafeStep, TypeCorrect, PTL DEF Spec

(* All or nothing, for every write set and every pattern of crashes, failed and
   half-failed writes, cancellations and interrupted recoveries: a journal that is
   absent, prepared or rolled back stands for an untouched tree, a committed one
   for a complete write set; a plan handed back to its caller left no write
   behind; and COMMITTED is never claimed without the durable receipt. *)
THEOREM SettledWholly ==
  Spec => []SettledWhole
<1>1. IInv => JournalTellsTheTruth
  BY DEF IInv, TxnSettled, JournalTellsTheTruth
<1>2. IInv => ReusablePlanUntouched /\ CommittedHasReceipt
  <2> SUFFICES ASSUME IInv, NEW t \in Plans
               PROVE  /\ planState[t] \in {"OPEN", "READY", "CONFLICTED", "FAILED", "ROLLED_BACK"}
                           => wrote[<<t, "do">>] = {}
                      /\ planState[t] = "COMMITTED"
                           => journal[<<t, "do">>].state \in {"committed", "none"}
    BY DEF ReusablePlanUntouched, CommittedHasReceipt
  <2>1. TxnSettled(<<t, "do">>) /\ PlanOf(<<t, "do">>) = t
    BY TxnParts DEF IInv, PlanOf
  <2> QED BY <2>1 DEF TxnSettled
<1>3. IInv => SettledWhole
  BY <1>1, <1>2 DEF SettledWhole
<1> QED BY <1>3, Inductive, PTL

-----------------------------------------------------------------------------
(* The refinement: the protocol implements the abstract write sets. *)

(* The write set a journal in a given state stands for, with or without a failed write
   still to be recorded. *)
StatusOf(state, failing) ==
  IF state \in {"none", "prepared", "rolled_back"} THEN "clean"
  ELSE IF state = "committed" /\ ~failing THEN "committed" ELSE "open"

(* A status depends on the journal's state and on a failure in flight, and on
   nothing else. *)
LEMMA StatusIs ==
  \A j : /\ Status(j) = StatusOf(journal[j].state, run.phase = "fail" /\ run.txn = j)
         /\ Status(j)' = StatusOf(journal'[j].state, run'.phase = "fail" /\ run'.txn = j)
BY DEF Status, StatusOf

(* A step that moves one write set, in one of the ways listed, is an abstract step. *)
LEMMA OneMoves ==
  ASSUME TypeOK, TypeOK', NEW j \in Txns,
         \A i \in Txns \ {j} : Status(i)' = Status(i) /\ wrote'[i] = wrote[i],
         \/ Status(j)' = Status(j) /\ wrote'[j] = wrote[j]
         \/ Status(j) = "clean" /\ Status(j)' = "open" /\ wrote'[j] = wrote[j]
         \/ Status(j) = "open" /\ Status(j)' = "open" /\ \E p \in Entries(j) : wrote'[j] \in {wrote[j] \cup {p}, wrote[j] \ {p}}
         \/ Status(j) = "open" /\ Status(j)' = "committed" /\ wrote[j] = Entries(j) /\ wrote'[j] = wrote[j]
         \/ Status(j) = "open" /\ Status(j)' = "clean" /\ wrote'[j] = {} /\ (wrote[j] = {} \/ j[2] = "undo")
  PROVE  [Abstract!Next]_(Abstract!vars)
<1> DEFINE status == [i \in Txns |-> Status(i)]
<1>0. /\ wrote \in [Txns -> SUBSET Paths] /\ wrote' \in [Txns -> SUBSET Paths]
      /\ wrote' = [wrote EXCEPT ![j] = wrote'[j]]
      /\ status' = [status EXCEPT ![j] = Status(j)']
      /\ status'[j] = Status(j)' /\ status[j] = Status(j)
  BY DEF TypeOK
<1> HIDE DEF status
<1>1. CASE Status(j)' = Status(j) /\ wrote'[j] = wrote[j]
  <2>1. wrote' = wrote /\ status' = status
    BY <1>0, <1>1 DEF status
  <2> QED BY <2>1 DEF Abstract!vars, status
<1>2. CASE Status(j) = "clean" /\ Status(j)' = "open" /\ wrote'[j] = wrote[j]
  <2>1. wrote' = wrote
    BY <1>0, <1>2
  <2>2. Abstract!Begin(j)
    BY <2>1, <1>2, <1>0 DEF Abstract!Begin, Abstract!Move, status
  <2> QED BY <2>2 DEF Abstract!Next
<1>3. ASSUME Status(j) = "open", Status(j)' = "open", NEW p \in Entries(j), wrote'[j] \in {wrote[j] \cup {p}, wrote[j] \ {p}}
      PROVE Abstract!Next
  <2>1. status' = status
    BY <1>0, <1>3 DEF status
  <2>2. Abstract!Apply(j) \/ Abstract!Revert(j)
    BY <2>1, <1>3, <1>0 DEF Abstract!Apply, Abstract!Revert, status
  <2> QED BY <2>2 DEF Abstract!Next
<1>4. CASE Status(j) = "open" /\ Status(j)' = "committed" /\ wrote[j] = Entries(j) /\ wrote'[j] = wrote[j]
  <2>1. wrote' = wrote
    BY <1>0, <1>4
  <2>2. Abstract!Commit(j)
    BY <2>1, <1>4, <1>0 DEF Abstract!Commit, Abstract!Move, status
  <2> QED BY <2>2 DEF Abstract!Next
<1>5. CASE Status(j) = "open" /\ Status(j)' = "clean" /\ wrote'[j] = {} /\ wrote[j] = {}
  <2>1. wrote' = wrote
    BY <1>0, <1>5
  <2>2. Abstract!Abort(j)
    BY <2>1, <1>5, <1>0 DEF Abstract!Abort, Abstract!Move, status
  <2> QED BY <2>2 DEF Abstract!Next
<1>6. CASE Status(j) = "open" /\ Status(j)' = "clean" /\ wrote'[j] = {} /\ j[2] = "undo"
  <2>2. Abstract!Supersede(j)
    BY <1>6, <1>0 DEF Abstract!Supersede, Abstract!Move, status
  <2> QED BY <2>2 DEF Abstract!Next
<1> QED BY <1>1, <1>2, <1>3, <1>4, <1>5, <1>6

(* A step of transaction j leaves the status of every other one alone. *)
LEMMA OthersKeepStatus ==
  ASSUME NEW j \in Txns, \A i \in Txns : i # j => journal'[i] = journal[i] /\ wrote'[i] = wrote[i],
         run.phase = "fail" => run.txn = j, run'.phase = "fail" => run'.txn = j
  PROVE  \A i \in Txns \ {j} : Status(i)' = Status(i) /\ wrote'[i] = wrote[i]
BY StatusIs

(* A step that changes no state, no history and no failure is no abstract step. *)
LEMMA QuietStep ==
  ASSUME TypeOK, wrote' = wrote, \A i \in Txns : journal'[i].state = journal[i].state,
         run.phase # "fail", run'.phase # "fail"
  PROVE  UNCHANGED Abstract!vars
<1>1. \A i \in Txns : Status(i)' = Status(i)
  BY StatusIs
<1> QED BY <1>1 DEF Abstract!vars

(* Retention forgets committed write sets, and no more. *)
LEMMA CollectStep ==
  ASSUME TypeOK, TypeOK', IInv, NEW newest, CollectCommitJournals(newest), run.phase # "fail", run'.phase # "fail"
  PROVE  Abstract!Next
<1> DEFINE status == [i \in Txns |-> Status(i)]
           gone == {i \in Txns : Status(i) = "committed" /\ Status(i)' = "clean"}
<1>1. \A i \in Txns :
        \/ i \notin gone /\ Status(i)' = Status(i) /\ wrote'[i] = wrote[i]
        \/ i \in gone /\ wrote'[i] = {} /\ Status(i)' = "clean"
  <2> SUFFICES ASSUME NEW i \in Txns
               PROVE  \/ ~(Status(i) = "committed" /\ Status(i)' = "clean") /\ Status(i)' = Status(i) /\ wrote'[i] = wrote[i]
                      \/ Status(i) = "committed" /\ Status(i)' = "clean" /\ wrote'[i] = {}
    OBVIOUS
  <2>1. \/ journal'[i] = journal[i] /\ wrote'[i] = wrote[i]
        \/ /\ journal'[i].state = "none" /\ wrote'[i] = {}
           /\ journal[i].state \in {"committed", "rolled_back"}
    BY CollectEffect
  <2>2. journal[i].state = "rolled_back" => wrote[i] = {}
    BY DEF IInv, TxnSettled
  <2> QED BY <2>1, <2>2, StatusIs DEF StatusOf
<1>2. /\ gone \in SUBSET {i \in Txns : status[i] = "committed"}
      /\ status' = [i \in Txns |-> IF i \in gone THEN "clean" ELSE status[i]]
  BY <1>1
<1>3. wrote' = [i \in Txns |-> IF i \in gone THEN {} ELSE wrote[i]]
  BY <1>1 DEF TypeOK
<1>4. Abstract!Forget
  BY <1>2, <1>3 DEF Abstract!Forget
<1> QED BY <1>4 DEF Abstract!Next

(* A request implements a step of the abstract write sets, or none. *)
LEMMA RefineRequest ==
  ASSUME TypeOK, TypeOK', IInv, Request
  PROVE  [Abstract!Next]_(Abstract!vars)
<1>1. PICK t \in Plans : \/ Prepare(t)
                         \/ \E ok \in BOOLEAN : StageWriteSet(t, ok) \/ RefuseStale(t, ok) \/ Compensate(t, ok)
  BY DEF Request
<1>2. ASSUME Prepare(t) \/ \E ok \in BOOLEAN : RefuseStale(t, ok)
      PROVE  UNCHANGED Abstract!vars
  <2>1. wrote' = wrote /\ journal' = journal /\ run' = run
    BY <1>2 DEF Prepare, RefuseStale, history
  <2> QED BY <2>1, StatusIs DEF Abstract!vars
<1>3. ASSUME NEW ok \in BOOLEAN, NEW j \in Txns, j = <<t, "do">>, StageWriteSet(t, ok)
      PROVE  [Abstract!Next]_(Abstract!vars)
  <2> DEFINE record == NewJournal(prep[t], Target[t])
  <2>1. /\ j \in Txns /\ PersistJournal(j, record, ok) /\ record.state = "prepared" /\ wrote' = wrote
        /\ run.phase = "idle" /\ run'.phase \in {"staged", "refuse"} /\ planState[t] = "READY"
    BY <1>3, TxnParts DEF StageWriteSet, NewJournal, history, Begin, Idle
  <2>2. TxnSettled(j) /\ PlanOf(j) = t /\ Entries(j) # {}
    BY <1>3, <2>1, TxnParts, WriteSetAssumption DEF IInv, Entries, PlanOf
  <2>3. wrote[j] = {} /\ journal[j].state # "committed"
    BY <1>3, <2>1, <2>2 DEF TxnSettled
  <2>4. /\ \A i \in Txns : i # j => journal'[i] = journal[i]
        /\ journal'[j].state = "prepared" \/ journal'[j] = journal[j]
    <3> HIDE DEF record
    <3> QED BY <2>1, PersistEffect
  <2>5. \A i \in Txns \ {j} : Status(i)' = Status(i) /\ wrote'[i] = wrote[i]
    BY <2>1, <2>4, OthersKeepStatus
  <2>6. Status(j) \in {"clean", "open"} /\ (Status(j)' = "clean" \/ Status(j)' = Status(j))
    BY <2>1, <2>3, <2>4, StatusIs DEF StatusOf
  <2> QED BY <2>1, <2>3, <2>5, <2>6, OneMoves
<1>4. ASSUME NEW ok \in BOOLEAN, NEW j \in Txns, j = <<t, "undo">>, Compensate(t, ok)
      PROVE  [Abstract!Next]_(Abstract!vars)
  <2> DEFINE record == NewJournal(journal[<<t, "do">>].after, journal[<<t, "do">>].before)
  <2>1. /\ j \in Txns /\ j[2] = "undo" /\ PersistJournal(j, record, ok) /\ record.state = "prepared"
        /\ run.phase = "idle" /\ run'.phase \in {"idle", "staged"} /\ journal[j].state # "committed"
        /\ wrote' = IF journal' = journal THEN wrote ELSE [wrote EXCEPT ![j] = {}]
    BY <1>4, TxnParts DEF Compensate, NewJournal, Begin, Idle
  <2>2. journal[j].state \in {"none", "prepared", "rolled_back"} => wrote[j] = {}
    BY <1>4, <2>1 DEF IInv, TxnSettled
  <2>3. /\ \A i \in Txns : i # j => journal'[i] = journal[i]
        /\ journal'[j].state = "prepared" \/ journal'[j] = journal[j]
    <3> HIDE DEF record
    <3> QED BY <2>1, PersistEffect
  <2>4. CASE journal' = journal
    BY <2>1, <2>4, StatusIs DEF Abstract!vars
  <2>5. CASE journal' # journal
    <3>1. journal'[j].state = "prepared" /\ wrote'[j] = {} /\ \A i \in Txns : i # j => wrote'[i] = wrote[i]
      <4>1. journal'[j] # journal[j]
        <5>1. journal \in [Txns -> Journals] /\ journal' \in [Txns -> Journals]
          BY DEF TypeOK
        <5>2. (\A i \in Txns : journal'[i] = journal[i]) => journal' = journal
          BY <5>1
        <5> QED BY <2>3, <2>5, <5>2
      <4>2. wrote' = [wrote EXCEPT ![j] = {}]
        BY <2>1, <2>5
      <4> QED BY <2>1, <2>3, <4>1, <4>2 DEF TypeOK
    <3>2. \A i \in Txns \ {j} : Status(i)' = Status(i) /\ wrote'[i] = wrote[i]
      BY <2>1, <2>3, <3>1, OthersKeepStatus
    <3>3. Status(j)' = "clean" /\ (Status(j) = "open" \/ (Status(j) = "clean" /\ wrote[j] = {}))
      <4>1. run'.phase # "fail" /\ run.phase # "fail"
        BY <2>1
      <4>2. Status(j) = StatusOf(journal[j].state, FALSE) /\ Status(j)' = StatusOf(journal'[j].state, FALSE)
        BY <4>1, StatusIs
      <4>3. journal[j].state # "committed" /\ journal'[j].state = "prepared"
        BY <2>1, <3>1
      <4> QED BY <2>2, <4>2, <4>3 DEF StatusOf
    <3> QED BY <2>1, <3>1, <3>2, <3>3, OneMoves
  <2> QED BY <2>4, <2>5
<1> QED BY <1>1, <1>2, <1>3, <1>4, TxnParts

(* A step that writes no journal leaves every status alone, unless it fails over
   a committed journal. *)
LEMMA SilentStep ==
  ASSUME journal' = journal, wrote' = wrote,
         run.phase = "fail" => journal[run.txn].state # "committed",
         run'.phase = "fail" => journal[run'.txn].state # "committed"
  PROVE  UNCHANGED Abstract!vars
<1>1. \A i \in Txns : Status(i)' = Status(i)
  BY StatusIs DEF StatusOf
<1> QED BY <1>1 DEF Abstract!vars

(* A step that writes one journal and keeps the history: what the states of that
   journal before and after it say. *)
LEMMA JournalStep ==
  ASSUME TypeOK, TypeOK', IInv, NEW j \in Txns, wrote' = wrote,
         \A i \in Txns : i # j => journal'[i] = journal[i],
         run.phase = "fail" => run.txn = j, run'.phase = "fail" => run'.txn = j,
         \/ journal'[j].state = journal[j].state /\ journal[j].state # "committed"
         \/ journal[j].state = "prepared" /\ journal'[j].state = "applying"
         \/ journal[j].state # "committed" /\ journal'[j].state = "rolled_back" /\ wrote[j] = {}
         \/ /\ journal[j].state = "applying" /\ journal'[j].state = "committed" /\ wrote[j] = Entries(j)
         \/ /\ journal[j].state # "committed" /\ journal'[j].state = "recovery_required"
  PROVE  [Abstract!Next]_(Abstract!vars)
<1>1. \A i \in Txns \ {j} : Status(i)' = Status(i) /\ wrote'[i] = wrote[i]
  BY OthersKeepStatus
<1>2. Status(j) = StatusOf(journal[j].state, run.phase = "fail" /\ run.txn = j)
      /\ Status(j)' = StatusOf(journal'[j].state, run'.phase = "fail" /\ run'.txn = j)
  BY StatusIs
<1>3. CASE journal'[j].state = journal[j].state /\ journal[j].state # "committed"
  <2>1. Status(j)' = Status(j)
    BY <1>2, <1>3 DEF StatusOf
  <2> QED BY <1>1, <2>1, OneMoves
<1>4. CASE journal[j].state = "prepared" /\ journal'[j].state = "applying"
  <2>1. Status(j) = "clean" /\ Status(j)' = "open"
    BY <1>2, <1>4 DEF StatusOf
  <2> QED BY <1>1, <2>1, OneMoves
<1>5. CASE journal[j].state # "committed" /\ journal'[j].state = "rolled_back" /\ wrote[j] = {}
  <2>1. Status(j) \in {"clean", "open"} /\ Status(j)' = "clean" /\ wrote'[j] = {}
    BY <1>2, <1>5 DEF StatusOf
  <2> QED BY <1>1, <1>5, <2>1, OneMoves
<1>6. CASE journal[j].state = "applying" /\ journal'[j].state = "committed" /\ wrote[j] = Entries(j)
  <2>1. Status(j) = "open" /\ Status(j)' \in {"open", "committed"}
    BY <1>2, <1>6 DEF StatusOf
  <2> QED BY <1>1, <1>6, <2>1, OneMoves
<1>7. CASE journal[j].state # "committed" /\ journal'[j].state = "recovery_required"
  <2>1. Status(j) \in {"clean", "open"} /\ Status(j)' = "open"
    BY <1>2, <1>7 DEF StatusOf
  <2> QED BY <1>1, <2>1, OneMoves
<1> QED BY <1>3, <1>4, <1>5, <1>6, <1>7

(* A step of a commit or an undo implements a step of the abstract write sets, or
   none. *)
LEMMA RefineCommitStep ==
  ASSUME TypeOK, TypeOK', IInv, CommitStep
  PROVE  [Abstract!Next]_(Abstract!vars)
<1> SUFFICES ASSUME NEW j \in Txns, j = run.txn PROVE [Abstract!Next]_(Abstract!vars)
  BY DEF TypeOK, Runs
<1>a. /\ TxnSettled(j) /\ Cur = journal[j] /\ Cur \in Journals /\ run \in Runs
      /\ run.cur \in Paths /\ Entries(j) \in SUBSET Paths
  BY EntriesArePaths DEF TypeOK, Runs, Cur, IInv
<1>b. \A s : [Cur EXCEPT !.state = s].state = s
  BY <1>a DEF Journals
<1>c. CommitPhaseInv
  BY DEF IInv
<1>d. \A written \in BOOLEAN, code \in {"CONFLICTED", "FAILED"} : FailAs(written, code) => run'.txn = j
  BY <1>a DEF FailAs, Runs
<1>e. \A phase \in Phases : Goto(phase) => run'.txn = j /\ run'.phase = phase
  BY <1>a DEF Goto, Runs
<1>1. ASSUME journal' = journal, wrote' = wrote, journal[j].state # "committed", run'.txn = j \/ run'.phase = "idle"
      PROVE  [Abstract!Next]_(Abstract!vars)
  BY <1>1, SilentStep
<1>2. ASSUME NEW ok \in BOOLEAN, StartCommitting(ok) \/ RecordReceiptFailed(ok) \/ RefusePlan(ok) \/ MarkPlanRecovery(ok)
      PROVE  [Abstract!Next]_(Abstract!vars)
  <2>1. run.phase # "fail" /\ run'.phase # "fail" /\ journal' = journal /\ wrote' = wrote
    BY <1>2, <1>e DEF StartCommitting, RecordReceiptFailed, RefusePlan, MarkPlanRecovery, Idle, history,
                      Phases, CommitPhases
  <2> QED BY <2>1, SilentStep
<1>3. ASSUME RecordCommittedFailed
      PROVE  [Abstract!Next]_(Abstract!vars)
  <2>1. run.phase # "fail" /\ run'.phase # "fail" /\ journal' = journal /\ wrote' = wrote
    BY <1>3, <1>e DEF RecordCommittedFailed, durable, history, Phases, CommitPhases
  <2> QED BY <2>1, SilentStep
<1>4. ASSUME RevalidateRefused \/ ApplyCancelled \/ WriteRefused
      PROVE  [Abstract!Next]_(Abstract!vars)
  <2>1. journal' = journal /\ wrote' = wrote /\ run.phase \in {"committing", "applying", "checked"}
        /\ \E written \in BOOLEAN, code \in {"CONFLICTED", "FAILED"} : FailAs(written, code)
    BY <1>4, <1>a DEF RevalidateRefused, ApplyCancelled, WriteRefused, durable, history, Runs
  <2>2. journal[j].state # "committed" /\ run'.txn = j
    BY <1>c, <1>d, <2>1 DEF CommitPhaseInv
  <2> QED BY <1>1, <2>1, <2>2
<1>5. ASSUME NEW p \in Paths, CheckEntry(p)
      PROVE  [Abstract!Next]_(Abstract!vars)
  <2>1. journal' = journal /\ wrote' = wrote /\ run.phase = "applying"
    BY <1>5 DEF CheckEntry, durable, history
  <2>2. run'.txn = j
    BY <1>5, <1>a, <1>d DEF CheckEntry, Runs
  <2>3. journal[j].state # "committed"
    BY <1>c, <2>1 DEF CommitPhaseInv
  <2> QED BY <1>1, <2>1, <2>2, <2>3
<1>6. ASSUME NEW ok \in BOOLEAN, StagerCommit(ok)
      PROVE  [Abstract!Next]_(Abstract!vars)
  <2>1. journal' = journal /\ wrote' = wrote /\ run.phase = "applying"
    BY <1>6 DEF StagerCommit, durable, history
  <2>2. run'.txn = j
    BY <1>6, <1>a, <1>d, <1>e DEF StagerCommit, Runs, Phases, CommitPhases
  <2>3. journal[j].state # "committed"
    BY <1>c, <2>1 DEF CommitPhaseInv
  <2> QED BY <1>1, <2>1, <2>2, <2>3
<1>7. ASSUME NEW ok \in BOOLEAN, MarkApplying(ok)
      PROVE  [Abstract!Next]_(Abstract!vars)
  <2> DEFINE record == [Cur EXCEPT !.state = "applying"]
  <2>1. /\ PersistJournal(j, record, ok) /\ record.state = "applying" /\ wrote' = wrote
        /\ run.phase \in {"staged", "committing"} /\ run'.txn = j
    BY <1>7, <1>b, <1>e DEF MarkApplying, history, Phases, CommitPhases
  <2>2. /\ \A i \in Txns : i # j => journal'[i] = journal[i]
        /\ journal'[j].state = "applying" \/ journal'[j] = journal[j]
    <3> HIDE DEF record
    <3> QED BY <2>1, PersistEffect
  <2>3. journal[j].state = "prepared"
    BY <1>c, <2>1 DEF CommitPhaseInv
  <2> QED BY <2>1, <2>2, <2>3, JournalStep
<1>8. ASSUME NEW ok \in BOOLEAN, WriteEntry(ok)
      PROVE  [Abstract!Next]_(Abstract!vars)
  <2>1. /\ run.phase = "checked" /\ journal' = journal /\ run'.txn = j
        /\ \A i \in Txns : i # j => wrote'[i] = wrote[i]
        /\ wrote'[j] = wrote[j] \cup {run.cur}
    BY <1>8, <1>a DEF WriteEntry, Runs, TypeOK
  <2>2. journal[j].state = "applying" /\ run.cur \in Entries(j)
    BY <1>c, <2>1 DEF CommitPhaseInv
  <2>3. \A i \in Txns \ {j} : Status(i)' = Status(i) /\ wrote'[i] = wrote[i]
    BY <2>1, OthersKeepStatus
  <2>4. Status(j) = "open" /\ Status(j)' = "open"
    BY <2>1, <2>2, StatusIs DEF StatusOf
  <2> QED BY <2>1, <2>2, <2>3, <2>4, OneMoves
<1>9. ASSUME NEW ok \in BOOLEAN, RecordProgress(ok)
      PROVE  [Abstract!Next]_(Abstract!vars)
  <2> DEFINE record == [Cur EXCEPT !.applied = run.done \cup {run.cur}]
  <2>1. /\ PersistJournal(j, record, ok) /\ record.state = journal[j].state /\ wrote' = wrote
        /\ run.phase = "written" /\ run'.txn = j
    BY <1>9, <1>a DEF RecordProgress, history, Runs, Journals
  <2>2. /\ \A i \in Txns : i # j => journal'[i] = journal[i]
        /\ journal'[j].state = journal[j].state
    <3> HIDE DEF record
    <3> QED BY <2>1, PersistEffect
  <2>3. journal[j].state = "applying"
    BY <1>c, <2>1 DEF CommitPhaseInv
  <2> QED BY <2>1, <2>2, <2>3, JournalStep
<1>10. ASSUME NEW ok \in BOOLEAN, SealCommittedJournal(ok)
      PROVE  [Abstract!Next]_(Abstract!vars)
  <2> DEFINE record == [Cur EXCEPT !.state = "committed"]
  <2>1. /\ PersistJournal(j, record, ok) /\ record.state = "committed" /\ wrote' = wrote
        /\ run.phase = "resynced" /\ run'.txn = j
    BY <1>10, <1>b, <1>e DEF SealCommittedJournal, history, Phases, CommitPhases
  <2>2. /\ \A i \in Txns : i # j => journal'[i] = journal[i]
        /\ journal'[j].state = "committed" \/ journal'[j] = journal[j]
    <3> HIDE DEF record
    <3> QED BY <2>1, PersistEffect
  <2>3. journal[j].state = "applying" /\ wrote[j] = Entries(j)
    BY <1>c, <2>1 DEF CommitPhaseInv
  <2> QED BY <2>1, <2>2, <2>3, JournalStep
<1>11. ASSUME NEW ok \in BOOLEAN, AbortJournal(ok)
      PROVE  [Abstract!Next]_(Abstract!vars)
  <2> DEFINE record == [Cur EXCEPT !.state = "rolled_back"]
  <2>1. /\ PersistJournal(j, record, ok) /\ record.state = "rolled_back" /\ wrote' = wrote
        /\ run.phase = "abort" /\ run'.phase # "fail"
    BY <1>11, <1>b, <1>e DEF AbortJournal, Idle, history, Phases, CommitPhases
  <2>2. /\ \A i \in Txns : i # j => journal'[i] = journal[i]
        /\ journal'[j].state = "rolled_back" \/ journal'[j] = journal[j]
    <3> HIDE DEF record
    <3> QED BY <2>1, PersistEffect
  <2>3. journal[j].state # "committed" /\ wrote[j] = {}
    BY <1>c, <2>1 DEF CommitPhaseInv
  <2> QED BY <2>1, <2>2, <2>3, JournalStep
<1>12. ASSUME NEW ok \in BOOLEAN, MarkJournalRecovery(ok)
      PROVE  [Abstract!Next]_(Abstract!vars)
  <2> DEFINE record == [Cur EXCEPT !.state = "recovery_required", !.applied = run.done]
  <2>1. /\ PersistJournal(j, record, ok) /\ record.state = "recovery_required" /\ wrote' = wrote
        /\ run.phase = "fail" /\ run'.phase # "fail"
    BY <1>12, <1>a, <1>e DEF MarkJournalRecovery, Idle, history, Journals, Phases, CommitPhases
  <2>2. /\ \A i \in Txns : i # j => journal'[i] = journal[i]
        /\ journal'[j].state = "recovery_required" \/ journal'[j] = journal[j]
    <3> HIDE DEF record
    <3> QED BY <2>1, PersistEffect
  <2>3. CASE journal[j].state # "committed"
    BY <2>1, <2>2, <2>3, JournalStep
  <2>4. CASE journal[j].state = "committed"
    <3>1. \A i \in Txns \ {j} : Status(i)' = Status(i) /\ wrote'[i] = wrote[i]
      BY <2>1, <2>2, OthersKeepStatus
    <3>2. Status(j) = "open" /\ Status(j)' \in {"open", "committed"}
      BY <2>1, <2>2, <2>4, StatusIs DEF StatusOf
    <3>3. wrote[j] = Entries(j) /\ wrote'[j] = wrote[j]
      BY <1>a, <2>1, <2>4 DEF TxnSettled
    <3> QED BY <3>1, <3>2, <3>3, OneMoves
  <2> QED BY <2>3, <2>4
<1>13. CASE RecordCommitted
  <2>1. CollectCommitJournals({j}) /\ run.phase # "fail" /\ run'.phase # "fail"
    BY <1>13 DEF RecordCommitted, Idle
  <2> QED BY <2>1, CollectStep
<1> QED BY <1>2, <1>3, <1>4, <1>5, <1>6, <1>7, <1>8, <1>9, <1>10, <1>11, <1>12, <1>13 DEF CommitStep

(* A step of an opening workspace implements a step of the abstract write sets,
   or none. *)
LEMMA RefineRecoveryStep ==
  ASSUME TypeOK, TypeOK', IInv, RecoveryStep
  PROVE  [Abstract!Next]_(Abstract!vars)
<1> SUFFICES ASSUME NEW j \in Txns, j = run.txn PROVE [Abstract!Next]_(Abstract!vars)
  BY DEF TypeOK, Runs
<1>a. /\ TxnSettled(j) /\ Cur = journal[j] /\ Cur \in Journals
      /\ run \in Runs /\ run.cur \in Paths /\ Entries(j) \in SUBSET Paths
  BY EntriesArePaths DEF TypeOK, Runs, Cur, IInv
<1>b. \A s : [Cur EXCEPT !.state = s].state = s
  BY <1>a DEF Journals
<1>c. RecoveryPhaseInv
  BY DEF IInv
<1>e. \A phase \in Phases : Goto(phase) => run'.txn = j /\ run'.phase = phase
  BY <1>a DEF Goto, Runs
<1>1. ASSUME journal' = journal, wrote' = wrote, run.phase # "fail", run'.phase # "fail"
      PROVE  [Abstract!Next]_(Abstract!vars)
  BY <1>1, SilentStep
<1>2. ASSUME NEW i \in Txns, ScanClosed(i) \/ ScanInterrupted(i)
      PROVE  [Abstract!Next]_(Abstract!vars)
  <2>1. journal' = journal /\ wrote' = wrote /\ run.phase # "fail" /\ run'.phase # "fail"
    BY <1>2, IdleIsRun DEF ScanClosed, ScanInterrupted, Begin, Runs, durable, history
  <2> QED BY <1>1, <2>1
<1>3. ASSUME NEW i \in Txns, NEW ok \in BOOLEAN, ScanPrepared(i, ok)
      PROVE  [Abstract!Next]_(Abstract!vars)
  <2> DEFINE record == [journal[i] EXCEPT !.state = "rolled_back"]
  <2>1. /\ PersistJournal(i, record, ok) /\ wrote' = wrote /\ journal[i].state = "prepared"
        /\ run.phase # "fail" /\ run'.phase # "fail"
    BY <1>3, IdleIsRun DEF ScanPrepared, Begin, Runs, history
  <2>2. record.state = "rolled_back"
    BY DEF TypeOK, Journals
  <2>3. /\ \A k \in Txns : k # i => journal'[k] = journal[k]
        /\ journal'[i].state = "rolled_back" \/ journal'[i] = journal[i]
    <3> HIDE DEF record
    <3> QED BY <2>1, <2>2, PersistEffect
  <2>4. wrote[i] = {}
    BY <2>1 DEF IInv, TxnSettled
  <2> QED BY <2>1, <2>3, <2>4, JournalStep
<1>4. ASSUME RecheckEntry \/ RestoreRefused \/ VerifyRestored
      PROVE  [Abstract!Next]_(Abstract!vars)
  <2>0. \E phase \in {"rchecked", "rconflict", "restored"} : Goto(phase)
    BY <1>4 DEF RecheckEntry, RestoreRefused, VerifyRestored
  <2>1. journal' = journal /\ wrote' = wrote /\ run.phase # "fail" /\ run'.phase # "fail"
    BY <1>4, <1>e, <2>0 DEF RecheckEntry, RestoreRefused, VerifyRestored, durable, history, Phases, RecoveryPhases
  <2> QED BY <1>1, <2>1
<1>5. ASSUME NEW p \in Paths, wrote' = [wrote EXCEPT ![j] = @ \ {p}], p \in Entries(j),
             journal' = journal, run.phase # "fail", run'.phase # "fail", journal[j].state \in Restartable
      PROVE  [Abstract!Next]_(Abstract!vars)
  <2>1. /\ \A i \in Txns : i # j => wrote'[i] = wrote[i]
        /\ wrote'[j] = wrote[j] \ {p}
    BY <1>5, <1>a DEF TypeOK
  <2>2. \A i \in Txns \ {j} : Status(i)' = Status(i) /\ wrote'[i] = wrote[i]
    BY <1>5, <1>a, <2>1, StatusIs
  <2>3. Status(j) = "open" /\ Status(j)' = "open"
    BY <1>5, <1>a, StatusIs DEF StatusOf, Restartable
  <2> QED BY <1>5, <1>a, <2>1, <2>2, <2>3, OneMoves
<1>6. ASSUME NEW p \in Paths, InspectEntry(p)
      PROVE  [Abstract!Next]_(Abstract!vars)
  <2>1. /\ journal' = journal /\ run.phase = "restore" /\ run'.phase # "fail" /\ p \in Entries(j)
        /\ wrote' \in {wrote, [wrote EXCEPT ![j] = @ \ {p}]}
    BY <1>6, <1>a DEF InspectEntry, durable, LastEntry, Todo, Runs
  <2>2. journal[j].state \in Restartable
    BY <1>c, <2>1 DEF RecoveryPhaseInv
  <2> QED BY <1>1, <1>5, <2>1, <2>2
<1>7. ASSUME NEW ok \in BOOLEAN, RestoreEntry(ok)
      PROVE  [Abstract!Next]_(Abstract!vars)
  <2>1. /\ journal' = journal /\ run.phase = "rchecked" /\ run'.phase # "fail"
        /\ wrote' = [wrote EXCEPT ![j] = @ \ {run.cur}]
    BY <1>7, <1>e DEF RestoreEntry, Phases, RecoveryPhases
  <2>2. journal[j].state \in Restartable /\ run.cur \in Entries(j)
    BY <1>c, <2>1 DEF RecoveryPhaseInv
  <2> QED BY <1>a, <1>5, <2>1, <2>2
<1>8. ASSUME NEW ok \in BOOLEAN, RecordRestored(ok)
      PROVE  [Abstract!Next]_(Abstract!vars)
  <2> DEFINE record == [Cur EXCEPT !.applied = @ \ {run.cur}, !.restored = @ \cup {run.cur}]
  <2>1. /\ PersistJournal(j, record, ok) /\ record.state = journal[j].state /\ wrote' = wrote
        /\ run.phase = "restored" /\ run'.phase # "fail"
    BY <1>8, <1>a DEF RecordRestored, history, Runs, Journals
  <2>2. /\ \A i \in Txns : i # j => journal'[i] = journal[i]
        /\ journal'[j].state = journal[j].state
    <3> HIDE DEF record
    <3> QED BY <1>a, <2>1, PersistEffect
  <2>3. journal[j].state # "committed"
    BY <1>c, <2>1 DEF RecoveryPhaseInv, Restartable
  <2> QED BY <1>a, <2>1, <2>2, <2>3, JournalStep
<1>9. ASSUME NEW ok \in BOOLEAN, FinishRecovery(ok)
      PROVE  [Abstract!Next]_(Abstract!vars)
  <2> DEFINE record == [Cur EXCEPT !.state = "rolled_back"]
  <2>1. /\ PersistJournal(j, record, ok) /\ record.state = "rolled_back" /\ wrote' = wrote
        /\ run.phase = "restore" /\ run'.phase # "fail" /\ Todo = {}
    BY <1>9, <1>b, <1>e DEF FinishRecovery, history, Phases, RecoveryPhases
  <2>2. /\ \A i \in Txns : i # j => journal'[i] = journal[i]
        /\ journal'[j].state = "rolled_back" \/ journal'[j] = journal[j]
    <3> HIDE DEF record
    <3> QED BY <1>a, <2>1, PersistEffect
  <2>3. journal[j].state # "committed" /\ wrote[j] \cap run.done = {}
    BY <1>c, <2>1 DEF RecoveryPhaseInv, Restartable
  <2>4. wrote[j] = {}
    BY <1>a, <2>1, <2>3 DEF Todo, TxnSettled
  <2> QED BY <1>a, <2>1, <2>2, <2>3, <2>4, JournalStep
<1>10. ASSUME NEW ok \in BOOLEAN, ReconcilePlan(ok)
       PROVE  [Abstract!Next]_(Abstract!vars)
  <2>1. journal' = journal /\ wrote' = wrote /\ run.phase # "fail" /\ run'.phase # "fail"
    BY <1>10 DEF ReconcilePlan, Idle, history
  <2> QED BY <1>1, <2>1
<1>11. ASSUME NEW ok \in BOOLEAN, RecoveryConflict(ok)
       PROVE  [Abstract!Next]_(Abstract!vars)
  <2> DEFINE record == [Cur EXCEPT !.state = "recovery_required"]
  <2>1. /\ PersistJournal(j, record, ok) /\ record.state = "recovery_required" /\ wrote' = wrote
        /\ run.phase = "rconflict" /\ run'.phase # "fail"
    BY <1>11, <1>b DEF RecoveryConflict, Idle, history
  <2>2. /\ \A i \in Txns : i # j => journal'[i] = journal[i]
        /\ journal'[j].state = "recovery_required" \/ journal'[j] = journal[j]
    <3> HIDE DEF record
    <3> QED BY <1>a, <2>1, PersistEffect
  <2>3. journal[j].state # "committed"
    BY <1>c, <2>1 DEF RecoveryPhaseInv, Restartable
  <2> QED BY <1>a, <2>1, <2>2, <2>3, JournalStep
<1>12. CASE OpenDone
  <2>1. CollectCommitJournals({}) /\ run.phase # "fail" /\ run'.phase # "fail"
    BY <1>12 DEF OpenDone
  <2> QED BY <2>1, CollectStep
<1> QED BY <1>2, <1>3, <1>4, <1>6, <1>7, <1>8, <1>9, <1>10, <1>11, <1>12 DEF RecoveryStep

(* A crash that falls between a committed journal reported as failed and its
   rewriting settles it: the receipt is there. *)
LEMMA RefineCrash ==
  ASSUME TypeOK, TypeOK', IInv, Crash
  PROVE  [Abstract!Next]_(Abstract!vars)
<1> SUFFICES ASSUME NEW j \in Txns, j = run.txn PROVE [Abstract!Next]_(Abstract!vars)
  BY DEF TypeOK, Runs
<1>1. journal' = journal /\ wrote' = wrote /\ run'.phase = "idle"
  BY DEF Crash, durable, history, Idle
<1>2. CASE run.phase = "fail" /\ journal[j].state = "committed"
  <2>1. TxnSettled(j)
    BY DEF IInv
  <2>2. \A i \in Txns \ {j} : Status(i)' = Status(i) /\ wrote'[i] = wrote[i]
    BY <1>1, <2>1, StatusIs
  <2>3. Status(j) = "open" /\ Status(j)' = "committed"
    BY <1>1, <1>2, <2>1, StatusIs DEF StatusOf
  <2>4. wrote[j] = Entries(j)
    BY <1>2, <2>1 DEF TxnSettled
  <2> QED BY <1>1, <2>1, <2>2, <2>3, <2>4, OneMoves
<1> QED BY <1>1, <1>2, SilentStep

(* The journal protocol implements the abstract write set: every step of a
   commit, an undo, a recovery, a crash or a foreign writer begins, makes, takes
   back, commits, aborts or forgets one write set whole, or changes none. *)
THEOREM CommitIsAtomic == Spec => AtomicCommit
<1>1. Init => Abstract!Init
  <2> SUFFICES ASSUME Init PROVE Abstract!Init
    OBVIOUS
  <2>1. \A j \in Txns : Status(j) = "clean"
    BY DEF Init, NoJournal, Status
  <2>2. wrote = [j \in Txns |-> {}]
    BY DEF Init
  <2> QED BY <2>1, <2>2 DEF Abstract!Init
<1>2. TypeOK /\ TypeOK' /\ IInv /\ [Next]_vars => [Abstract!Next]_(Abstract!vars)
  <2> SUFFICES ASSUME TypeOK, TypeOK', IInv, [Next]_vars PROVE [Abstract!Next]_(Abstract!vars)
    OBVIOUS
  <2>1. ASSUME journal' = journal, wrote' = wrote, run' = run PROVE [Abstract!Next]_(Abstract!vars)
    <3>1. \A i \in Txns : Status(i)' = Status(i)
      BY <2>1, StatusIs
    <3> QED BY <2>1, <3>1 DEF Abstract!vars
  <2>2. CASE OpenWorkspace
    BY <2>1, <2>2 DEF OpenWorkspace, history
  <2>3. ASSUME NEW p \in Paths, NEW image \in Images, External(p, image) PROVE [Abstract!Next]_(Abstract!vars)
    BY <2>1, <2>3 DEF External
  <2>4. CASE UNCHANGED vars
    BY <2>1, <2>4 DEF vars, durable, history
  <2> QED BY <2>2, <2>3, <2>4, RefineRequest, RefineCommitStep, RefineRecoveryStep, RefineCrash DEF Next
<1>3. Spec => []TypeOK /\ []IInv
  BY TypeCorrect, Inductive, PTL
<1> QED BY <1>1, <1>2, <1>3, PTL DEF Spec, AtomicCommit, Abstract!Spec

-----------------------------------------------------------------------------
(* What a rename may replace. *)

(* Between a comparison and the rename after it the canonical object is the compared
   one, unless another program wrote it in that window. *)
CheckedStands ==
  ~raced => /\ run.phase = "checked" => tree[run.cur] = Cur.before[run.cur]
            /\ run.phase = "rchecked" => tree[run.cur] = Cur.after[run.cur]

(* The two windows between a comparison and its rename. *)
Looked == {"checked", "rchecked"}

(* What was compared stays compared: every step ends outside the two windows, opens one
   with a comparison, or is another program's. *)
LEMMA WindowStep ==
  ASSUME TypeOK, [Next]_vars
  PROVE  \/ run'.phase \notin Looked
         \/ \E p \in Paths : CheckEntry(p) /\ Recheck(run.txn, p)
         \/ RecheckEntry /\ ImageMatch(Cur.after[run.cur], run.cur)
         \/ run' = run /\ journal' = journal /\ tree' = tree /\ raced' = raced
         \/ \E p \in Paths, image \in Images : External(p, image)
<1> SUFFICES ASSUME run'.phase \in Looked
             PROVE  \/ \E p \in Paths : CheckEntry(p) /\ Recheck(run.txn, p)
                    \/ RecheckEntry /\ ImageMatch(Cur.after[run.cur], run.cur)
                    \/ run' = run /\ journal' = journal /\ tree' = tree /\ raced' = raced
                    \/ \E p \in Paths, image \in Images : External(p, image)
  OBVIOUS
<1>a. run \in Runs /\ Idle \in Runs
  BY IdleIsRun DEF TypeOK
<1>b. \A phase \in Phases : Goto(phase) => run'.phase = phase
  BY <1>a DEF Goto, Runs
<1>c. \A written \in BOOLEAN, code \in {"CONFLICTED", "FAILED"} : FailAs(written, code) => run'.phase \in {"fail", "abort"}
  BY <1>a DEF FailAs, Runs
<1>d. \A j \in Txns, phase \in Phases : Begin(j, phase) => run'.phase = phase
  BY <1>a DEF Begin, Runs
<1>e. Idle.phase = "idle"
  BY DEF Idle
<1>1. CASE Request
  <2>1. PICK t \in Plans : \/ Prepare(t)
                         \/ \E ok \in BOOLEAN : StageWriteSet(t, ok) \/ RefuseStale(t, ok) \/ Compensate(t, ok)
    BY <1>1 DEF Request
  <2>2. <<t, "do">> \in Txns /\ <<t, "undo">> \in Txns
    BY TxnParts
  <2>3. ~StageWriteSet(t, TRUE) /\ ~StageWriteSet(t, FALSE) /\ ~Compensate(t, TRUE) /\ ~Compensate(t, FALSE)
    BY <1>d, <2>2 DEF StageWriteSet, Compensate, Looked, Phases, CommitPhases
  <2> QED BY <2>1, <2>3 DEF Prepare, RefuseStale, history
<1>2. CASE CommitStep
  <2>1. ASSUME NEW ok \in BOOLEAN,
             \/ StartCommitting(ok) \/ MarkApplying(ok) \/ RecordReceiptFailed(ok) \/ SealCommittedJournal(ok)
             \/ AbortJournal(ok) \/ RefusePlan(ok) \/ MarkJournalRecovery(ok) \/ MarkPlanRecovery(ok)
        PROVE FALSE
    BY <2>1, <1>b, <1>e DEF StartCommitting, MarkApplying, RecordReceiptFailed, SealCommittedJournal, AbortJournal,
                      RefusePlan, MarkJournalRecovery, MarkPlanRecovery, Looked, Phases, CommitPhases
  <2>2. ASSUME NEW ok \in BOOLEAN, WriteEntry(ok) \/ RecordProgress(ok) PROVE FALSE
    BY <2>2, <1>a DEF WriteEntry, RecordProgress, Runs, Looked
  <2>3. ASSUME NEW ok \in BOOLEAN, StagerCommit(ok) PROVE FALSE
    BY <2>3, <1>a, <1>b, <1>c DEF StagerCommit, Runs, Looked, Phases, CommitPhases
  <2>4. ASSUME RevalidateRefused \/ ApplyCancelled \/ WriteRefused PROVE FALSE
    BY <2>4, <1>a, <1>c DEF RevalidateRefused, ApplyCancelled, WriteRefused, Runs, Looked
  <2>5. ASSUME RecordCommitted \/ RecordCommittedFailed PROVE FALSE
    BY <2>5, <1>b, <1>e DEF RecordCommitted, RecordCommittedFailed, Looked, Phases, CommitPhases
  <2>6. ASSUME NEW p \in Paths, CheckEntry(p) PROVE Recheck(run.txn, p)
    BY <2>6, <1>a, <1>c DEF CheckEntry, Runs, Looked
  <2> QED BY <1>2, <2>1, <2>2, <2>3, <2>4, <2>5, <2>6 DEF CommitStep
<1>3. CASE RecoveryStep
  <2>1. ASSUME NEW j \in Txns, ScanClosed(j) \/ ScanInterrupted(j) \/ \E ok \in BOOLEAN : ScanPrepared(j, ok) PROVE FALSE
    BY <2>1, <1>d DEF ScanClosed, ScanInterrupted, ScanPrepared, Looked, Phases, RecoveryPhases
  <2>2. ASSUME NEW ok \in BOOLEAN, \/ RestoreEntry(ok) \/ FinishRecovery(ok) \/ ReconcilePlan(ok) \/ RecoveryConflict(ok) PROVE FALSE
    BY <2>2, <1>b, <1>e DEF RestoreEntry, FinishRecovery, ReconcilePlan, RecoveryConflict, Looked, Phases, RecoveryPhases
  <2>3. ASSUME NEW ok \in BOOLEAN, RecordRestored(ok) PROVE FALSE
    BY <2>3, <1>a DEF RecordRestored, Runs, Looked
  <2>4. ASSUME NEW p \in Paths, InspectEntry(p) PROVE FALSE
    BY <2>4, <1>a DEF InspectEntry, Runs, Looked
  <2>5. ASSUME RestoreRefused \/ VerifyRestored PROVE FALSE
    BY <2>5, <1>b DEF RestoreRefused, VerifyRestored, Looked, Phases, RecoveryPhases
  <2>6. ASSUME RecheckEntry PROVE ImageMatch(Cur.after[run.cur], run.cur)
    BY <2>6, <1>b DEF RecheckEntry, Looked, Phases, RecoveryPhases
  <2>7. ASSUME OpenDone PROVE FALSE
    BY <2>7 DEF OpenDone, Looked
  <2> QED BY <1>3, <2>1, <2>2, <2>3, <2>4, <2>5, <2>6, <2>7 DEF RecoveryStep
<1>4. CASE OpenWorkspace
  BY <1>4 DEF OpenWorkspace, history
<1>5. CASE Crash
  BY <1>5, <1>e DEF Crash, Looked
<1>6. CASE UNCHANGED vars
  BY <1>6 DEF vars, durable, history
<1> QED BY <1>1, <1>2, <1>3, <1>4, <1>5, <1>6 DEF Next

(* The comparison stands through every step. *)
LEMMA ChecksStand == TypeOK /\ CheckedStands /\ [Next]_vars => CheckedStands'
<1> SUFFICES ASSUME TypeOK, CheckedStands, [Next]_vars, ~raced', run'.phase \in Looked
             PROVE  /\ run'.phase = "checked" => tree'[run'.cur] = Cur'.before[run'.cur]
                    /\ run'.phase = "rchecked" => tree'[run'.cur] = Cur'.after[run'.cur]
  BY DEF CheckedStands, Looked
<1>a. run \in Runs
  BY DEF TypeOK
<1>1. ASSUME NEW p \in Paths, CheckEntry(p), Recheck(run.txn, p)
      PROVE  /\ run'.phase = "checked" => tree'[run'.cur] = Cur'.before[run'.cur]
             /\ run'.phase = "rchecked" => tree'[run'.cur] = Cur'.after[run'.cur]
  <2>1. run'.phase = "checked" /\ run'.cur = p /\ run'.txn = run.txn /\ journal' = journal /\ tree' = tree
    BY <1>1, <1>a DEF CheckEntry, Runs, durable
  <2>2. tree[p] = journal[run.txn].before[p]
    BY <1>1 DEF Recheck, ExactMatch, ImageMatch
  <2> QED BY <2>1, <2>2 DEF Cur
<1>2. CASE RecheckEntry /\ ImageMatch(Cur.after[run.cur], run.cur)
  <2>1. run'.phase = "rchecked" /\ run'.cur = run.cur /\ run'.txn = run.txn /\ journal' = journal /\ tree' = tree
    BY <1>2, <1>a DEF RecheckEntry, Goto, Runs, durable
  <2> QED BY <1>2, <2>1 DEF Cur, ImageMatch
<1>3. CASE run' = run /\ journal' = journal /\ tree' = tree /\ raced' = raced
  BY <1>3 DEF CheckedStands, Cur
<1>4. ASSUME NEW p \in Paths, NEW image \in Images, External(p, image)
      PROVE  /\ run'.phase = "checked" => tree'[run'.cur] = Cur'.before[run'.cur]
             /\ run'.phase = "rchecked" => tree'[run'.cur] = Cur'.after[run'.cur]
  <2>1. run' = run /\ journal' = journal /\ ~raced /\ run.cur # p
    BY <1>4 DEF External, Looked
  <2>2. tree'[run.cur] = tree[run.cur]
    BY <1>4, <2>1, <1>a DEF External, PutImage, TypeOK, Runs
  <2> QED BY <2>1, <2>2 DEF CheckedStands, Cur
<1> QED BY <1>1, <1>2, <1>3, <1>4, WindowStep

(* Who replaces canonical bytes: the rename of an entry, its restoration, or another
   program. *)
LEMMA TreeStep ==
  ASSUME TypeOK, [Next]_vars
  PROVE  \/ tree' = tree
         \/ \E ok \in BOOLEAN : WriteEntry(ok) \/ RestoreEntry(ok)
         \/ externals' # externals
<1>1. CASE Request
  BY <1>1 DEF Request, Prepare, StageWriteSet, RefuseStale, Compensate
<1>2. CASE CommitStep
  <2> SUFFICES ASSUME ~ \E ok \in BOOLEAN : WriteEntry(ok) PROVE tree' = tree
    OBVIOUS
  <2>1. ASSUME NEW ok \in BOOLEAN,
               \/ StartCommitting(ok) \/ MarkApplying(ok) \/ RecordProgress(ok)
               \/ StagerCommit(ok) \/ SealCommittedJournal(ok) \/ RecordReceiptFailed(ok)
               \/ AbortJournal(ok) \/ RefusePlan(ok) \/ MarkJournalRecovery(ok) \/ MarkPlanRecovery(ok)
        PROVE  tree' = tree
    BY <2>1 DEF StartCommitting, MarkApplying, RecordProgress, StagerCommit, SealCommittedJournal,
                RecordReceiptFailed, AbortJournal, RefusePlan, MarkJournalRecovery, MarkPlanRecovery, durable
  <2>2. ASSUME NEW p \in Paths, CheckEntry(p) PROVE tree' = tree
    BY <2>2 DEF CheckEntry, durable
  <2>3. ASSUME RevalidateRefused \/ ApplyCancelled \/ WriteRefused \/ RecordCommitted \/ RecordCommittedFailed
        PROVE  tree' = tree
    BY <2>3 DEF RevalidateRefused, ApplyCancelled, WriteRefused, RecordCommitted, RecordCommittedFailed, durable
  <2> QED BY <1>2, <2>1, <2>2, <2>3 DEF CommitStep
<1>3. CASE RecoveryStep
  <2> SUFFICES ASSUME ~ \E ok \in BOOLEAN : RestoreEntry(ok) PROVE tree' = tree
    OBVIOUS
  <2>1. ASSUME NEW j \in Txns, ScanClosed(j) \/ ScanInterrupted(j) \/ \E ok \in BOOLEAN : ScanPrepared(j, ok)
        PROVE  tree' = tree
    BY <2>1 DEF ScanClosed, ScanInterrupted, ScanPrepared, durable
  <2>2. ASSUME NEW ok \in BOOLEAN, RecordRestored(ok) \/ FinishRecovery(ok) \/ ReconcilePlan(ok) \/ RecoveryConflict(ok)
        PROVE  tree' = tree
    BY <2>2 DEF RecordRestored, FinishRecovery, ReconcilePlan, RecoveryConflict
  <2>3. ASSUME NEW p \in Paths, InspectEntry(p) PROVE tree' = tree
    BY <2>3 DEF InspectEntry, durable
  <2>4. ASSUME RecheckEntry \/ RestoreRefused \/ VerifyRestored \/ OpenDone PROVE tree' = tree
    BY <2>4 DEF RecheckEntry, RestoreRefused, VerifyRestored, OpenDone, durable
  <2> QED BY <1>3, <2>1, <2>2, <2>3, <2>4 DEF RecoveryStep
<1>4. CASE OpenWorkspace \/ Crash \/ UNCHANGED vars
  BY <1>4 DEF OpenWorkspace, Crash, vars, durable
<1>5. ASSUME NEW p \in Paths, NEW image \in Images, External(p, image) PROVE externals' # externals
  BY <1>5 DEF External, TypeOK
<1> QED BY <1>1, <1>2, <1>3, <1>4, <1>5 DEF Next

(* What a step of the program may replace. *)
LEMMA ReplacesItsImages ==
  ASSUME TypeOK, CheckedStands, [Next]_vars, NEW p \in Paths, externals' = externals, tree'[p] # tree[p]
  PROVE  /\ ~raced => {tree[p], tree'[p]} = {Cur.before[p], Cur.after[p]}
         /\ run.phase = "checked" /\ Cur.before[p] = Missing
              => Missing \in {tree[p], tree'[p]}
<1>a. run.cur \in Paths /\ tree \in [Paths -> Images]
  BY DEF TypeOK, Runs
<1>1. PICK ok \in BOOLEAN : WriteEntry(ok) \/ RestoreEntry(ok)
  BY TreeStep
<1>2. CASE WriteEntry(ok)
  <2>1. run.phase = "checked" /\ ~Clobbers(run.txn, run.cur) /\ tree' = [tree EXCEPT ![run.cur] = Cur.after[run.cur]]
    BY <1>2 DEF WriteEntry, PutImage
  <2>2. p = run.cur /\ tree'[p] = Cur.after[p]
    BY <1>a, <2>1
  <2>3. ~raced => tree[p] = Cur.before[p]
    BY <2>1, <2>2 DEF CheckedStands
  <2>4. Cur.before[p] = Missing => tree'[p] = Missing \/ tree[p] = Missing
    BY <2>1, <2>2 DEF Clobbers, Cur
  <2> QED BY <2>2, <2>3, <2>4
<1>3. CASE RestoreEntry(ok)
  <2>1. run.phase = "rchecked" /\ tree' = [tree EXCEPT ![run.cur] = Cur.before[run.cur]]
    BY <1>3 DEF RestoreEntry, PutImage
  <2>2. p = run.cur /\ tree'[p] = Cur.before[p]
    BY <1>a, <2>1
  <2>3. ~raced => tree[p] = Cur.after[p]
    BY <2>1, <2>2 DEF CheckedStands
  <2> QED BY <2>1, <2>2, <2>3
<1> QED BY <1>1, <1>2, <1>3

(* Commit and recovery only exchange a journal's own images, whatever the number of
   crashes and foreign writes, as long as no foreign write fell into a window between
   a comparison and its rename; and a file that appeared where the journal recorded none
   is never replaced. *)
THEOREM ForeignBytesStay == Spec => OnlyJournaledImagesReplaced
<1>1. Init => CheckedStands
  BY DEF Init, Idle, CheckedStands
<1>2. TypeOK /\ CheckedStands /\ [Next]_vars
        => [\A p \in Paths : externals' = externals /\ tree'[p] # tree[p] =>
              /\ ~raced => {tree[p], tree'[p]} = {Cur.before[p], Cur.after[p]}
              /\ run.phase = "checked" /\ Cur.before[p] = Missing
                   => Missing \in {tree[p], tree'[p]}]_vars
  BY ReplacesItsImages
<1> QED BY <1>1, <1>2, ChecksStand, TypeCorrect, PTL DEF Spec, OnlyJournaledImagesReplaced
=============================================================================
