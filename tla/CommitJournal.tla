--------------------------- MODULE CommitJournal ---------------------------
(***************************************************************************)
(* The durable commit of a change plan (internal/workspace/commit.go), the *)
(* startup recovery of an interrupted one and the compensating undo        *)
(* (internal/workspace/recovery.go).                                       *)
(*                                                                         *)
(* A transaction is <<t, "do">>, the commit of plan t, or <<t, "undo">>,   *)
(* its compensation.  Each has one journal file.  The canonical tree, the  *)
(* journals and the plan records survive a crash; run, the call in flight, *)
(* does not.  One step is one durable write or one check, so a crash or a  *)
(* write of another program can fall between any two of them.              *)
(***************************************************************************)
EXTENDS Integers, FiniteSets

CONSTANTS
  Plans,        \* plan IDs; their order is the order of the journal file names
  Paths,        \* workspace-relative paths; their order is the byte order
  Bytes,        \* contents a file can have
  Missing,      \* the image of a path with no object
  WriteSet,     \* WriteSet[t]: the paths plan t writes
  Target,       \* Target[t][p]: the image plan t writes at p
  InitialTree,
  Ageing,       \* whether completed journals outlive their retention window
  MaxCrashes, MaxFaults, MaxExternal,    \* bounds of the model
  MaxEvents                              \* and of the three together

Images == Bytes \cup {Missing}
Txns == Plans \X {"do", "undo"}
PlanOf(j) == j[1]

ASSUME PlansAssumption == Plans \subseteq Int /\ Plans # {}
ASSUME PathsAssumption == Paths \subseteq Int
ASSUME WriteSetAssumption == WriteSet \in [Plans -> (SUBSET Paths) \ {{}}]
ASSUME TargetAssumption == Target \in [Plans -> [Paths -> Images]]
ASSUME TreeAssumption == InitialTree \in [Paths -> Images]
ASSUME AgeingAssumption == Ageing \in BOOLEAN
ASSUME BoundsAssumption == {MaxCrashes, MaxFaults, MaxExternal, MaxEvents} \subseteq Nat

VARIABLES
  tree,         \* the canonical tree
  stamp,        \* stamp[p]: plans whose captured snapshot has p's current inode and mtime
  prep,         \* prep[t]: the preimages plan t's preparation captured
  planState,    \* the plan records
  journal,      \* the journal files
  run,          \* the commit, undo or recovery in flight
  scan,         \* journals the opening workspace has still to process
  svc,          \* "down", "opening", "open", or "refused" after a failed open
  crashes, faults, externals,
  wrote,        \* history: wrote[j] is the set of paths that carry j's write
  raced         \* history: an external write fell between a check and its rename

durable == <<tree, stamp, prep, planState, journal>>
bounds  == <<crashes, faults, externals>>
history == <<wrote, raced>>
vars == <<durable, run, scan, svc, bounds, history>>

PlanStates == {"OPEN", "READY", "COMMITTING", "COMMITTED", "RECOVERY_REQUIRED",
               "CONFLICTED", "FAILED", "ROLLED_BACK"}
JournalStates == {"none", "prepared", "applying", "committed",
                  "recovery_required", "rolled_back"}
CommitPhases == {"staged", "committing", "applying", "checked", "written", "resynced",
                 "sealed", "receipt_failed", "abort", "refuse", "fail", "failplan"}
RecoveryPhases == {"restore", "rmatched", "rchecked", "rverify", "restored",
                   "rconflict", "rmark"}
Phases == {"idle"} \cup CommitPhases \cup RecoveryPhases

Journals == [state : JournalStates, before : [Paths -> Images], after : [Paths -> Images],
             applied : SUBSET Paths, restored : SUBSET Paths]
Runs == [phase : Phases, txn : Txns, cur : Paths, done : SUBSET Paths,
         written : BOOLEAN, code : {"CONFLICTED", "FAILED"}]

NoJournal == [state |-> "none", before |-> [p \in Paths |-> Missing],
              after |-> [p \in Paths |-> Missing], applied |-> {}, restored |-> {}]
Idle == [phase |-> "idle", txn |-> CHOOSE j \in Txns : TRUE, cur |-> CHOOSE p \in Paths : TRUE,
         done |-> {}, written |-> FALSE, code |-> "FAILED"]

TypeOK ==
  /\ tree \in [Paths -> Images]
  /\ stamp \in [Paths -> SUBSET Plans]
  /\ prep \in [Plans -> [Paths -> Images]]
  /\ planState \in [Plans -> PlanStates]
  /\ journal \in [Txns -> Journals]
  /\ run \in Runs
  /\ scan \in SUBSET Txns
  /\ svc \in {"down", "opening", "open", "refused"}
  /\ crashes \in Nat /\ faults \in Nat /\ externals \in Nat
  /\ wrote \in [Txns -> SUBSET Paths]
  /\ raced \in BOOLEAN

Init ==
  /\ tree = InitialTree
  /\ stamp = [p \in Paths |-> {}]
  /\ prep = [t \in Plans |-> InitialTree]
  /\ planState = [t \in Plans |-> "OPEN"]
  /\ journal = [j \in Txns |-> NoJournal]
  /\ run = Idle
  /\ scan = {}
  /\ svc = "open"
  /\ crashes = 0 /\ faults = 0 /\ externals = 0
  /\ wrote = [j \in Txns |-> {}]
  /\ raced = FALSE

-----------------------------------------------------------------------------
(* Durable writes.  A write that reports an error may still have landed: the
   rename happened and the directory sync failed. *)

Room == crashes + faults + externals < MaxEvents
Faulty(ok) == /\ ok \/ (faults < MaxFaults /\ Room)
              /\ faults' = IF ok THEN faults ELSE faults + 1

PersistJournal(j, record, ok) ==
  /\ Faulty(ok)
  /\ \/ journal' = [journal EXCEPT ![j] = record]
     \/ ~ok /\ journal' = journal

(* transitionPlan: a failed persist leaves the record at its previous state. *)
Transition(t, state, ok) ==
  /\ Faulty(ok)
  /\ planState' = IF ok THEN [planState EXCEPT ![t] = state] ELSE planState

(* The order in which entries are made durable: deletions last, then by path. *)
EntryBefore(j, p, q) ==
  LET deletes(x) == journal[j].after[x] = Missing IN
  IF deletes(p) = deletes(q) THEN p < q ELSE ~deletes(p)

FirstEntry(j, todo, p) == p \in todo /\ \A q \in todo : q = p \/ EntryBefore(j, p, q)
LastEntry(j, todo, p)  == p \in todo /\ \A q \in todo : q = p \/ EntryBefore(j, q, p)

Entries(j) == WriteSet[PlanOf(j)]
Todo == Entries(run.txn) \ run.done
Cur == journal[run.txn]

(* matchExactSnapshot: the bytes, and the inode and mtime the preparation saw.
   A missing object has no identity beyond being missing. *)
ExactMatch(j, p) ==
  /\ tree[p] = journal[j].before[p]
  /\ tree[p] = Missing \/ PlanOf(j) \in stamp[p]
(* matchJournalImage: kind, mode, size and bytes only. *)
ImageMatch(image, p) == tree[p] = image

(* Mutant: the recheck before the rename is dropped. *)
RecheckDropped(j, p) == TRUE

Recheck(j, p) == IF j[2] = "do" THEN ExactMatch(j, p)
                 ELSE ImageMatch(journal[j].before[p], p)

(* A canonical object replaced by anyone loses every captured snapshot. *)
PutImage(p, image) == /\ tree' = [tree EXCEPT ![p] = image]
                      /\ stamp' = [stamp EXCEPT ![p] = {}]

Goto(phase) == run' = [run EXCEPT !.phase = phase]

(* Mutant: every failure is treated as one before the first write. *)
FailAsAlwaysAborts(written, code) ==
  run' = [run EXCEPT !.phase = "abort", !.written = written, !.code = code]

(* The failure route of an apply: before the first write an abort, after it a
   recovery-required journal. *)
FailAs(written, code) ==
  run' = [run EXCEPT !.phase = IF written THEN "fail" ELSE "abort",
                     !.written = written, !.code = code]

(* collectCommitJournals: completed journals other than the newest may be old
   enough to be removed. *)
Completed(journals) == {j \in Txns : journals[j].state \in {"committed", "rolled_back"}}
CollectCommitJournals(newest) ==
  \E gone \in SUBSET (Completed(journal) \ newest) :
    /\ Ageing \/ gone = {}
    /\ journal' = [j \in Txns |-> IF j \in gone THEN NoJournal ELSE journal[j]]
    /\ wrote' = [j \in Txns |-> IF j \in gone THEN {} ELSE wrote[j]]

-----------------------------------------------------------------------------
(* PreparePlan: a plan not yet applied captures its preimages, here with the
   edits and rebases that may precede a new prepare.  Prepares do not take the
   lane a commit runs in. *)
Prepare(t) ==
  /\ svc = "open"
  /\ planState[t] \in {"OPEN", "FAILED", "CONFLICTED"}
  /\ \A p \in WriteSet[t] : Target[t][p] = Missing => tree[p] # Missing
  /\ prep' = [prep EXCEPT ![t] = tree]
  /\ stamp' = [p \in Paths |-> IF p \in WriteSet[t] THEN stamp[p] \cup {t} ELSE stamp[p]]
  /\ planState' = [planState EXCEPT ![t] = "READY"]
  /\ UNCHANGED <<tree, journal, run, scan, svc, bounds, history>>

Begin(j, phase) == run' = [Idle EXCEPT !.phase = phase, !.txn = j]

NewJournal(before, after) == [state |-> "prepared", before |-> before, after |-> after,
                              applied |-> {}, restored |-> {}]

(* CommitPlan's stageWriteSet: the fresh preview must equal the prepared one,
   then the prepared journal is written. *)
StageWriteSet(t, ok) ==
  LET j == <<t, "do">> IN
  /\ svc = "open" /\ run.phase = "idle"
  /\ planState[t] = "READY"
  /\ \A p \in WriteSet[t] : tree[p] = prep[t][p]
  /\ PersistJournal(j, NewJournal(prep[t], Target[t]), ok)
  /\ Begin(j, IF ok THEN "staged" ELSE "refuse")
  /\ UNCHANGED <<tree, stamp, prep, planState, scan, svc, crashes, externals, history>>

(* stageWriteSet found moved canonical bytes: the plan is refused. *)
RefuseStale(t, ok) ==
  /\ svc = "open" /\ run.phase = "idle"
  /\ planState[t] = "READY"
  /\ \E p \in WriteSet[t] : tree[p] # prep[t][p]
  /\ Transition(t, "CONFLICTED", ok)
  /\ UNCHANGED <<tree, stamp, prep, journal, run, scan, svc, crashes, externals, history>>

(* revalidate, first half: the plan becomes COMMITTING. *)
StartCommitting(ok) ==
  /\ run.phase = "staged" /\ run.txn[2] = "do"
  /\ Transition(PlanOf(run.txn), "COMMITTING", ok)
  /\ Goto(IF ok THEN "committing" ELSE "abort")
  /\ UNCHANGED <<tree, stamp, prep, journal, scan, svc, crashes, externals, history>>

(* revalidate, second half: the whole write set is rechecked and the journal
   becomes applying.  A compensation is rechecked before its journal exists. *)
MarkApplying(ok) ==
  /\ \/ run.phase = "committing" /\ \A p \in Entries(run.txn) : Recheck(run.txn, p)
     \/ run.phase = "staged" /\ run.txn[2] = "undo"
  /\ PersistJournal(run.txn, [Cur EXCEPT !.state = "applying"], ok)
  /\ Goto(IF ok THEN "applying" ELSE "abort")
  /\ UNCHANGED <<tree, stamp, prep, planState, scan, svc, crashes, externals, history>>

RevalidateRefused ==
  /\ run.phase = "committing"
  /\ \E p \in Entries(run.txn) : ~Recheck(run.txn, p)
  /\ FailAs(FALSE, "CONFLICTED")
  /\ UNCHANGED <<durable, scan, svc, bounds, history>>

(* applyJournalEntries: the caller's context is done before the next entry. *)
ApplyCancelled ==
  /\ run.phase = "applying" /\ Todo # {}
  /\ Faulty(FALSE)
  /\ FailAs(run.written, "FAILED")
  /\ UNCHANGED <<durable, scan, svc, crashes, externals, history>>

(* applyJournalEntries: the recheck immediately before the write. *)
CheckEntry(p) ==
  /\ run.phase = "applying" /\ FirstEntry(run.txn, Todo, p)
  /\ IF Recheck(run.txn, p) THEN run' = [run EXCEPT !.phase = "checked", !.cur = p]
     ELSE FailAs(run.written, "CONFLICTED")
  /\ UNCHANGED <<durable, scan, svc, bounds, history>>

(* applyCommitEntry creates without replacement a path the journal recorded
   as missing. *)
Clobbers(j, p) == /\ journal[j].before[p] = Missing /\ journal[j].after[p] # Missing
                  /\ tree[p] # Missing

(* applyCommitEntry: the rename, link or unlink took effect; its directory sync
   may still fail. *)
WriteEntry(ok) ==
  /\ run.phase = "checked"
  /\ ~Clobbers(run.txn, run.cur)
  /\ Faulty(ok)
  /\ PutImage(run.cur, Cur.after[run.cur])
  /\ wrote' = [wrote EXCEPT ![run.txn] = @ \cup {run.cur}]
  /\ run' = [run EXCEPT !.phase = IF ok THEN "written" ELSE "fail", !.written = TRUE]
  /\ UNCHANGED <<prep, planState, journal, scan, svc, crashes, externals, raced>>

(* applyCommitEntry failed without effect: a clobber refusal or an I/O error.
   The written flag is already set. *)
WriteRefused ==
  /\ run.phase = "checked"
  /\ \/ Clobbers(run.txn, run.cur) /\ faults' = faults
     \/ Faulty(FALSE)
  /\ FailAs(TRUE, "FAILED")
  /\ UNCHANGED <<durable, scan, svc, crashes, externals, history>>

(* Progress is made durable before the next entry starts. *)
RecordProgress(ok) ==
  /\ run.phase = "written"
  /\ PersistJournal(run.txn, [Cur EXCEPT !.applied = run.done \cup {run.cur}], ok)
  /\ run' = [run EXCEPT !.phase = IF ok THEN "applying" ELSE "fail",
                        !.done = @ \cup {run.cur}]
  /\ UNCHANGED <<tree, stamp, prep, planState, scan, svc, crashes, externals, history>>

(* complete: the provider commits its staged view. *)
StagerCommit(ok) ==
  /\ run.phase = "applying" /\ Todo = {}
  /\ Faulty(ok)
  /\ IF ok THEN Goto("resynced") ELSE FailAs(run.written, "FAILED")
  /\ UNCHANGED <<durable, scan, svc, crashes, externals, history>>

(* sealCommittedJournal: the durable receipt. *)
SealCommittedJournal(ok) ==
  /\ run.phase = "resynced"
  /\ PersistJournal(run.txn, [Cur EXCEPT !.state = "committed"], ok)
  /\ Goto(IF ok THEN "sealed" ELSE "fail")
  /\ UNCHANGED <<tree, stamp, prep, planState, scan, svc, crashes, externals, history>>

(* complete: the plan record claims COMMITTED and old journals are collected. *)
RecordCommitted ==
  /\ run.phase = "sealed"
  /\ IF run.txn[2] = "do"
     THEN planState' = [planState EXCEPT ![PlanOf(run.txn)] = "COMMITTED"]
     ELSE UNCHANGED planState
  /\ CollectCommitJournals({run.txn})
  /\ run' = Idle
  /\ UNCHANGED <<tree, stamp, prep, scan, svc, bounds, raced>>

RecordCommittedFailed ==
  /\ run.phase = "sealed" /\ run.txn[2] = "do"
  /\ Faulty(FALSE)
  /\ Goto("receipt_failed")
  /\ UNCHANGED <<durable, scan, svc, crashes, externals, history>>

(* complete: the plan record lags behind its committed journal. *)
RecordReceiptFailed(ok) ==
  /\ run.phase = "receipt_failed"
  /\ Transition(PlanOf(run.txn), "RECOVERY_REQUIRED", ok)
  /\ run' = Idle
  /\ UNCHANGED <<tree, stamp, prep, journal, scan, svc, crashes, externals, history>>

(* abort and compensationFailure before the first write: the journal is rolled
   back whether or not that write succeeds. *)
AbortJournal(ok) ==
  /\ run.phase = "abort"
  /\ PersistJournal(run.txn, [Cur EXCEPT !.state = "rolled_back"], ok)
  /\ IF run.txn[2] = "do" THEN Goto("refuse") ELSE run' = Idle
  /\ UNCHANGED <<tree, stamp, prep, planState, scan, svc, crashes, externals, history>>

(* refuse: CONFLICTED for a moved precondition, FAILED for any other cause. *)
RefusePlan(ok) ==
  /\ run.phase = "refuse"
  /\ Transition(PlanOf(run.txn), run.code, ok)
  /\ run' = Idle
  /\ UNCHANGED <<tree, stamp, prep, journal, scan, svc, crashes, externals, history>>

(* markCommitRecovery and compensationRecovery, first half: the journal. *)
MarkJournalRecovery(ok) ==
  /\ run.phase = "fail"
  /\ PersistJournal(run.txn, [Cur EXCEPT !.state = "recovery_required", !.applied = run.done], ok)
  /\ IF run.txn[2] = "do" THEN Goto("failplan") ELSE run' = Idle
  /\ UNCHANGED <<tree, stamp, prep, planState, scan, svc, crashes, externals, history>>

(* markCommitRecovery, second half: the plan. *)
MarkPlanRecovery(ok) ==
  /\ run.phase = "failplan"
  /\ Transition(PlanOf(run.txn), "RECOVERY_REQUIRED", ok)
  /\ run' = Idle
  /\ UNCHANGED <<tree, stamp, prep, journal, scan, svc, crashes, externals, history>>

(* CompensatePlan up to its prepared journal: the committed journal of the plan,
   no committed undo yet, and every committed postimage still in place. *)
Compensate(t, ok) ==
  LET j == <<t, "undo">>
      source == journal[<<t, "do">>] IN
  /\ svc = "open" /\ run.phase = "idle"
  /\ planState[t] = "COMMITTED" /\ source.state = "committed"
  /\ journal[j].state # "committed"
  /\ \A p \in WriteSet[t] : ImageMatch(source.after[p], p)
  /\ PersistJournal(j, NewJournal(source.after, source.before), ok)
  /\ IF ok THEN Begin(j, "staged") ELSE UNCHANGED run
  /\ wrote' = IF journal' = journal THEN wrote       \* the check found nothing left of
              ELSE [wrote EXCEPT ![j] = {}]          \* an earlier attempt
  /\ UNCHANGED <<tree, stamp, prep, planState, scan, svc, crashes, externals, raced>>

-----------------------------------------------------------------------------
(* newWorkspace: the plan records are loaded and normalised (loadPlans), then
   every journal is scanned in file-name order (recoverCommitJournals). *)
LoadedState(state) == CASE state = "READY" -> "FAILED"
                        [] state = "COMMITTING" -> "RECOVERY_REQUIRED"
                        [] OTHER -> state

OpenWorkspace ==
  /\ svc \in {"down", "refused"}
  /\ svc' = "opening"
  /\ planState' = [t \in Plans |-> LoadedState(planState[t])]
  /\ scan' = {j \in Txns : journal[j].state # "none"}
  /\ stamp' = [p \in Paths |-> {}]
  /\ UNCHANGED <<tree, prep, journal, run, bounds, history>>

(* "plan_..." sorts before "undo_...". *)
ScannedBefore(i, j) == \/ i[2] = "do" /\ j[2] = "undo"
                       \/ i[2] = j[2] /\ i[1] < j[1]
NextToScan(j) == j \in scan /\ \A i \in scan : i = j \/ ScannedBefore(j, i)

(* markPlanCommitted and markPlanRecovered move only a plan that waits on its
   journal; a compensation has no plan record of its own. *)
Reconcile(j, state) ==
  planState' = IF j[2] = "do" /\ planState[PlanOf(j)] \in {"COMMITTING", "RECOVERY_REQUIRED"}
               THEN [planState EXCEPT ![PlanOf(j)] = state] ELSE planState

ScanClosed(j) ==
  /\ svc = "opening" /\ run.phase = "idle" /\ NextToScan(j)
  /\ journal[j].state \in {"committed", "rolled_back"}
  /\ Begin(j, "rmark")
  /\ UNCHANGED <<durable, scan, svc, bounds, history>>

(* A prepared journal is closed without touching a file. *)
ScanPrepared(j, ok) ==
  /\ svc = "opening" /\ run.phase = "idle" /\ NextToScan(j)
  /\ journal[j].state = "prepared"
  /\ PersistJournal(j, [journal[j] EXCEPT !.state = "rolled_back"], ok)
  /\ Begin(j, IF ok THEN "rmark" ELSE "rconflict")
  /\ UNCHANGED <<tree, stamp, prep, planState, scan, svc, crashes, externals, history>>

(* Mutant: a committed journal is rolled back like an interrupted one. *)
ScanInterruptedAny(j) ==
  /\ svc = "opening" /\ run.phase = "idle" /\ NextToScan(j)
  /\ journal[j].state # "prepared"
  /\ Begin(j, "restore")
  /\ UNCHANGED <<durable, scan, svc, bounds, history>>

(* recoverCommitJournal starts on an applying or recovery-required journal. *)
ScanInterrupted(j) ==
  /\ svc = "opening" /\ run.phase = "idle" /\ NextToScan(j)
  /\ journal[j].state \in {"applying", "recovery_required"}
  /\ Begin(j, "restore")
  /\ UNCHANGED <<durable, scan, svc, bounds, history>>

(* Mutant: an entry already at its preimage counts as foreign. *)
InspectEntryPostOnly(p) ==
  /\ run.phase = "restore" /\ LastEntry(run.txn, Todo, p)
  /\ run' = [run EXCEPT !.cur = p, !.phase =
               IF ImageMatch(Cur.after[p], p) THEN "rmatched" ELSE "rconflict"]
  /\ UNCHANGED <<durable, scan, svc, bounds, history>>

(* The first comparison of an entry, in the inverse of the commit order: the
   preimage needs no write, the postimage is to be restored, anything else is
   somebody else's. *)
InspectEntry(p) ==
  /\ run.phase = "restore" /\ LastEntry(run.txn, Todo, p)
  /\ run' = [run EXCEPT !.cur = p, !.phase =
               IF ImageMatch(Cur.before[p], p) THEN "restored"
               ELSE IF ImageMatch(Cur.after[p], p) THEN "rmatched" ELSE "rconflict"]
  /\ wrote' = IF ImageMatch(Cur.before[p], p)
              THEN [wrote EXCEPT ![run.txn] = @ \ {p}] ELSE wrote
  /\ UNCHANGED <<durable, scan, svc, bounds, raced>>

(* The second comparison, immediately before the replacement. *)
RecheckEntry ==
  /\ run.phase = "rmatched"
  /\ Goto(IF ImageMatch(Cur.after[run.cur], run.cur) THEN "rchecked" ELSE "rconflict")
  /\ UNCHANGED <<durable, scan, svc, bounds, history>>

(* applyCommitEntry of the inverse entry: its Before is still the preimage, so
   a preimage that existed is renamed over whatever is there. *)
RestoreEntry(ok) ==
  /\ run.phase = "rchecked"
  /\ Faulty(ok)
  /\ PutImage(run.cur, Cur.before[run.cur])
  /\ wrote' = [wrote EXCEPT ![run.txn] = @ \ {run.cur}]
  /\ Goto(IF ok THEN "rverify" ELSE "rconflict")
  /\ UNCHANGED <<prep, planState, journal, scan, svc, crashes, externals, raced>>

RestoreRefused ==
  /\ run.phase = "rchecked"
  /\ Faulty(FALSE)
  /\ Goto("rconflict")
  /\ UNCHANGED <<durable, scan, svc, crashes, externals, history>>

VerifyRestored ==
  /\ run.phase = "rverify"
  /\ Goto(IF ImageMatch(Cur.before[run.cur], run.cur) THEN "restored" ELSE "rconflict")
  /\ UNCHANGED <<durable, scan, svc, bounds, history>>

RecordRestored(ok) ==
  /\ run.phase = "restored"
  /\ PersistJournal(run.txn, [Cur EXCEPT !.applied = @ \ {run.cur},
                                         !.restored = @ \cup {run.cur}], ok)
  /\ run' = [run EXCEPT !.phase = IF ok THEN "restore" ELSE "rconflict",
                        !.done = @ \cup {run.cur}]
  /\ UNCHANGED <<tree, stamp, prep, planState, scan, svc, crashes, externals, history>>

(* Mutant: the journal is closed before every entry was restored. *)
FinishRecoveryEarly(ok) ==
  /\ run.phase = "restore"
  /\ PersistJournal(run.txn, [Cur EXCEPT !.state = "rolled_back"], ok)
  /\ Goto(IF ok THEN "rmark" ELSE "rconflict")
  /\ UNCHANGED <<tree, stamp, prep, planState, scan, svc, crashes, externals, history>>

FinishRecovery(ok) ==
  /\ run.phase = "restore" /\ Todo = {}
  /\ PersistJournal(run.txn, [Cur EXCEPT !.state = "rolled_back"], ok)
  /\ Goto(IF ok THEN "rmark" ELSE "rconflict")
  /\ UNCHANGED <<tree, stamp, prep, planState, scan, svc, crashes, externals, history>>

(* The plan follows its closed journal; a failure to persist fails the open. *)
ReconcilePlan(ok) ==
  /\ run.phase = "rmark"
  /\ Faulty(ok)
  /\ IF ok THEN /\ Reconcile(run.txn, IF Cur.state = "committed" THEN "COMMITTED"
                                     ELSE "ROLLED_BACK")
                /\ scan' = scan \ {run.txn} /\ svc' = svc
     ELSE UNCHANGED planState /\ scan' = {} /\ svc' = "refused"
  /\ run' = Idle
  /\ UNCHANGED <<tree, stamp, prep, journal, crashes, externals, history>>

(* recoveryConflict: the journal keeps what is needed and the open fails. *)
RecoveryConflict(ok) ==
  /\ run.phase = "rconflict"
  /\ PersistJournal(run.txn, [Cur EXCEPT !.state = "recovery_required"], ok)
  /\ run' = Idle /\ scan' = {} /\ svc' = "refused"
  /\ UNCHANGED <<tree, stamp, prep, planState, crashes, externals, history>>

OpenDone ==
  /\ svc = "opening" /\ run.phase = "idle" /\ scan = {}
  /\ CollectCommitJournals({})
  /\ svc' = "open"
  /\ UNCHANGED <<tree, stamp, prep, planState, run, scan, bounds, raced>>

-----------------------------------------------------------------------------
(* The environment: the process dies, and other programs write the tree. *)

Crash ==
  /\ svc \in {"opening", "open"} /\ crashes < MaxCrashes /\ Room
  /\ crashes' = crashes + 1
  /\ svc' = "down" /\ run' = Idle /\ scan' = {}
  /\ UNCHANGED <<durable, faults, externals, history>>

External(p, image) ==
  /\ externals < MaxExternal /\ Room
  /\ externals' = externals + 1
  /\ PutImage(p, image)
  /\ raced' = (raced \/ (run.phase \in {"checked", "rchecked"} /\ run.cur = p))
  /\ UNCHANGED <<prep, planState, journal, run, scan, svc, crashes, faults, wrote>>

CommitStep ==
  \/ \E ok \in BOOLEAN :
       \/ StartCommitting(ok) \/ MarkApplying(ok) \/ WriteEntry(ok) \/ RecordProgress(ok)
       \/ StagerCommit(ok) \/ SealCommittedJournal(ok) \/ RecordReceiptFailed(ok)
       \/ AbortJournal(ok) \/ RefusePlan(ok) \/ MarkJournalRecovery(ok) \/ MarkPlanRecovery(ok)
  \/ \E p \in Paths : CheckEntry(p)
  \/ RevalidateRefused \/ ApplyCancelled \/ WriteRefused
  \/ RecordCommitted \/ RecordCommittedFailed

RecoveryStep ==
  \/ \E j \in Txns : ScanClosed(j) \/ ScanInterrupted(j)
  \/ \E ok \in BOOLEAN :
       \/ \E j \in Txns : ScanPrepared(j, ok)
       \/ RestoreEntry(ok) \/ RecordRestored(ok) \/ FinishRecovery(ok)
       \/ ReconcilePlan(ok) \/ RecoveryConflict(ok)
  \/ \E p \in Paths : InspectEntry(p)
  \/ RecheckEntry \/ RestoreRefused \/ VerifyRestored \/ OpenDone

Request == \E t \in Plans :
  \/ Prepare(t)
  \/ \E ok \in BOOLEAN : StageWriteSet(t, ok) \/ RefuseStale(t, ok) \/ Compensate(t, ok)

Next == \/ Request \/ CommitStep \/ RecoveryStep \/ OpenWorkspace \/ Crash
        \/ \E p \in Paths, image \in Images : External(p, image)

(* The call in flight keeps executing, and a workspace that is down is opened
   by the next call that names it. *)
Fairness == WF_vars(CommitStep) /\ WF_vars(RecoveryStep) /\ WF_vars(OpenWorkspace)

Spec == Init /\ [][Next]_vars /\ Fairness

-----------------------------------------------------------------------------
(* Correctness. *)

Restartable == {"applying", "recovery_required"}

(* All or nothing, as the journal files tell it: a journal that is absent,
   prepared or rolled back has none of its writes left in the tree, and a
   committed one has made every one of them.  Only an applying or
   recovery-required journal, which startup recovery processes, may stand for a
   part.  (applyJournalEntries, sealCommittedJournal, recoverCommitJournal) *)
JournalTellsTheTruth ==
  \A j \in Txns :
    /\ journal[j].state \in {"none", "prepared", "rolled_back"} => wrote[j] = {}
    /\ journal[j].state = "committed" => wrote[j] = Entries(j)

(* A plan that a caller may prepare, edit or discard again has no write left in
   the tree: refuse, abort and startup reconciliation never hand out a plan whose
   bytes are half applied. *)
ReusablePlanUntouched ==
  \A t \in Plans :
    planState[t] \in {"OPEN", "READY", "CONFLICTED", "FAILED", "ROLLED_BACK"}
      => wrote[<<t, "do">>] = {}

(* The plan record never runs ahead of the durable receipt: COMMITTED is claimed
   only over a committed journal, or one retention has removed. *)
CommittedHasReceipt ==
  \A t \in Plans :
    planState[t] = "COMMITTED" => journal[<<t, "do">>].state \in {"committed", "none"}

(* Everything above together, which is what the inductive invariant proves. *)
SettledWhole == JournalTellsTheTruth /\ ReusablePlanUntouched /\ CommittedHasReceipt

(* Unless another program wrote between a check and the rename after it, commit
   and recovery only ever exchange a journal's own preimage and postimage: bytes
   a third party left are never overwritten.  A file a third party created first
   is not replaced even then (applyJournalEntries, recoverCommitJournal). *)
OnlyJournaledImagesReplaced ==
  [][\A p \in Paths : externals' = externals /\ tree'[p] # tree[p] =>
       /\ ~raced => {tree[p], tree'[p]} = {Cur.before[p], Cur.after[p]}
       /\ run.phase = "checked" /\ Cur.before[p] = Missing
            => Missing \in {tree[p], tree'[p]}]_vars

(* Recovery makes progress: once the faults and crashes stop, a workspace that
   is down opens again, unless bytes neither side of an interrupted journal knows
   stand in one of its paths: those recovery leaves alone, for a person. *)
Overtaken ==
  \E j \in Txns : /\ journal[j].state \in Restartable
                  /\ \E p \in WriteSet[PlanOf(j)] : tree[p] \notin {journal[j].before[p], journal[j].after[p]}
EventuallyOpens == (svc # "open") ~> (svc = "open" \/ Overtaken)

(* The inductive strengthening: what the call in flight knows of its journal,
   of its plan and of the writes made so far, phase by phase. *)
CommitPhaseInv ==
  LET j == run.txn
      state == journal[j].state
      phase == run.phase IN
  /\ phase \in CommitPhases =>
       /\ svc = "open"
       /\ j[2] = "do" => planState[PlanOf(j)] \in {"READY", "COMMITTING"}
       /\ phase \notin {"staged", "abort", "refuse"} /\ j[2] = "do"
            => planState[PlanOf(j)] = "COMMITTING"
       /\ run.done \subseteq Entries(j)
       /\ ~run.written => wrote[j] = {}
  /\ phase \in {"committing", "receipt_failed", "refuse", "failplan"} => j[2] = "do"
  /\ phase \in {"staged", "committing"} => state = "prepared" /\ run.done = {}
  /\ phase \in {"applying", "checked", "written", "resynced"} => state = "applying"
  /\ phase \in {"applying", "checked"} => wrote[j] = run.done
  /\ phase \in {"checked", "written"} => run.cur \in Entries(j)
  /\ phase = "written" => wrote[j] = run.done \cup {run.cur} /\ run.written
  /\ phase = "resynced" => wrote[j] = Entries(j) /\ run.written
  /\ phase \in {"sealed", "receipt_failed"} => state = "committed"
  /\ phase \in {"abort", "refuse"} => wrote[j] = {}
  /\ phase = "abort" => state \in {"prepared", "applying"}
  /\ phase = "fail" => state \in {"applying", "committed"}

RecoveryPhaseInv ==
  LET j == run.txn
      state == journal[j].state
      phase == run.phase IN
  /\ phase \in RecoveryPhases => svc = "opening"
  /\ phase \in {"restore", "rmatched", "rchecked", "rverify", "restored"} =>
       /\ state \in Restartable
       /\ wrote[j] \cap run.done = {}
       /\ phase # "restore" => run.cur \in Entries(j)
       /\ phase \in {"rverify", "restored"} => run.cur \notin wrote[j]
  /\ phase = "rconflict" => state \in Restartable \cup {"prepared", "rolled_back"}
  /\ phase = "rmark" => state \in {"committed", "rolled_back"}

TxnSettled(j) ==
  LET state == journal[j].state
      plan == planState[PlanOf(j)] IN
  /\ wrote[j] \subseteq Entries(j)
  /\ state \in {"none", "prepared", "rolled_back"} => wrote[j] = {}
  /\ state = "committed" => wrote[j] = Entries(j)
  /\ j[2] = "do" =>
       /\ plan \in {"OPEN", "READY", "CONFLICTED", "FAILED", "ROLLED_BACK"} => wrote[j] = {}
       /\ plan = "COMMITTED" => state \in {"committed", "none"}

IInv == (\A j \in Txns : TxnSettled(j)) /\ CommitPhaseInv /\ RecoveryPhaseInv

(* Committed bytes stay: with no other program writing, what a committed plan alone
   wrote to a path is replaced by another commit or by an undo, never by the startup
   recovery of some journal. *)
CommittedBytesStay ==
  [][\A t \in Plans, p \in Paths :
       LET j == <<t, "do">> IN
       /\ externals' = 0 /\ journal[j].state = "committed" /\ p \in Entries(j)
       /\ tree[p] = journal[j].after[p] /\ tree'[p] # tree[p]
       /\ \A i \in Txns \ {j} : p \notin wrote[i]
       => run.phase \in CommitPhases]_vars

(* The write set a journal file stands for.  A committed journal whose write
   reported an error is about to be rewritten, so it does not count yet. *)
Status(j) ==
  IF journal[j].state \in {"none", "prepared", "rolled_back"} THEN "clean"
  ELSE IF journal[j].state = "committed" /\ ~(run.phase = "fail" /\ run.txn = j) THEN "committed" ELSE "open"

Abstract == INSTANCE AtomicWriteSet WITH
  Writes <- [j \in Txns |-> Entries(j)],
  Redoable <- {j \in Txns : j[2] = "undo"},
  status <- [j \in Txns |-> Status(j)],
  effect <- wrote

(* The journal protocol implements the abstract write set: through crashes,
   failed and half-failed journal writes, cancellations and interrupted
   recoveries, no transaction is ever settled in part. *)
AtomicCommit == Abstract!Spec
=============================================================================
