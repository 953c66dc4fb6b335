------------------------------ MODULE Registry ------------------------------
(***************************************************************************)
(* The workspace registry (internal/service/registry.go, registry_sweep.go *)
(* and workspace/pending.go): the records of the known workspaces, the     *)
(* open workspace objects, the file registry.json, and the sweep that      *)
(* forgets a workspace whose root has stayed gone.                         *)
(*                                                                         *)
(* What each lock makes indivisible is one step: a critical section of     *)
(* `mu`, the check and the open that `loadMu` serialises with forget, the  *)
(* write of registry.json.  Between those steps anything may happen.       *)
(*                                                                         *)
(* IDs are random in the code; here they are handed out in order.  A       *)
(* workspace's epoch and state sequence are one number, `seq`.  Time is    *)
(* what the grace period asks of it: a mark is "young" until Age makes it  *)
(* "old".                                                                  *)
(***************************************************************************)
EXTENDS Naturals, FiniteSets

CONSTANTS
  Roots,        \* the directories a workspace may be opened over
  Callers,      \* the tool calls of this service's clients
  MaxIds,       \* bound: workspace IDs ever made
  MaxSeq,       \* bound: a workspace's sequence
  MaxFaults     \* bound: failed writes of registry.json, roots that disappear or come back

Sweeper == "sweep"

ASSUME RegistryAssumption ==
  /\ {MaxIds, MaxSeq, MaxFaults} \subseteq Nat
  /\ "none" \notin Roots /\ Sweeper \notin Callers

VARIABLES
  records,   \* registry.records: the record of each ID, or NoRecord
  items,     \* registry.items: the open workspace's sequence, or Closed
  file,      \* registry.json
  copies,    \* the copy each persist in progress took and has yet to write
  call,      \* the tool calls
  sweep,     \* the sweep's goroutine
  stores,    \* IDs with per-workspace state under the state directory
  work,      \* IDs whose commit journals or plan records are unfinished
  gone,      \* roots that do not exist at present
  issued,    \* IDs made so far
  faults,
  told,      \* history: IDs answered to the client that created them
  mixed      \* history: the file's last writer overlapped another persist

registryVars == <<records, items, file, copies, call, sweep, stores, work, gone,
                  issued, faults, told, mixed>>

Ids == 1..MaxIds
Writers == Callers \cup {Sweeper}
Closed == MaxSeq + 1
NoRecord == [root |-> "none", seq |-> 0, since |-> "never"]
Record == [root : Roots, seq : Nat, since : {"never", "young", "old"}]
Records == [Ids -> Record \cup {NoRecord}]
Copy == [on : BOOLEAN, solo : BOOLEAN, of : Records]
Call == [pc : {"idle", "adopt", "reuse", "insert", "create", "lookup", "run", "moved", "save", "done"},
         root : Roots \cup {"none"}, fresh : 0..MaxIds, id : 0..MaxIds, held : BOOLEAN]
Marks == {"keep", "clear", "first", "expired"}
Sweep == [pc : {"idle", "observe", "mark", "markCopy", "markWrite", "check", "forget", "forgetCopy",
                "forgetWrite", "drop", "orphans", "remove"},
          marks : [Ids -> Marks], list : SUBSET Ids]
NoCopy == [on |-> FALSE, solo |-> FALSE, of |-> [id \in Ids |-> NoRecord]]
IdleCall == [pc |-> "idle", root |-> "none", fresh |-> 0, id |-> 0, held |-> FALSE]
IdleSweep == [pc |-> "idle", marks |-> [id \in Ids |-> "keep"], list |-> {}]

Empty == [id \in Ids |-> NoRecord]

(* Everything in memory and the registry's file have their shape, *)
RegistryTypeOK ==
  /\ records \in Records /\ file \in Records
  /\ items \in [Ids -> Nat]
  /\ copies \in [Writers -> Copy]
  /\ call \in [Callers -> Call]
  /\ sweep \in Sweep
  /\ issued \in 0..MaxIds
  /\ told \subseteq Ids /\ mixed \in BOOLEAN

(* ... and so have the rest of the state directory and the world. *)
DiskTypeOK == stores \subseteq Ids /\ work \subseteq Ids /\ gone \subseteq Roots /\ faults \in 0..MaxFaults

(* newWorkspaceRegistry *)
RegistryInit ==
  /\ records = Empty /\ items = [id \in Ids |-> Closed] /\ file = Empty
  /\ copies = [w \in Writers |-> NoCopy]
  /\ call = [c \in Callers |-> IdleCall]
  /\ sweep = IdleSweep
  /\ stores = {} /\ work = {} /\ gone = {} /\ issued = 0 /\ faults = 0
  /\ told = {} /\ mixed = FALSE

-----------------------------------------------------------------------------
(* registered, ids, loaded *)
Registered(id) == records[id] # NoRecord
RegisteredIds == {id \in Ids : Registered(id)}
Loaded(id) == items[id] # Closed

(* samePersistedWorkspace *)
SameDefinition(id, root) == Registered(id) /\ records[id].root = root

(* resolve: the registered workspace is open afterwards, from its record; an ID
   without a record stays unknown.  Open finishes the work a crash left, unless
   the root is not there. *)
Recovered(id) == IF Loaded(id) \/ records[id].root \in gone THEN work ELSE work \ {id}

Resolve(id) ==
  IF Registered(id) /\ ~Loaded(id)
    THEN /\ items' = [items EXCEPT ![id] = records[id].seq]
         /\ work' = Recovered(id)
    ELSE UNCHANGED <<items, work>>

(* The first half of persist: the records as they are, each open one with its
   present sequence. *)
Refreshed == [id \in Ids |-> IF Registered(id) /\ Loaded(id)
                               THEN [records[id] EXCEPT !.seq = items[id]] ELSE records[id]]

PersistCopy(w) ==
  LET alone == \A v \in Writers \ {w} : ~copies[v].on IN
  /\ records' = Refreshed
  /\ copies' = [v \in Writers |->
       IF v = w THEN [on |-> TRUE, solo |-> alone, of |-> Refreshed]
                ELSE [copies[v] EXCEPT !.solo = FALSE]]

(* Its second half, under persistMu: registry.json is replaced as a whole, or the
   write fails and the file is the old one. *)
PersistWrite(w, ok) ==
  /\ ok \/ faults < MaxFaults
  /\ copies' = [copies EXCEPT ![w] = NoCopy]
  /\ IF ok THEN /\ file' = copies[w].of /\ mixed' = ~copies[w].solo
                /\ UNCHANGED faults
           ELSE faults' = faults + 1 /\ UNCHANGED <<file, mixed>>

-----------------------------------------------------------------------------
Becomes(c, r) == call' = [call EXCEPT ![c] = r]

(* A call opens a root: Open makes a workspace object with a fresh ID, which the
   registry has yet to adopt. *)
OpenFresh(c, root) ==
  /\ call[c].pc = "idle" /\ root \notin gone /\ issued < MaxIds
  /\ issued' = issued + 1
  /\ Becomes(c, [IdleCall EXCEPT !.pc = "adopt", !.root = root, !.fresh = issued + 1])
  /\ UNCHANGED <<records, items, file, copies, sweep, stores, work, gone, faults, told, mixed>>

InsertUnmatched(c) ==
  /\ call[c].pc = "adopt"
  /\ records' = [records EXCEPT ![call[c].fresh] = [root |-> call[c].root, seq |-> 0, since |-> "never"]]
  /\ items' = [items EXCEPT ![call[c].fresh] = 0]
  /\ Becomes(c, [call[c] EXCEPT !.pc = "insert", !.id = call[c].fresh])
  /\ UNCHANGED <<file, copies, sweep, stores, work, gone, issued, faults, told, mixed>>

(* Adopt, under mu: the fresh workspace is inserted unless the same definition is
   registered. *)
AdoptInsert(c) ==
  /\ call[c].pc = "adopt"
  /\ \A id \in Ids : ~SameDefinition(id, call[c].root)
  /\ records' = [records EXCEPT ![call[c].fresh] = [root |-> call[c].root, seq |-> 0, since |-> "never"]]
  /\ items' = [items EXCEPT ![call[c].fresh] = 0]
  /\ Becomes(c, [call[c] EXCEPT !.pc = "insert", !.id = call[c].fresh])
  /\ UNCHANGED <<file, copies, sweep, stores, work, gone, issued, faults, told, mixed>>

(* ... in which case the registered workspace is resolved after mu is released. *)
AdoptMatch(c) ==
  /\ call[c].pc = "adopt"
  /\ \E id \in Ids : /\ SameDefinition(id, call[c].root)
                     /\ Becomes(c, [call[c] EXCEPT !.pc = "reuse", !.id = id])
  /\ UNCHANGED <<records, items, file, copies, sweep, stores, work, gone, issued, faults,
                 told, mixed>>

(* A sweep that forgot the match sends the call back to adopt its own workspace. *)
AdoptReuse(c) ==
  /\ call[c].pc = "reuse"
  /\ Resolve(call[c].id)
  /\ Becomes(c, [call[c] EXCEPT !.pc = IF Registered(call[c].id) THEN "done" ELSE "adopt"])
  /\ UNCHANGED <<records, file, copies, sweep, stores, gone, issued, faults, told, mixed>>

(* The copy half of the persist that Adopt and PersistIdentity end with. *)
CallCopies(c) ==
  /\ call[c].pc \in {"insert", "moved"}
  /\ PersistCopy(c)
  /\ Becomes(c, [call[c] EXCEPT !.pc = IF call[c].pc = "insert" THEN "create" ELSE "save"])
  /\ UNCHANGED <<items, file, sweep, stores, work, gone, issued, faults, told, mixed>>

ReportUnwritten(c, ok) ==
  /\ call[c].pc = "create"
  /\ PersistWrite(c, ok)
  /\ told' = told \cup ({call[c].id} \cap RegisteredIds)
  /\ Becomes(c, [call[c] EXCEPT !.pc = "done"])
  /\ UNCHANGED <<records, items, sweep, stores, work, gone, issued>>

(* Adopt reports the new workspace once its record is written; a failed write
   takes the record out again. *)
AdoptWrites(c, ok) ==
  LET id == call[c].id IN
  /\ call[c].pc = "create"
  /\ PersistWrite(c, ok)
  /\ IF ok THEN told' = told \cup ({id} \cap RegisteredIds) /\ UNCHANGED <<records, items>>
           ELSE /\ records' = [records EXCEPT ![id] = NoRecord]
                /\ items' = [items EXCEPT ![id] = Closed] /\ UNCHANGED told
  /\ Becomes(c, [call[c] EXCEPT !.pc = "done"])
  /\ UNCHANGED <<sweep, stores, work, gone, issued>>

-----------------------------------------------------------------------------
(* A call names a workspace: it holds a scheduler lane or an unfinished receipt
   before it looks the workspace up. *)
UseBegin(c, id) ==
  /\ call[c].pc = "idle" /\ id \in 1..issued
  /\ Becomes(c, [IdleCall EXCEPT !.pc = "lookup", !.id = id, !.held = TRUE])
  /\ UNCHANGED <<records, items, file, copies, sweep, stores, work, gone, issued, faults,
                 told, mixed>>

(* Lookup; a call that commits then has its journal and plan record on disk. *)
UseLookup(c, commits) ==
  LET id == call[c].id IN
  /\ call[c].pc = "lookup"
  /\ IF Registered(id)
       THEN /\ items' = [items EXCEPT ![id] = IF Loaded(id) THEN items[id] ELSE records[id].seq]
            /\ stores' = IF commits THEN stores \cup {id} ELSE stores
            /\ work' = IF commits THEN work \cup {id} ELSE Recovered(id)
            /\ Becomes(c, [call[c] EXCEPT !.pc = "run"])
       ELSE /\ Becomes(c, [call[c] EXCEPT !.pc = "done", !.held = FALSE])
            /\ UNCHANGED <<items, stores, work>>
  /\ UNCHANGED <<records, file, copies, sweep, gone, issued, faults, told, mixed>>

(* The commit ends and its receipt is written, whatever became of the
   workspace's registration; the lane is released, and the critical section of
   PersistIdentity finds out whether the identity moved. *)
UseEnd(c) ==
  LET id == call[c].id
      moved == Registered(id) /\ Loaded(id) /\ items[id] < MaxSeq IN
  /\ call[c].pc = "run"
  /\ stores' = stores \cup {id} /\ work' = work \ {id}
  /\ IF moved THEN /\ items' = [items EXCEPT ![id] = items[id] + 1]
                   /\ records' = [records EXCEPT ![id].seq = items[id] + 1]
              ELSE UNCHANGED <<items, records>>
  /\ Becomes(c, [call[c] EXCEPT !.pc = IF moved THEN "moved" ELSE "done", !.held = FALSE])
  /\ UNCHANGED <<file, copies, sweep, gone, issued, faults, told, mixed>>

UseWrites(c, ok) ==
  /\ call[c].pc = "save"
  /\ PersistWrite(c, ok)
  /\ Becomes(c, [call[c] EXCEPT !.pc = "done"])
  /\ UNCHANGED <<records, items, sweep, stores, work, gone, issued, told>>

-----------------------------------------------------------------------------
(* A commit journal or a plan record on disk that is not finished. *)
PersistedWorkPending(id) == id \in work

(* What the open workspace itself says: a plan under way has such a record. *)
Busy(id) == Loaded(id) /\ PersistedWorkPending(id)

(* A receipt in flight or a lane, the open workspace, or the files. *)
workspaceInFlight(id) == \E c \in Callers : call[c].held /\ call[c].id = id
WorkspaceBusy(id) ==
  \/ workspaceInFlight(id)
  \/ Busy(id) \/ PersistedWorkPending(id)

(* What markMissingRoots makes of one record and of its root. *)
Mark(record) ==
  LET missing == record.root \in gone IN
  IF record = NoRecord THEN "keep"
  ELSE IF ~missing /\ record.since # "never" THEN "clear"
  ELSE IF missing /\ record.since = "never" THEN "first"
  ELSE IF missing /\ record.since = "old" THEN "expired"
  ELSE "keep"

SweepAt(pc) == sweep.pc = pc

(* markMissingRoots reads the records and examines the roots outside the lock, *)
MarkObserves ==
  /\ SweepAt("observe")
  /\ sweep' = [sweep EXCEPT !.pc = "mark", !.marks = [id \in Ids |-> Mark(records[id])]]
  /\ UNCHANGED <<records, items, file, copies, call, stores, work, gone, issued, faults,
                 told, mixed>>

(* ... then marks the records that are still there. *)
MarkApplies ==
  LET marks == sweep.marks IN
  /\ SweepAt("mark")
  /\ records' = [id \in Ids |->
       IF Registered(id) /\ marks[id] = "first" THEN [records[id] EXCEPT !.since = "young"]
       ELSE IF Registered(id) /\ marks[id] = "clear" THEN [records[id] EXCEPT !.since = "never"]
       ELSE records[id]]
  /\ sweep' = [sweep EXCEPT
       !.pc = IF \E id \in Ids : marks[id] \in {"first", "clear"} THEN "markCopy" ELSE "check",
       !.list = {id \in Ids : marks[id] = "expired"}]
  /\ UNCHANGED <<items, file, copies, call, stores, work, gone, issued, faults, told, mixed>>

SweepCopies ==
  /\ sweep.pc \in {"markCopy", "forgetCopy"}
  /\ PersistCopy(Sweeper)
  /\ sweep' = [sweep EXCEPT !.pc = IF sweep.pc = "markCopy" THEN "markWrite" ELSE "forgetWrite"]
  /\ UNCHANGED <<items, file, call, stores, work, gone, issued, faults, told, mixed>>

(* A failed write of the marks is logged and the sweep goes on. *)
MarkWrites(ok) ==
  /\ SweepAt("markWrite")
  /\ PersistWrite(Sweeper, ok)
  /\ sweep' = [sweep EXCEPT !.pc = "check"]
  /\ UNCHANGED <<records, items, call, stores, work, gone, issued, told>>

(* sweepWorkspaceState keeps the expired workspaces that anything holds. *)
SweepChecks ==
  LET free == {id \in sweep.list : ~WorkspaceBusy(id)} IN
  /\ SweepAt("check")
  /\ sweep' = [sweep EXCEPT !.list = free, !.pc = IF free = {} THEN "orphans" ELSE "forget"]
  /\ UNCHANGED <<records, items, file, copies, call, stores, work, gone, issued, faults,
                 told, mixed>>

(* forget, under loadMu and mu. *)
SweepForgets ==
  /\ SweepAt("forget")
  /\ records' = [id \in Ids |-> IF id \in sweep.list THEN NoRecord ELSE records[id]]
  /\ items' = [id \in Ids |-> IF id \in sweep.list THEN Closed ELSE items[id]]
  /\ told' = told \ sweep.list
  /\ sweep' = [sweep EXCEPT !.pc = "forgetCopy"]
  /\ UNCHANGED <<file, copies, call, stores, work, gone, issued, faults, mixed>>

(* A sweep that could not write the smaller registry stops before it deletes. *)
ForgetWrites(ok) ==
  /\ SweepAt("forgetWrite")
  /\ PersistWrite(Sweeper, ok)
  /\ sweep' = IF ok THEN [sweep EXCEPT !.pc = "drop"] ELSE IdleSweep
  /\ UNCHANGED <<records, items, call, stores, work, gone, issued, told>>

(* removeWorkspaceState: every store of the workspaces, their journals and plans
   among them. *)
WithoutState(ids) == stores' = stores \ ids /\ work' = work \ ids

(* dropWorkspaceState *)
SweepDrops ==
  /\ SweepAt("drop")
  /\ WithoutState(sweep.list)
  /\ sweep' = [sweep EXCEPT !.pc = "orphans"]
  /\ UNCHANGED <<records, items, file, copies, call, gone, issued, faults, told, mixed>>

(* removeOrphanState lists the state no record owns, *)
OrphansListed ==
  /\ SweepAt("orphans")
  /\ sweep' = [sweep EXCEPT !.pc = "remove", !.list = {id \in stores : ~Registered(id)}]
  /\ UNCHANGED <<records, items, file, copies, call, stores, work, gone, issued, faults,
                 told, mixed>>

(* ... and deletes what is still nobody's. *)
OrphansRemoved ==
  LET drop == {id \in sweep.list : ~Registered(id) /\ ~WorkspaceBusy(id)} IN
  /\ SweepAt("remove")
  /\ WithoutState(drop)
  /\ sweep' = IdleSweep
  /\ UNCHANGED <<records, items, file, copies, call, gone, issued, faults, told, mixed>>

(* startSweeper's tick. *)
SweepBegins ==
  /\ SweepAt("idle")
  /\ sweep' = [IdleSweep EXCEPT !.pc = "observe"]
  /\ UNCHANGED <<records, items, file, copies, call, stores, work, gone, issued, faults,
                 told, mixed>>

SweepStep ==
  \/ MarkObserves \/ MarkApplies \/ SweepCopies \/ SweepChecks \/ SweepForgets
  \/ SweepDrops \/ OrphansListed \/ OrphansRemoved
  \/ \E ok \in BOOLEAN : MarkWrites(ok) \/ ForgetWrites(ok)

CallStep(c) ==
  \/ AdoptInsert(c) \/ AdoptMatch(c) \/ AdoptReuse(c) \/ CallCopies(c) \/ UseEnd(c)
  \/ \E b \in BOOLEAN : UseLookup(c, b) \/ AdoptWrites(c, b) \/ UseWrites(c, b)

-----------------------------------------------------------------------------
(* load: the records of the file, none of them open.  What a file that an
   overlapped persist wrote last has lost is no longer promised. *)
Load ==
  /\ records' = file /\ items' = [id \in Ids |-> Closed]
  /\ copies' = [w \in Writers |-> NoCopy]
  /\ call' = [c \in Callers |-> IdleCall]
  /\ sweep' = [IdleSweep EXCEPT !.pc = "observe"]
  /\ told' = IF mixed THEN {} ELSE told
  /\ UNCHANGED <<file, stores, work, gone, issued, faults, mixed>>

(* openPending *)
OpenPending ==
  LET due == {id \in RegisteredIds : PersistedWorkPending(id)} IN
  /\ items' = [id \in Ids |-> IF id \in due /\ ~Loaded(id) THEN records[id].seq ELSE items[id]]
  /\ work' = work \ {id \in due : records[id].root \notin gone}
  /\ UNCHANGED <<records, file, copies, call, sweep, stores, gone, issued, faults, told, mixed>>

(* The world: a root is deleted or comes back, and the grace period passes. *)
RootMoves(root) ==
  /\ faults < MaxFaults /\ faults' = faults + 1
  /\ gone' = IF root \in gone THEN gone \ {root} ELSE gone \cup {root}
  /\ UNCHANGED <<records, items, file, copies, call, sweep, stores, work, issued, told, mixed>>

Aged(rs) == [id \in Ids |-> IF rs[id].since = "young" THEN [rs[id] EXCEPT !.since = "old"] ELSE rs[id]]
Age ==
  /\ <<Aged(records), Aged(file)>> # <<records, file>>
  /\ records' = Aged(records) /\ file' = Aged(file)
  /\ copies' = [w \in Writers |-> [copies[w] EXCEPT !.of = Aged(copies[w].of)]]
  /\ UNCHANGED <<items, call, sweep, stores, work, gone, issued, faults, told, mixed>>

-----------------------------------------------------------------------------
(* The inductive strengthening.  A definition has one record, in memory, on disk
   and in every copy on its way there. *)
Unique(rs) ==
  \A i, j \in Ids : rs[i] # NoRecord /\ rs[j] # NoRecord /\ rs[i].root = rs[j].root => i = j
UniqueInv == Unique(records) /\ Unique(file) /\ \A w \in Writers : Unique(copies[w].of)

(* A call that makes a workspace has an ID of its own, and nobody was told of it. *)
Making(c) == call[c].pc \in {"adopt", "reuse", "insert", "create"}
CallInv ==
  /\ \A c \in Callers :
       /\ Making(c) => call[c].fresh \in 1..issued /\ call[c].fresh \notin told /\ call[c].root \in Roots
       /\ call[c].pc \in {"insert", "create"} => call[c].id = call[c].fresh
       /\ call[c].pc \in {"reuse", "lookup", "run", "moved", "save"} => call[c].id \in Ids
  /\ \A c, d \in Callers : Making(c) /\ Making(d) /\ call[c].fresh = call[d].fresh => c = d

(* Whoever is about to write has a copy.  One that no other overlapped has every
   workspace some client knows, and the one its writer is making. *)
Writing(w) == IF w = Sweeper THEN sweep.pc \in {"markWrite", "forgetWrite"} ELSE call[w].pc \in {"create", "save"}
CopyInv ==
  /\ \A w \in Writers : Writing(w) => copies[w].on
  /\ \A w \in Writers : copies[w].on /\ copies[w].solo =>
       /\ \A v \in Writers \ {w} : ~copies[v].on
       /\ \A id \in told : copies[w].of[id] # NoRecord
  /\ \A c \in Callers : call[c].pc = "create" /\ Registered(call[c].fresh) => copies[c].of[call[c].fresh] # NoRecord

ToldInv ==
  /\ told \subseteq 1..issued /\ told \subseteq RegisteredIds
  /\ ~mixed => \A id \in told : file[id] # NoRecord

RegistryInv == UniqueInv /\ CallInv /\ CopyInv /\ ToldInv
=============================================================================
