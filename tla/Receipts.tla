------------------------------ MODULE Receipts ------------------------------
(***************************************************************************)
(* Idempotent replay of stateful calls, internal/service/receipts.go and   *)
(* callUnfinalized (dispatch.go), for the calls of one workspace.          *)
(*                                                                         *)
(* A call registers a pending receipt under its key, runs its handler, and *)
(* records and persists the result before the calls that wait on the key   *)
(* are released.  An edit also checkpoints its receipt as soon as the      *)
(* bytes are written.  The receipt file is built from the replay table     *)
(* under one lock and written under another.  A receipt is named by the    *)
(* call that began it.  Trimming a payload keeps the receipt replayable    *)
(* and is left out, as is the byte budget, which evicts like the count.    *)
(***************************************************************************)
EXTENDS Integers, FiniteSets

CONSTANTS
  Calls, Keys, Hashes, None,
  Kind,           \* what a key's call does: edit, apply or prepare
  PerWorkspace, Tombstones,   \* the retention caps
  MaxRestarts, WritesFail

ASSUME KindAssumption == Kind \in [Keys -> {"edit", "apply", "prepare"}]
ASSUME CapAssumption == {PerWorkspace, Tombstones, MaxRestarts} \subseteq Nat
ASSUME CallsAssumption == IsFiniteSet(Calls) /\ IsFiniteSet(Keys) /\ None \notin Calls
ASSUME WritesFailAssumption == WritesFail \in BOOLEAN

VARIABLES
  call,      \* the calls, and what each knows
  receipt,   \* the directReplay a call began
  replays,   \* the replay table
  file,      \* receipts/<workspace>.json
  reply,     \* what the client was told
  mutated,   \* the calls whose handler changed the workspace
  clock, restarts,
  dropped    \* history: the receipts whose tombstone the caps removed

vars == <<call, receipt, replays, file, reply, mutated, clock, restarts, dropped>>

Results == {"none", "checkpoint", "final"}
Receipt == [complete : BOOLEAN, checkpointed : BOOLEAN, evicted : BOOLEAN, done : BOOLEAN,
            at : Nat, result : Results]
NoReceipt == [complete |-> FALSE, checkpointed |-> FALSE, evicted |-> FALSE, done |-> FALSE,
              at |-> 0, result |-> "none"]
Persisted == [of : Calls \cup {None}, evicted : BOOLEAN, at : Nat, result : Results]
NoRecord == [of |-> None, evicted |-> FALSE, at |-> 0, result |-> "none"]
Files == [Keys -> Persisted]
NoFile == [k \in Keys |-> NoRecord]
Pcs == {"new", "execute", "store", "snap", "write", "normalize", "finish", "wait", "done", "lost"}
CallRecord == [pc : Pcs, key : Keys, hash : Hashes, on : Calls \cup {None},
               final : BOOLEAN, stored : BOOLEAN, snap : Files]
Reply == [kind : {"none", "created", "replayed", "reused", "evicted", "timeout", "cancelled"},
          of : Calls \cup {None}, result : Results, persisted : BOOLEAN]
NewCalls == {[pc |-> "new", key |-> k, hash |-> h, on |-> None, final |-> FALSE, stored |-> FALSE,
              snap |-> NoFile] : k \in Keys, h \in Hashes}
NoReply == [kind |-> "none", of |-> None, result |-> "none", persisted |-> FALSE]

(* Every call, receipt, file record and reply has its shape, and the table names calls. *)
TypeOK ==
  /\ call \in [Calls -> CallRecord]
  /\ receipt \in [Calls -> Receipt]
  /\ replays \in [Keys -> Calls \cup {None}]
  /\ file \in Files
  /\ reply \in [Calls -> Reply]
  /\ mutated \subseteq Calls
  /\ clock \in Nat /\ restarts \in 0..MaxRestarts
  /\ dropped \subseteq Calls

(* The key and the arguments of a call are the client's. *)
Init ==
  /\ call \in [Calls -> NewCalls]
  /\ receipt = [c \in Calls |-> NoReceipt]
  /\ replays = [k \in Keys |-> None]
  /\ file = NoFile
  /\ reply = [c \in Calls |-> NoReply]
  /\ mutated = {}
  /\ clock = 0 /\ restarts = 0 /\ dropped = {}

-----------------------------------------------------------------------------
At(c, pc) == call[c].pc = pc
Goto(c, pc) == call' = [call EXCEPT ![c].pc = pc]
Answer(c, kind, of, result, persisted) ==
  reply' = [reply EXCEPT ![c] = [kind |-> kind, of |-> of, result |-> result, persisted |-> persisted]]

(* The keys of S with at least cap newer receipts in S. *)
Over(S, cap, at) == {k \in S : Cardinality({j \in S : at[j] > at[k]}) >= cap}

(* applyReceiptCapsLocked: the oldest finished receipts beyond the cap become
   tombstones, and the oldest tombstones beyond theirs go. *)
Settled(table, recs) ==
  {k \in Keys : table[k] # None /\ recs[table[k]].complete /\ ~recs[table[k]].evicted /\ recs[table[k]].done}
CappedReceipts(table, recs) ==
  LET at == [k \in Keys |-> IF table[k] = None THEN 0 ELSE recs[table[k]].at]
      evicted == {table[k] : k \in Over(Settled(table, recs), PerWorkspace, at)} IN
  [o \in Calls |-> IF o \in evicted THEN [recs[o] EXCEPT !.evicted = TRUE, !.result = "none"] ELSE recs[o]]
Tombs(table, recs) == {k \in Keys : table[k] # None /\ CappedReceipts(table, recs)[table[k]].evicted}
Excess(table, recs) ==
  LET at == [k \in Keys |-> IF table[k] = None THEN 0 ELSE recs[table[k]].at] IN
  Over(Tombs(table, recs), Tombstones, at)

(* Mutant: eviction leaves no tombstone. *)
TableWithoutTombs(table, recs) ==
  [k \in Keys |-> IF k \in Tombs(table, recs) THEN None ELSE table[k]]
CappedTable(table, recs) == [k \in Keys |-> IF k \in Excess(table, recs) THEN None ELSE table[k]]

(* Mutant: only a completed receipt stops a second run. *)
BeginCompletedOnly(c) ==
  LET k == call[c].key
      known == replays[k] # None /\ receipt[replays[k]].complete IN
  /\ At(c, "new")
  /\ call' = [call EXCEPT ![c].pc = IF known THEN "wait" ELSE "execute",
                          ![c].on = IF known THEN replays[k] ELSE None]
  /\ replays' = IF known THEN replays ELSE [replays EXCEPT ![k] = c]
  /\ UNCHANGED <<receipt, file, reply, mutated, clock, restarts, dropped>>

(* lookupOrBegin: wait on the receipt of the key, or be the one that runs. *)
Begin(c) ==
  LET k == call[c].key IN
  /\ At(c, "new")
  /\ call' = [call EXCEPT ![c].pc = IF replays[k] # None THEN "wait" ELSE "execute",
                          ![c].on = replays[k]]
  /\ replays' = IF replays[k] # None THEN replays ELSE [replays EXCEPT ![k] = c]
  /\ UNCHANGED <<receipt, file, reply, mutated, clock, restarts, dropped>>

(* The handler changes the workspace; an edit checkpoints its receipt at once. *)
Mutate(c) ==
  /\ At(c, "execute")
  /\ mutated' = mutated \cup {c}
  /\ Goto(c, IF Kind[call[c].key] = "edit" THEN "store" ELSE "normalize")
  /\ UNCHANGED <<receipt, replays, file, reply, clock, restarts, dropped>>

(* The handler refuses, or is cancelled, before it changes anything. *)
Refuse(c) ==
  /\ At(c, "execute")
  /\ Goto(c, "normalize")
  /\ UNCHANGED <<receipt, replays, file, reply, mutated, clock, restarts, dropped>>

(* storeReceipt up to the unlock; for a checkpoint, after it is marked as one. *)
Store(c) ==
  LET k == call[c].key
      recs == [receipt EXCEPT ![c].complete = TRUE, ![c].at = clock + 1,
                              ![c].result = IF call[c].final THEN "final" ELSE "checkpoint",
                              ![c].checkpointed = @ \/ ~call[c].final]
      table == [replays EXCEPT ![k] = c] IN
  /\ At(c, "store")
  /\ clock' = clock + 1
  /\ receipt' = CappedReceipts(table, recs)
  /\ replays' = CappedTable(table, recs)
  /\ dropped' = dropped \cup {table[j] : j \in Excess(table, recs)}
  /\ Goto(c, "snap")
  /\ UNCHANGED <<file, reply, mutated, restarts>>

(* persistReceipts: the complete receipts of the table are copied under s.mu ... *)
Snapshot ==
  [k \in Keys |->
     LET o == replays[k] IN
     IF o = None THEN NoRecord
     ELSE IF ~receipt[o].complete THEN NoRecord
     ELSE [of |-> o, evicted |-> receipt[o].evicted, at |-> receipt[o].at, result |-> receipt[o].result]]
Snap(c) ==
  /\ At(c, "snap")
  /\ call' = [call EXCEPT ![c].pc = "write", ![c].snap = Snapshot]
  /\ UNCHANGED <<receipt, replays, file, reply, mutated, clock, restarts, dropped>>

(* ... and written under persistMu.  The write may fail, or fail to report that it
   succeeded; a checkpoint that failed is taken back. *)
Write(c, wrote, ok) ==
  LET unmade == ~ok /\ ~call[c].final IN
  /\ At(c, "write")
  /\ ok => wrote
  /\ WritesFail \/ ok
  /\ file' = IF wrote THEN call[c].snap ELSE file
  /\ receipt' = IF unmade THEN [receipt EXCEPT ![c].complete = FALSE, ![c].checkpointed = FALSE] ELSE receipt
  /\ call' = [call EXCEPT ![c].pc = IF call[c].final THEN "finish" ELSE "normalize",
                          ![c].stored = ok, ![c].snap = NoFile]
  /\ UNCHANGED <<replays, reply, mutated, clock, restarts, dropped>>

(* The handler returned in time, or too late but with a checkpoint to answer with. *)
Normalize(c, late) ==
  /\ At(c, "normalize")
  /\ late => receipt[c].checkpointed
  /\ call' = [call EXCEPT ![c].pc = "store", ![c].final = TRUE]
  /\ UNCHANGED <<receipt, replays, file, reply, mutated, clock, restarts, dropped>>

(* Mutant: the waiters of an abandoned receipt are not released. *)
AbandonSilently(c) ==
  /\ At(c, "normalize")
  /\ ~receipt[c].checkpointed
  /\ replays' = [replays EXCEPT ![call[c].key] = None]
  /\ Answer(c, "timeout", None, "none", FALSE)
  /\ Goto(c, "done")
  /\ UNCHANGED <<receipt, file, mutated, clock, restarts, dropped>>

(* It returned after the tool timeout: the receipt is dropped and its waiters released. *)
Abandon(c) ==
  /\ At(c, "normalize")
  /\ ~receipt[c].checkpointed
  /\ replays' = [replays EXCEPT ![call[c].key] = None]
  /\ receipt' = [receipt EXCEPT ![c].done = TRUE]
  /\ Answer(c, "timeout", None, "none", FALSE)
  /\ Goto(c, "done")
  /\ UNCHANGED <<file, mutated, clock, restarts, dropped>>

(* finish: the waiters of the completed receipt are released. *)
Finish(c) ==
  /\ At(c, "finish")
  /\ receipt' = [receipt EXCEPT ![c].done = TRUE]
  /\ Answer(c, "created", c, "final", call[c].stored)
  /\ Goto(c, "done")
  /\ UNCHANGED <<replays, file, mutated, clock, restarts, dropped>>

(* waitForReplay and replayReceipt: the recorded result, unless the arguments differ or
   the caps removed it. *)
Replay(c) ==
  LET o == call[c].on IN
  /\ At(c, "wait") /\ receipt[o].done
  /\ IF call[o].hash # call[c].hash THEN Answer(c, "reused", None, "none", FALSE)
     ELSE IF receipt[o].evicted THEN Answer(c, "evicted", None, "none", FALSE)
     ELSE Answer(c, "replayed", o, receipt[o].result, FALSE)
  /\ Goto(c, "done")
  /\ UNCHANGED <<receipt, replays, file, mutated, clock, restarts, dropped>>

(* The waiting call's own context ends first. *)
Cancel(c) ==
  /\ At(c, "wait")
  /\ Answer(c, "cancelled", None, "none", FALSE)
  /\ Goto(c, "done")
  /\ UNCHANGED <<receipt, replays, file, mutated, clock, restarts, dropped>>

(* The service stops and starts again: loadReceipts adopts the file, without the
   receipts of preparations, whose sandbox is gone. *)
Adopted(k) == file[k].of # None /\ (file[k].evicted \/ Kind[k] # "prepare")
Restart ==
  LET table == [k \in Keys |-> IF Adopted(k) THEN file[k].of ELSE None]
      recs == [o \in Calls |->
                 IF \E k \in Keys : table[k] = o
                 THEN LET k == CHOOSE k \in Keys : table[k] = o IN
                      [complete |-> TRUE, checkpointed |-> FALSE, evicted |-> file[k].evicted,
                       done |-> TRUE, at |-> file[k].at, result |-> file[k].result]
                 ELSE NoReceipt] IN
  /\ restarts < MaxRestarts /\ restarts' = restarts + 1
  /\ receipt' = CappedReceipts(table, recs)
  /\ replays' = CappedTable(table, recs)
  /\ dropped' = (dropped \ {table[k] : k \in Keys}) \cup {table[k] : k \in Excess(table, recs)}
  /\ call' = [c \in Calls |-> IF call[c].pc \in {"new", "done"} THEN call[c]
                              ELSE [call[c] EXCEPT !.pc = "lost", !.snap = NoFile]]
  /\ UNCHANGED <<file, reply, mutated, clock>>

Step(c) ==
  \/ Begin(c)
  \/ Mutate(c)
  \/ Refuse(c)
  \/ Store(c)
  \/ Snap(c)
  \/ \E wrote, ok \in BOOLEAN : Write(c, wrote, ok)
  \/ \E late \in BOOLEAN : Normalize(c, late)
  \/ Abandon(c)
  \/ Finish(c)
  \/ Replay(c)

Next ==
  \/ \E c \in Calls : Step(c) \/ Cancel(c)
  \/ Restart

(* A handler returns: it is bounded by the tool timeout. *)
Fairness == \A c \in Calls : WF_vars(Step(c))

Spec == Init /\ [][Next]_vars /\ Fairness

-----------------------------------------------------------------------------
(* Properties. *)

InFlight(c) == call[c].pc \in {"execute", "store", "snap", "write", "normalize", "finish"}
SameKey(c, d) == call[c].key = call[d].key

(* Of the calls that share a key at most one is past its lookup, so a retry that
   overtakes a slow original never runs beside it. *)
OneRunner == \A c, d \in Calls : InFlight(c) /\ InFlight(d) /\ SameKey(c, d) => c = d

(* Once a client is told that its change is made, no retry under the key makes it
   again: not while the service runs, and not after a restart as long as the receipt
   file has the receipt, until the caps remove even its tombstone.  A preparation is
   made again after a restart. *)
Told(c) ==
  /\ reply[c].kind = "created" /\ c \notin dropped
  /\ restarts = 0 \/ file[call[c].key].of = c
NotRemade ==
  [][\A d \in mutated' \ mutated : \A c \in mutated :
       SameKey(c, d) /\ Kind[call[c].key] # "prepare" => ~Told(c)]_vars

(* Every call that waits on a receipt is going to be released: the call that began
   the receipt still runs, or the receipt is done. *)
WaiterHasRunner ==
  \A c \in Calls : call[c].pc = "wait" => receipt[call[c].on].done \/ InFlight(call[c].on)
=============================================================================
