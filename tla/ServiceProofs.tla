---------------------------- MODULE ServiceProofs ----------------------------
(***************************************************************************)
(* Proofs about the service process: Service, for every set of roots,      *)
(* requests and bounds (what the registry promises of its records and the  *)
(* proxy of its frames), and ProviderPool, for every set of workspaces and *)
(* callers and every limit on providers.                                   *)
(***************************************************************************)
EXTENDS Service, ProviderPool, FiniteSetTheorems, TLAPS

USE RegistryAssumption, ProxyAssumption, ServiceAssumption

-----------------------------------------------------------------------------
(* The registry: what its steps are made of. *)

(* Nothing registered is a table of records, and no definition is in it. *)
LEMMA EmptyIsRecords == Empty \in Records /\ NoCopy \in Copy /\ NoCopy.of = Empty /\ ~NoCopy.on /\ Unique(Empty)
BY DEF Empty, Records, NoCopy, Copy, Unique

(* Calls and sweeps that do nothing have their types. *)
LEMMA IdleIsTyped == IdleCall \in Call /\ IdleSweep \in Sweep
BY DEF IdleCall, Call, IdleSweep, Sweep, Marks, Ids

(* Two tables with the same workspaces registered, under the same roots. *)
Alike(rs, qs) ==
  \A id \in Ids : (qs[id] # NoRecord <=> rs[id] # NoRecord) /\ (rs[id] # NoRecord => qs[id].root = rs[id].root)

(* Tables like one without duplicates have none. *)
LEMMA AlikeUnique ==
  ASSUME NEW rs, NEW qs, Alike(rs, qs), Unique(rs)
  PROVE  Unique(qs)
BY DEF Alike, Unique

(* Changing what is not the root of a registered record keeps it registered. *)
LEMMA RecordEffect ==
  ASSUME NEW r \in Record, NEW seq \in Nat, NEW since \in {"never", "young", "old"}
  PROVE  /\ r # NoRecord
         /\ [r EXCEPT !.seq = seq] \in Record /\ [r EXCEPT !.seq = seq].root = r.root
         /\ [r EXCEPT !.since = since] \in Record /\ [r EXCEPT !.since = since].root = r.root
BY DEF Record, NoRecord

(* A persist takes the records with their sequences as they are (Refreshed). *)
LEMMA RefreshedAlike ==
  ASSUME RegistryTypeOK
  PROVE  Refreshed \in Records /\ Alike(records, Refreshed)
<1>1. ASSUME NEW id \in Ids
      PROVE  /\ Refreshed[id] \in Record \cup {NoRecord}
             /\ (Refreshed[id] # NoRecord <=> records[id] # NoRecord)
             /\ (records[id] # NoRecord => Refreshed[id].root = records[id].root)
  <2>1. records[id] \in Record \cup {NoRecord} /\ items[id] \in Nat
    BY DEF RegistryTypeOK, Records
  <2>2. CASE Registered(id) /\ Loaded(id)
    BY <2>1, <2>2, RecordEffect DEF Refreshed, Registered
  <2>3. CASE ~(Registered(id) /\ Loaded(id))
    BY <2>1, <2>3 DEF Refreshed
  <2> QED BY <2>2, <2>3
<1> QED BY <1>1 DEF Refreshed, Records, Alike

(* Time passes for a table of records (Aged). *)
LEMMA AgedAlike ==
  ASSUME NEW rs \in Records
  PROVE  Aged(rs) \in Records /\ Alike(rs, Aged(rs))
<1>1. ASSUME NEW id \in Ids
      PROVE  /\ Aged(rs)[id] \in Record \cup {NoRecord}
             /\ (Aged(rs)[id] # NoRecord <=> rs[id] # NoRecord)
             /\ (rs[id] # NoRecord => Aged(rs)[id].root = rs[id].root)
  <2>1. rs[id] \in Record \cup {NoRecord} /\ NoRecord.since = "never"
    BY DEF Records, NoRecord
  <2>2. CASE rs[id].since = "young"
    BY <2>1, <2>2, RecordEffect DEF Aged
  <2>3. CASE rs[id].since # "young"
    BY <2>1, <2>3 DEF Aged
  <2> QED BY <2>2, <2>3
<1> QED BY <1>1 DEF Aged, Records, Alike

(* Steps that change one call. *)
OnlyCall(c) == \A d \in Callers \ {c} : call'[d] = call[d]

(* A step of a call that touches neither copies nor what clients were told, and
   whose records stay unique. *)
LEMMA CallMoves ==
  ASSUME RegistryTypeOK, RegistryInv, NEW c \in Callers, call' \in [Callers -> Call], OnlyCall(c),
         records' \in Records, Unique(records'),
         \A id \in Ids : records[id] # NoRecord => records'[id] # NoRecord,
         \A id \in Ids : records'[id] # NoRecord => records[id] # NoRecord
                           \/ (call[c].pc = "adopt" /\ id = call[c].fresh /\ call'[c].pc = "insert"),
         items' \in [Ids -> Nat], issued' \in 0..MaxIds, issued <= issued',
         UNCHANGED <<file, copies, sweep, told, mixed>>,
         call'[c].pc \notin {"create", "save"},
         Making(c)' => (Making(c) /\ call'[c].fresh = call[c].fresh /\ call'[c].root = call[c].root)
                         \/ (call'[c].fresh = issued + 1 /\ issued' = issued + 1 /\ call'[c].root \in Roots),
         call'[c].pc = "insert" => call'[c].id = call'[c].fresh,
         call'[c].pc \in {"reuse", "lookup", "run", "moved"} => call'[c].id \in Ids
  PROVE  RegistryTypeOK' /\ RegistryInv'
<1>1. RegistryTypeOK'
  BY DEF RegistryTypeOK
<1>2. UniqueInv'
  BY DEF UniqueInv, RegistryInv
<1>3. CallInv'
  <2>1. issued \in Nat /\ issued' \in Nat /\ told \subseteq 1..issued
    BY DEF RegistryTypeOK, RegistryInv, ToldInv
  <2>2. ASSUME NEW d \in Callers
        PROVE  /\ Making(d)' => call'[d].fresh \in 1..issued' /\ call'[d].fresh \notin told' /\ call'[d].root \in Roots
               /\ call'[d].pc \in {"insert", "create"} => call'[d].id = call'[d].fresh
               /\ call'[d].pc \in {"reuse", "lookup", "run", "moved", "save"} => call'[d].id \in Ids
    <3>1. CASE d = c
      BY <2>1, <3>1 DEF RegistryInv, CallInv
    <3>2. CASE d # c
      BY <2>1, <3>2 DEF RegistryInv, CallInv, OnlyCall, Making
    <3> QED BY <3>1, <3>2
  <2>3. ASSUME NEW d \in Callers, NEW e \in Callers, Making(d)', Making(e)', call'[d].fresh = call'[e].fresh, d # e
        PROVE  FALSE
    <3>1. ASSUME NEW f \in Callers, f # c, Making(f)'
          PROVE  Making(f) /\ call'[f].fresh = call[f].fresh /\ call'[f].fresh \in 1..issued
      BY <3>1 DEF RegistryInv, CallInv, OnlyCall, Making
    <3>2. ASSUME NEW f \in Callers, f # c, Making(f)', Making(c)'
          PROVE  call'[f].fresh # call'[c].fresh
      BY <2>1, <3>1, <3>2 DEF RegistryInv, CallInv
    <3> QED BY <2>3, <3>1, <3>2 DEF RegistryInv, CallInv
  <2> QED BY <2>2, <2>3 DEF CallInv
<1>4. CopyInv'
  <2>1. ASSUME NEW w \in Writers, Writing(w)' PROVE copies'[w].on
    BY <2>1 DEF Writing, OnlyCall, Writers, RegistryInv, CopyInv
  <2>2. ASSUME NEW d \in Callers, call'[d].pc = "create", records'[call'[d].fresh] # NoRecord
        PROVE  copies'[d].of[call'[d].fresh] # NoRecord
    <3>1. d # c /\ call'[d] = call[d] /\ Making(d)
      BY <2>2 DEF OnlyCall, Making
    <3>2. call[d].fresh \in Ids
      BY <3>1 DEF RegistryTypeOK, RegistryInv, CallInv, Ids
    <3>3. ~(call[c].pc = "adopt" /\ call[d].fresh = call[c].fresh)
      BY <3>1 DEF RegistryInv, CallInv, Making
    <3>4. records[call[d].fresh] # NoRecord
      BY <2>2, <3>1, <3>2, <3>3
    <3> QED BY <2>2, <3>1, <3>4 DEF RegistryInv, CopyInv, Registered
  <2> QED BY <2>1, <2>2 DEF CopyInv, RegistryInv, Registered
<1>5. ToldInv'
  <2>1. told \subseteq 1..issued' /\ told \subseteq Ids
    BY DEF RegistryTypeOK, RegistryInv, ToldInv
  <2> QED BY <2>1 DEF RegistryInv, ToldInv, RegisteredIds, Registered
<1> QED BY <1>1, <1>2, <1>3, <1>4, <1>5 DEF RegistryInv

(* Replacing one call keeps the type and the others. *)
LEMMA BecomesEffect ==
  ASSUME RegistryTypeOK, NEW c \in Callers, NEW r \in Call, Becomes(c, r)
  PROVE  call' \in [Callers -> Call] /\ OnlyCall(c) /\ call'[c] = r
BY DEF RegistryTypeOK, OnlyCall, Becomes

CallPc == {"idle", "adopt", "reuse", "insert", "create", "lookup", "run", "moved", "save", "done"}

(* A call that goes on keeps its workspace, its root and its fresh ID. *)
LEMMA GoEffect ==
  ASSUME RegistryTypeOK, NEW c \in Callers, NEW pc \in CallPc,
         NEW r, r = [call[c] EXCEPT !.pc = pc], Becomes(c, r)
  PROVE  /\ call' \in [Callers -> Call] /\ OnlyCall(c)
         /\ call'[c].pc = pc /\ call'[c].id = call[c].id
         /\ call'[c].fresh = call[c].fresh /\ call'[c].root = call[c].root
<1>1. call[c] \in Call
  BY DEF RegistryTypeOK
<1>2. r \in Call /\ r.pc = pc /\ r.id = call[c].id /\ r.fresh = call[c].fresh /\ r.root = call[c].root
  BY <1>1 DEF Call, CallPc
<1> QED BY <1>2, BecomesEffect

(* workspace_open makes a workspace object with the next ID (Open). *)
LEMMA OpenSafe ==
  ASSUME RegistryTypeOK, RegistryInv, NEW c \in Callers, NEW root \in Roots, OpenFresh(c, root)
  PROVE  RegistryTypeOK' /\ RegistryInv'
<1> DEFINE r == [IdleCall EXCEPT !.pc = "adopt", !.root = root, !.fresh = issued + 1]
<1>0. /\ issued < MaxIds /\ issued' = issued + 1 /\ Becomes(c, r)
      /\ UNCHANGED <<records, items, file, copies, sweep, told, mixed>>
  BY DEF OpenFresh
<1>i. issued \in 0..MaxIds /\ issued' \in 0..MaxIds /\ issued <= issued'
  BY <1>0 DEF RegistryTypeOK
<1>r. r \in Call /\ r.pc = "adopt" /\ r.root = root /\ r.fresh = issued + 1
  BY <1>0, <1>i, IdleIsTyped DEF IdleCall, Call
<1> HIDE DEF r
<1>1. call' \in [Callers -> Call] /\ OnlyCall(c) /\ call'[c] = r
  BY <1>0, <1>r, BecomesEffect
<1>2. /\ records' \in Records /\ Unique(records') /\ items' \in [Ids -> Nat]
  BY <1>0 DEF RegistryTypeOK, RegistryInv, UniqueInv
<1> QED BY <1>0, <1>1, <1>2, <1>i, <1>r, CallMoves

(* The fresh workspace is inserted where its definition has no record (Adopt). *)
LEMMA InsertSafe ==
  ASSUME RegistryTypeOK, RegistryInv, NEW c \in Callers, AdoptInsert(c)
  PROVE  RegistryTypeOK' /\ RegistryInv'
<1> DEFINE f == call[c].fresh
           n == [root |-> call[c].root, seq |-> 0, since |-> "never"]
<1>0. /\ call[c].pc = "adopt" /\ \A id \in Ids : ~SameDefinition(id, call[c].root)
      /\ records' = [records EXCEPT ![f] = n] /\ items' = [items EXCEPT ![f] = 0]
      /\ UNCHANGED <<file, copies, sweep, stores, work, gone, issued, faults, told, mixed>>
  BY DEF AdoptInsert
<1>1. f \in Ids /\ call[c].root \in Roots /\ f \in 0..MaxIds /\ call[c] \in Call
  <2>1. f \in 1..issued /\ call[c].root \in Roots
    BY <1>0 DEF RegistryInv, CallInv, Making
  <2> QED BY <2>1 DEF RegistryTypeOK, Ids
<1>2. n \in Record /\ n # NoRecord /\ n.root = call[c].root
  BY <1>1 DEF Record, NoRecord
<1> DEFINE r == [call[c] EXCEPT !.pc = "insert", !.id = f]
<1>3. Becomes(c, r) /\ r \in Call /\ r.pc = "insert" /\ r.id = f /\ r.fresh = f /\ r.root = call[c].root
  BY <1>1 DEF AdoptInsert, Call
<1> HIDE DEF n, r
<1>4. /\ call' \in [Callers -> Call] /\ OnlyCall(c)
      /\ call'[c].pc = "insert" /\ call'[c].id = f /\ call'[c].fresh = f /\ call'[c].root = call[c].root
  BY <1>3, BecomesEffect
<1>5. records' \in Records /\ items' \in [Ids -> Nat]
  BY <1>0, <1>1, <1>2 DEF RegistryTypeOK, Records
<1>6. Unique(records')
  BY <1>0, <1>1, <1>2 DEF RegistryTypeOK, Records, RegistryInv, UniqueInv, Unique, SameDefinition, Registered
<1>7. \A id \in Ids : id # f => records'[id] = records[id]
  BY <1>0, <1>1 DEF RegistryTypeOK, Records
<1>8. records'[f] # NoRecord
  BY <1>0, <1>1, <1>2 DEF RegistryTypeOK, Records
<1>9. issued' \in 0..MaxIds /\ issued <= issued'
  BY <1>0 DEF RegistryTypeOK
<1>10. /\ \A id \in Ids : records[id] # NoRecord => records'[id] # NoRecord
       /\ \A id \in Ids : records'[id] # NoRecord => records[id] # NoRecord
                           \/ (call[c].pc = "adopt" /\ id = f /\ call'[c].pc = "insert")
  BY <1>0, <1>4, <1>7, <1>8
<1> QED BY <1>0, <1>1, <1>4, <1>5, <1>6, <1>9, <1>10, CallMoves DEF Making

(* Steps that move a call with its records as they are. *)
LEMMA PlainMoves ==
  ASSUME RegistryTypeOK, RegistryInv, NEW c \in Callers, call' \in [Callers -> Call], OnlyCall(c),
         items' \in [Ids -> Nat], UNCHANGED <<records, file, copies, sweep, told, mixed, issued>>,
         call'[c].fresh = call[c].fresh, call'[c].root = call[c].root,
         call'[c].pc \notin {"create", "save", "insert"},
         Making(c)' => Making(c),
         call'[c].pc \in {"reuse", "lookup", "run", "moved"} => call'[c].id \in Ids
  PROVE  RegistryTypeOK' /\ RegistryInv'
<1>1. records' \in Records /\ Unique(records') /\ issued' \in 0..MaxIds /\ issued <= issued'
  BY DEF RegistryTypeOK, RegistryInv, UniqueInv
<1> QED BY <1>1, CallMoves

(* The registered workspace is taken, and opened; if a sweep forgot it meanwhile the
   call makes its own (Adopt, resolve). *)
LEMMA ReuseSafe ==
  ASSUME RegistryTypeOK, RegistryInv, NEW c \in Callers, AdoptMatch(c) \/ AdoptReuse(c)
  PROVE  RegistryTypeOK' /\ RegistryInv'
<1>0. call[c] \in Call
  BY DEF RegistryTypeOK
<1>1. CASE AdoptMatch(c)
  <2>1. PICK id \in Ids : Becomes(c, [call[c] EXCEPT !.pc = "reuse", !.id = id])
    BY <1>1 DEF AdoptMatch
  <2> DEFINE r == [call[c] EXCEPT !.pc = "reuse", !.id = id]
  <2>a. Becomes(c, r)
    BY <2>1
  <2>b. id \in 0..MaxIds
    BY DEF Ids
  <2>2. r \in Call /\ r.pc = "reuse" /\ r.id = id /\ r.fresh = call[c].fresh /\ r.root = call[c].root
    BY <1>0, <2>b DEF Call
  <2> HIDE DEF r
  <2>3. /\ call' \in [Callers -> Call] /\ OnlyCall(c) /\ call'[c].pc = "reuse" /\ call'[c].id = id
        /\ call'[c].fresh = call[c].fresh /\ call'[c].root = call[c].root
    BY <2>a, <2>2, BecomesEffect
  <2>4. Making(c) /\ items' \in [Ids -> Nat]
    BY <1>1 DEF AdoptMatch, Making, RegistryTypeOK
  <2> QED BY <1>1, <2>3, <2>4, PlainMoves DEF AdoptMatch
<1>2. CASE AdoptReuse(c)
  <2> DEFINE pc == IF Registered(call[c].id) THEN "done" ELSE "adopt"
  <2>1. pc \in {"done", "adopt"} /\ Becomes(c, [call[c] EXCEPT !.pc = pc])
    BY <1>2 DEF AdoptReuse
  <2>i. pc \in CallPc /\ call[c].id \in 0..MaxIds /\ TRUE \in BOOLEAN
    BY <1>0 DEF Call, CallPc
  <2> HIDE DEF pc
  <2>2. /\ call' \in [Callers -> Call] /\ OnlyCall(c) /\ call'[c].pc = pc
        /\ call'[c].fresh = call[c].fresh /\ call'[c].root = call[c].root
    BY <2>1, <2>i, GoEffect
  <2>3. items' \in [Ids -> Nat]
    <3>1. call[c].id \in Ids
      BY <1>2 DEF AdoptReuse, RegistryInv, CallInv
    <3>2. Registered(call[c].id) => records[call[c].id].seq \in Nat
      BY <3>1 DEF RegistryTypeOK, Records, Record, Registered
    <3> QED BY <1>2, <3>1, <3>2 DEF AdoptReuse, Resolve, RegistryTypeOK
  <2>4. Making(c)
    BY <1>2 DEF AdoptReuse, Making
  <2> QED BY <1>2, <2>1, <2>2, <2>3, <2>4, PlainMoves DEF AdoptReuse
<1> QED BY <1>1, <1>2

(* The invariant of the calls over a step of one of them that makes no ID. *)
LEMMA CallInvKept ==
  ASSUME RegistryTypeOK, RegistryInv, NEW c \in Callers, call' \in [Callers -> Call], OnlyCall(c),
         issued' = issued,
         \A d \in Callers \ {c} : Making(d) => call[d].fresh \notin told',
         Making(c)' => Making(c) /\ call'[c].fresh = call[c].fresh /\ call'[c].root = call[c].root
                         /\ call'[c].fresh \notin told',
         call'[c].pc \in {"insert", "create"} => call'[c].id = call'[c].fresh,
         call'[c].pc \in {"reuse", "lookup", "run", "moved", "save"} => call'[c].id \in Ids
  PROVE  CallInv'
<1>1. ASSUME NEW d \in Callers
      PROVE  /\ Making(d)' => /\ Making(d) /\ call'[d].fresh = call[d].fresh
                              /\ call'[d].fresh \notin told' /\ call'[d].root = call[d].root
             /\ call'[d].pc \in {"insert", "create"} => call'[d].id = call'[d].fresh
             /\ call'[d].pc \in {"reuse", "lookup", "run", "moved", "save"} => call'[d].id \in Ids
  <2>1. CASE d = c
    BY <2>1
  <2>2. CASE d # c
    BY <2>2 DEF OnlyCall, Making, RegistryInv, CallInv
  <2> QED BY <2>1, <2>2
<1> QED BY <1>1 DEF CallInv, RegistryInv

(* What the copy half of persist does, whoever persists (persist). *)
LEMMA CopyEffect ==
  ASSUME RegistryTypeOK, RegistryInv, NEW w \in Writers, PersistCopy(w)
  PROVE  /\ records' \in Records /\ Unique(records')
         /\ \A id \in Ids : records'[id] # NoRecord <=> records[id] # NoRecord
         /\ copies' \in [Writers -> Copy]
         /\ \A v \in Writers : Unique(copies'[v].of)
         /\ copies'[w].on /\ copies'[w].of = records'
         /\ copies'[w].solo => \A v \in Writers \ {w} : ~copies[v].on
         /\ \A v \in Writers \ {w} : copies'[v].on = copies[v].on /\ copies'[v].of = copies[v].of /\ ~copies'[v].solo
<1> DEFINE alone == \A v \in Writers \ {w} : ~copies[v].on
           taken == [on |-> TRUE, solo |-> alone, of |-> Refreshed]
<1>1. /\ records' = Refreshed
      /\ copies' = [v \in Writers |-> IF v = w THEN taken ELSE [copies[v] EXCEPT !.solo = FALSE]]
  BY DEF PersistCopy
<1>2. Refreshed \in Records /\ Alike(records, Refreshed) /\ Unique(Refreshed)
  BY RefreshedAlike, AlikeUnique DEF RegistryInv, UniqueInv
<1>3. taken \in Copy /\ taken.on /\ taken.solo = alone /\ taken.of = Refreshed
  BY <1>2 DEF Copy
<1>4. ASSUME NEW v \in Writers
      PROVE  /\ [copies[v] EXCEPT !.solo = FALSE] \in Copy /\ ~[copies[v] EXCEPT !.solo = FALSE].solo
             /\ [copies[v] EXCEPT !.solo = FALSE].of = copies[v].of
             /\ [copies[v] EXCEPT !.solo = FALSE].on = copies[v].on
  <2>1. copies[v] \in Copy
    BY DEF RegistryTypeOK
  <2>2. [copies[v] EXCEPT !.solo = FALSE] \in Copy
    BY <2>1 DEF Copy
  <2>3. ~[copies[v] EXCEPT !.solo = FALSE].solo
    BY <2>1 DEF Copy
  <2>4. [copies[v] EXCEPT !.solo = FALSE].of = copies[v].of
    BY <2>1 DEF Copy
  <2>5. [copies[v] EXCEPT !.solo = FALSE].on = copies[v].on
    BY <2>1 DEF Copy
  <2> QED BY <2>2, <2>3, <2>4, <2>5
<1> HIDE DEF taken
<1>5. copies'[w] = taken /\ \A v \in Writers \ {w} : copies'[v] = [copies[v] EXCEPT !.solo = FALSE]
  BY <1>1
<1>6. copies' \in [Writers -> Copy]
  BY <1>1, <1>3, <1>4
<1>7. ASSUME NEW v \in Writers PROVE Unique(copies'[v].of)
  <2>1. CASE v = w BY <1>2, <1>3, <1>5, <2>1
  <2>2. CASE v # w BY <1>4, <1>5, <2>2 DEF RegistryInv, UniqueInv
  <2> QED BY <2>1, <2>2
<1> QED BY <1>1, <1>2, <1>3, <1>4, <1>5, <1>6, <1>7 DEF Alike

(* What the write of a copy does to the file and to the copies (persist). *)
LEMMA WriteEffect ==
  ASSUME RegistryTypeOK, RegistryInv, NEW w \in Writers, NEW ok \in BOOLEAN, PersistWrite(w, ok), Writing(w)
  PROVE  /\ file' \in Records /\ Unique(file') /\ mixed' \in BOOLEAN
         /\ copies' \in [Writers -> Copy] /\ ~copies'[w].on
         /\ \A v \in Writers : Unique(copies'[v].of)
         /\ \A v \in Writers \ {w} : copies'[v] = copies[v] /\ ~(copies[v].on /\ copies[v].solo)
         /\ ~mixed' => \A id \in told : file'[id] # NoRecord
         /\ ok /\ ~mixed' => file' = copies[w].of
<1>1. copies' = [copies EXCEPT ![w] = NoCopy]
  BY DEF PersistWrite
<1>2. copies'[w] = NoCopy /\ \A v \in Writers \ {w} : copies'[v] = copies[v]
  BY <1>1 DEF RegistryTypeOK
<1>3. copies' \in [Writers -> Copy]
  BY <1>1, EmptyIsRecords DEF RegistryTypeOK
<1>4. copies[w].on /\ copies[w] \in Copy
  BY DEF RegistryTypeOK, RegistryInv, CopyInv
<1>5. \A v \in Writers \ {w} : ~(copies[v].on /\ copies[v].solo)
  BY <1>4 DEF RegistryInv, CopyInv
<1>6. CASE ok
  <2>1. file' = copies[w].of /\ mixed' = ~copies[w].solo
    BY <1>6 DEF PersistWrite
  <2>2. file' \in Records /\ Unique(file')
    BY <1>4, <2>1 DEF Copy, RegistryInv, UniqueInv
  <2>3. copies[w].solo \in BOOLEAN
    BY <1>4 DEF Copy
  <2>4. mixed' \in BOOLEAN /\ (~mixed' => copies[w].solo)
    BY <2>1, <2>3
  <2>5. ~mixed' => \A id \in told : file'[id] # NoRecord
    BY <1>4, <2>1, <2>4 DEF RegistryInv, CopyInv
  <2> QED BY <1>2, <1>3, <1>5, <2>1, <2>2, <2>4, <2>5, EmptyIsRecords DEF RegistryInv, UniqueInv
<1>7. CASE ~ok
  <2>1. UNCHANGED <<file, mixed>>
    BY <1>7 DEF PersistWrite
  <2>2. \A v \in Writers : Unique(copies'[v].of)
    BY <1>2, EmptyIsRecords DEF RegistryInv, UniqueInv
  <2>3. file' \in Records /\ Unique(file') /\ mixed' \in BOOLEAN
    BY <2>1 DEF RegistryInv, UniqueInv, RegistryTypeOK
  <2>4. ~mixed' => \A id \in told : file'[id] # NoRecord
    BY <2>1 DEF RegistryInv, ToldInv
  <2> QED BY <1>2, <1>3, <1>5, <1>7, <2>2, <2>3, <2>4, EmptyIsRecords
<1> QED BY <1>6, <1>7

(* The copy half of the persist that Adopt and PersistIdentity end with. *)
LEMMA CallCopiesSafe ==
  ASSUME RegistryTypeOK, RegistryInv, NEW c \in Callers, CallCopies(c)
  PROVE  RegistryTypeOK' /\ RegistryInv'
<1> DEFINE pc == IF call[c].pc = "insert" THEN "create" ELSE "save"
<1>0. /\ call[c].pc \in {"insert", "moved"} /\ PersistCopy(c) /\ Becomes(c, [call[c] EXCEPT !.pc = pc])
      /\ UNCHANGED <<items, file, sweep, stores, work, gone, issued, faults, told, mixed>>
  BY DEF CallCopies
<1>1. pc \in {"create", "save"} /\ pc \in CallPc /\ (pc = "create" <=> call[c].pc = "insert")
  BY DEF CallPc
<1> HIDE DEF pc
<1>2. /\ call' \in [Callers -> Call] /\ OnlyCall(c) /\ call'[c].pc = pc /\ call'[c].id = call[c].id
      /\ call'[c].fresh = call[c].fresh /\ call'[c].root = call[c].root
  BY <1>0, <1>1, GoEffect
<1>3. /\ records' \in Records /\ Unique(records')
      /\ \A id \in Ids : records'[id] # NoRecord <=> records[id] # NoRecord
      /\ copies' \in [Writers -> Copy]
      /\ \A v \in Writers : Unique(copies'[v].of)
      /\ copies'[c].on /\ copies'[c].of = records'
      /\ copies'[c].solo => \A v \in Writers \ {c} : ~copies[v].on
      /\ \A v \in Writers \ {c} : copies'[v].on = copies[v].on /\ copies'[v].of = copies[v].of /\ ~copies'[v].solo
  BY <1>0, CopyEffect DEF Writers
<1>4. told \subseteq RegisteredIds /\ \A id \in told : id \in Ids /\ records'[id] # NoRecord
  BY <1>3 DEF RegistryInv, ToldInv, RegisteredIds, Registered
<1>5. RegistryTypeOK'
  BY <1>0, <1>2, <1>3 DEF RegistryTypeOK
<1>6. UniqueInv'
  BY <1>0, <1>3 DEF UniqueInv, RegistryInv
<1>7. CallInv'
  <2>1. Making(c)' => Making(c) /\ call[c].fresh \notin told
    BY <1>0, <1>1, <1>2 DEF Making, RegistryInv, CallInv
  <2>2. /\ call'[c].pc \in {"insert", "create"} => call'[c].id = call'[c].fresh
        /\ call'[c].pc \in {"reuse", "lookup", "run", "moved", "save"} => call'[c].id \in Ids
    BY <1>0, <1>1, <1>2 DEF RegistryInv, CallInv
  <2>3. \A d \in Callers \ {c} : Making(d) => call[d].fresh \notin told'
    BY <1>0 DEF RegistryInv, CallInv
  <2> QED BY <1>0, <1>2, <2>1, <2>2, <2>3, CallInvKept
<1>8. CopyInv'
  <2>1. ASSUME NEW w \in Writers, Writing(w)' PROVE copies'[w].on
    <3>1. CASE w = c BY <1>3, <3>1
    <3>2. CASE w # c
      <4>1. Writing(w)
        BY <1>0, <1>2, <2>1, <3>2 DEF Writing, OnlyCall, Writers
      <4> QED BY <1>3, <3>2, <4>1 DEF RegistryInv, CopyInv
    <3> QED BY <3>1, <3>2
  <2>2. ASSUME NEW w \in Writers, copies'[w].on, copies'[w].solo
        PROVE  /\ \A v \in Writers \ {w} : ~copies'[v].on
               /\ \A id \in told' : copies'[w].of[id] # NoRecord
    <3>1. w = c
      BY <1>3, <2>2
    <3> QED BY <1>0, <1>3, <1>4, <2>2, <3>1
  <2>3. ASSUME NEW d \in Callers, call'[d].pc = "create", records'[call'[d].fresh] # NoRecord
        PROVE  copies'[d].of[call'[d].fresh] # NoRecord
    <3>1. CASE d = c BY <1>3, <2>3, <3>1
    <3>2. CASE d # c
      <4>1. call'[d] = call[d] /\ d \in Writers \ {c}
        BY <3>2, <1>2 DEF OnlyCall, Writers
      <4>2. call[d].fresh \in Ids
        BY <2>3, <4>1 DEF RegistryInv, CallInv, Making, RegistryTypeOK, Ids
      <4>3. records[call[d].fresh] # NoRecord
        BY <1>3, <2>3, <4>1, <4>2
      <4> QED BY <1>3, <2>3, <4>1, <4>3 DEF RegistryInv, CopyInv, Registered
    <3> QED BY <3>1, <3>2
  <2> QED BY <2>1, <2>2, <2>3 DEF CopyInv, Registered
<1>9. ToldInv'
  BY <1>0, <1>4 DEF ToldInv, RegistryInv, RegisteredIds, Registered
<1> QED BY <1>5, <1>6, <1>7, <1>8, <1>9 DEF RegistryInv

(* A call that ends its persist leaves the calls and the copies as they must be,
   when what it tells the client and what it takes out of memory are right. *)
LEMMA WriteEnds ==
  ASSUME RegistryTypeOK, RegistryInv, NEW c \in Callers, NEW ok \in BOOLEAN, PersistWrite(c, ok),
         call[c].pc \in {"create", "save"},
         NEW r, r = [call[c] EXCEPT !.pc = "done"], Becomes(c, r),
         UNCHANGED <<sweep, issued>>, items' \in [Ids -> Nat],
         records' \in Records, Unique(records'),
         \A id \in Ids : records'[id] # NoRecord => records[id] # NoRecord,
         told \subseteq told', \A id \in told' : id \in Ids /\ records'[id] # NoRecord,
         \A id \in told' \ told : call[c].pc = "create" /\ ok /\ id = call[c].fresh /\ records[id] # NoRecord
  PROVE  RegistryTypeOK' /\ RegistryInv'
<1>1. Writing(c) /\ c \in Writers
  BY DEF Writing, Writers
<1>2. /\ file' \in Records /\ Unique(file') /\ mixed' \in BOOLEAN
      /\ copies' \in [Writers -> Copy] /\ ~copies'[c].on
      /\ \A v \in Writers : Unique(copies'[v].of)
      /\ \A v \in Writers \ {c} : copies'[v] = copies[v] /\ ~(copies[v].on /\ copies[v].solo)
      /\ ~mixed' => \A id \in told : file'[id] # NoRecord
      /\ ok /\ ~mixed' => file' = copies[c].of
  BY <1>1, WriteEffect
<1>3. /\ call' \in [Callers -> Call] /\ OnlyCall(c) /\ call'[c].pc = "done"
  BY GoEffect DEF CallPc
<1>4. RegistryTypeOK'
  BY <1>2, <1>3 DEF RegistryTypeOK
<1>5. UniqueInv'
  BY <1>2 DEF UniqueInv
<1>6. CallInv'
  <2>1. ASSUME NEW d \in Callers \ {c}, Making(d) PROVE call[d].fresh \notin told'
    <3>1. call[d].fresh \notin told
      BY <2>1 DEF RegistryInv, CallInv
    <3>2. call[c].pc = "create" => call[d].fresh # call[c].fresh
      BY <2>1 DEF RegistryInv, CallInv, Making
    <3> QED BY <3>1, <3>2
  <2> QED BY <1>3, <2>1, CallInvKept DEF Making
<1>7. CopyInv'
  <2>1. ASSUME NEW w \in Writers, Writing(w)' PROVE copies'[w].on
    <3>1. w # c
      BY <1>1, <1>3, <2>1 DEF Writing, Writers
    <3>2. Writing(w)
      BY <1>3, <2>1, <3>1 DEF Writing, OnlyCall, Writers
    <3> QED BY <1>2, <3>1, <3>2 DEF RegistryInv, CopyInv
  <2>2. \A w \in Writers : ~(copies'[w].on /\ copies'[w].solo)
    BY <1>2
  <2>3. ASSUME NEW d \in Callers, call'[d].pc = "create", records'[call'[d].fresh] # NoRecord
        PROVE  copies'[d].of[call'[d].fresh] # NoRecord
    <3>1. d # c
      BY <1>3, <2>3
    <3>2. call'[d] = call[d] /\ d \in Writers \ {c}
      BY <1>3, <3>1 DEF OnlyCall, Writers
    <3>3. call[d].fresh \in Ids
      BY <2>3, <3>2 DEF RegistryInv, CallInv, Making, RegistryTypeOK, Ids
    <3> QED BY <1>2, <2>3, <3>2, <3>3 DEF RegistryInv, CopyInv, Registered
  <2> QED BY <2>1, <2>2, <2>3 DEF CopyInv, Registered
<1>8. ToldInv'
  <2>1. told' \subseteq 1..issued'
    <3>1. call[c].pc = "create" => call[c].fresh \in 1..issued
      BY DEF RegistryInv, CallInv, Making
    <3>2. told \subseteq 1..issued
      BY DEF RegistryInv, ToldInv
    <3> QED BY <3>1, <3>2
  <2>2. ~mixed' => \A id \in told' : file'[id] # NoRecord
    <3>1. ASSUME ~mixed', NEW id \in told' \ told PROVE file'[id] # NoRecord
      BY <1>2, <3>1 DEF RegistryInv, CopyInv, Registered
    <3> QED BY <1>2, <3>1
  <2> QED BY <2>1, <2>2 DEF ToldInv, RegisteredIds, Registered
<1> QED BY <1>4, <1>5, <1>6, <1>7, <1>8 DEF RegistryInv

(* The new workspace is reported when its record is written, and taken out of memory
   when the write failed (Adopt). *)
LEMMA AdoptWritesSafe ==
  ASSUME RegistryTypeOK, RegistryInv, NEW c \in Callers, NEW ok \in BOOLEAN, AdoptWrites(c, ok)
  PROVE  RegistryTypeOK' /\ RegistryInv'
<1> DEFINE r == [call[c] EXCEPT !.pc = "done"]
<1>0. /\ call[c].pc = "create" /\ PersistWrite(c, ok) /\ Becomes(c, r) /\ UNCHANGED <<sweep, issued>>
  BY DEF AdoptWrites
<1> HIDE DEF r
<1>1. /\ call[c].id = call[c].fresh /\ call[c].fresh \in 1..issued /\ call[c].fresh \in Ids
      /\ call[c].fresh \notin told
  BY <1>0 DEF RegistryInv, CallInv, Making, RegistryTypeOK, Ids
<1>2. \A id \in told : id \in Ids /\ records[id] # NoRecord
  BY DEF RegistryInv, ToldInv, RegisteredIds, Registered
<1>3. r = [call[c] EXCEPT !.pc = "done"]
  BY DEF r
<1>4. CASE ok
  <2>1. told' = told \cup ({call[c].id} \cap RegisteredIds) /\ UNCHANGED <<records, items>>
    BY <1>4 DEF AdoptWrites
  <2>2. items' \in [Ids -> Nat] /\ records' \in Records /\ Unique(records')
    BY <2>1 DEF RegistryTypeOK, RegistryInv, UniqueInv
  <2>3. /\ \A id \in told' : id \in Ids /\ records'[id] # NoRecord
        /\ \A id \in told' \ told : id = call[c].fresh /\ records[id] # NoRecord
    BY <1>1, <1>2, <2>1 DEF RegisteredIds, Registered
  <2> QED BY <1>0, <1>3, <1>4, <2>1, <2>2, <2>3, WriteEnds
<1>5. CASE ~ok
  <2>1. /\ records' = [records EXCEPT ![call[c].fresh] = NoRecord]
        /\ items' = [items EXCEPT ![call[c].fresh] = Closed] /\ UNCHANGED told
    BY <1>1, <1>5 DEF AdoptWrites
  <2>2. items' \in [Ids -> Nat] /\ records' \in Records
    BY <1>1, <2>1 DEF RegistryTypeOK, Records, Closed
  <2>3. \A id \in Ids : records'[id] = IF id = call[c].fresh THEN NoRecord ELSE records[id]
    BY <1>1, <2>1 DEF RegistryTypeOK, Records
  <2>4. Unique(records')
    BY <2>3 DEF Unique, RegistryInv, UniqueInv
  <2>5. \A id \in told' : id \in Ids /\ records'[id] # NoRecord
    BY <1>1, <1>2, <2>1, <2>3
  <2>6. \A id \in Ids : records'[id] # NoRecord => records[id] # NoRecord
    BY <2>3
  <2> QED BY <1>0, <1>3, <2>1, <2>2, <2>4, <2>5, <2>6, WriteEnds
<1> QED BY <1>4, <1>5

(* The write of a sequence that moved (PersistIdentity). *)
LEMMA UseWritesSafe ==
  ASSUME RegistryTypeOK, RegistryInv, NEW c \in Callers, NEW ok \in BOOLEAN, UseWrites(c, ok)
  PROVE  RegistryTypeOK' /\ RegistryInv'
<1> DEFINE r == [call[c] EXCEPT !.pc = "done"]
<1>0. /\ call[c].pc = "save" /\ PersistWrite(c, ok) /\ Becomes(c, r)
      /\ UNCHANGED <<records, items, sweep, issued, told>>
  BY DEF UseWrites
<1> HIDE DEF r
<1>1. r = [call[c] EXCEPT !.pc = "done"]
  BY DEF r
<1>2. items' \in [Ids -> Nat] /\ records' \in Records /\ Unique(records')
  BY <1>0 DEF RegistryTypeOK, RegistryInv, UniqueInv
<1>3. \A id \in told' : id \in Ids /\ records'[id] # NoRecord
  BY <1>0 DEF RegistryInv, ToldInv, RegisteredIds, Registered
<1> QED BY <1>0, <1>1, <1>2, <1>3, WriteEnds

(* A workspace is named, and looked up (Lookup). *)
LEMMA LookupSafe ==
  ASSUME RegistryTypeOK, RegistryInv, NEW c \in Callers,
         (\E id \in Ids : UseBegin(c, id)) \/ \E commits \in BOOLEAN : UseLookup(c, commits)
  PROVE  RegistryTypeOK' /\ RegistryInv'
<1>c. call[c] \in Call /\ TRUE \in BOOLEAN /\ FALSE \in BOOLEAN
  BY DEF RegistryTypeOK
<1>1. ASSUME NEW id \in Ids, UseBegin(c, id)
      PROVE  RegistryTypeOK' /\ RegistryInv'
  <2> DEFINE r == [IdleCall EXCEPT !.pc = "lookup", !.id = id, !.held = TRUE]
  <2>a. Becomes(c, r) /\ UNCHANGED <<records, items, file, copies, sweep, told, mixed, issued>>
    BY <1>1 DEF UseBegin
  <2>b. id \in 0..MaxIds
    BY DEF Ids
  <2>q. [IdleCall EXCEPT !.pc = "lookup", !.id = id] \in Call
    BY <2>b, IdleIsTyped DEF Call
  <2>1. r \in Call
    <3> DEFINE q == [IdleCall EXCEPT !.pc = "lookup", !.id = id]
    <3>1. r = [q EXCEPT !.held = TRUE]
      OBVIOUS
    <3>2. q \in Call
      BY <2>q
    <3> HIDE DEF r, q
    <3> QED BY <1>c, <3>1, <3>2 DEF Call
  <2>2. r.pc = "lookup" /\ r.id = id
    BY DEF IdleCall
  <2> HIDE DEF r
  <2>3. call' \in [Callers -> Call] /\ OnlyCall(c) /\ call'[c].pc = "lookup" /\ call'[c].id = id
    BY <2>a, <2>1, <2>2, BecomesEffect
  <2>4. records' \in Records /\ Unique(records') /\ issued' \in 0..MaxIds /\ issued <= issued' /\ items' \in [Ids -> Nat]
    BY <2>a DEF RegistryTypeOK, RegistryInv, UniqueInv
  <2> QED BY <2>a, <2>3, <2>4, CallMoves DEF Making
<1>2. ASSUME NEW commits \in BOOLEAN, UseLookup(c, commits)
      PROVE  RegistryTypeOK' /\ RegistryInv'
  <2>0. call[c].pc = "lookup" /\ UNCHANGED <<records, file, copies, sweep, issued, told, mixed>> /\ call[c].id \in Ids
    BY <1>2 DEF UseLookup, RegistryInv, CallInv
  <2>1. items' \in [Ids -> Nat]
    <3>1. Registered(call[c].id) => records[call[c].id].seq \in Nat
      BY <2>0 DEF RegistryTypeOK, Records, Record, Registered
    <3> QED BY <1>2, <2>0, <3>1 DEF UseLookup, RegistryTypeOK
  <2>2. CASE Registered(call[c].id)
    <3> DEFINE r == [call[c] EXCEPT !.pc = "run"]
    <3>1. Becomes(c, r) /\ r = [call[c] EXCEPT !.pc = "run"]
      BY <1>2, <2>2 DEF UseLookup
    <3> HIDE DEF r
    <3>2. /\ call' \in [Callers -> Call] /\ OnlyCall(c) /\ call'[c].pc = "run" /\ call'[c].id = call[c].id
          /\ call'[c].fresh = call[c].fresh /\ call'[c].root = call[c].root
      BY <3>1, GoEffect DEF CallPc
    <3> QED BY <2>0, <2>1, <3>2, PlainMoves DEF Making
  <2>3. CASE ~Registered(call[c].id)
    <3> DEFINE r == [call[c] EXCEPT !.pc = "done", !.held = FALSE]
    <3>1. Becomes(c, r)
      BY <1>2, <2>3 DEF UseLookup
    <3>2. r \in Call
      BY <1>c DEF Call
    <3>3. r.pc = "done"
      BY <1>c DEF Call
    <3>4. r.fresh = call[c].fresh
      BY <1>c DEF Call
    <3>5. r.root = call[c].root
      BY <1>c DEF Call
    <3> HIDE DEF r
    <3>6. call' \in [Callers -> Call] /\ OnlyCall(c) /\ call'[c] = r
      BY <3>1, <3>2, BecomesEffect
    <3> QED BY <2>0, <2>1, <3>3, <3>4, <3>5, <3>6, PlainMoves DEF Making
  <2> QED BY <2>2, <2>3
<1> QED BY <1>1, <1>2

(* A use ends, and its identity may have moved (PersistIdentity). *)
LEMMA UseEndSafe ==
  ASSUME RegistryTypeOK, RegistryInv, NEW c \in Callers, UseEnd(c)
  PROVE  RegistryTypeOK' /\ RegistryInv'
<1> DEFINE id == call[c].id
           moved == Registered(id) /\ Loaded(id) /\ items[id] < MaxSeq
           pc == IF moved THEN "moved" ELSE "done"
           r == [call[c] EXCEPT !.pc = pc, !.held = FALSE]
<1>0. /\ call[c].pc = "run" /\ Becomes(c, r) /\ UNCHANGED <<file, copies, sweep, issued, told, mixed>>
  BY DEF UseEnd
<1>1. call[c] \in Call /\ FALSE \in BOOLEAN /\ pc \in CallPc /\ pc \in {"moved", "done"} /\ id \in Ids
  BY <1>0 DEF RegistryTypeOK, RegistryInv, CallInv, CallPc
<1>2. /\ records' \in Records /\ items' \in [Ids -> Nat] /\ Alike(records, records')
  <2>1. CASE moved
    <3>1. records[id] \in Record /\ items[id] + 1 \in Nat
      BY <1>1, <2>1 DEF RegistryTypeOK, Records, Registered
    <3>2. /\ [records[id] EXCEPT !.seq = items[id] + 1] \in Record
          /\ [records[id] EXCEPT !.seq = items[id] + 1].root = records[id].root
          /\ [records[id] EXCEPT !.seq = items[id] + 1] # NoRecord
      BY <3>1 DEF Record, NoRecord
    <3>3. /\ items' = [items EXCEPT ![id] = items[id] + 1]
          /\ records' = [records EXCEPT ![id] = [records[id] EXCEPT !.seq = items[id] + 1]]
      BY <2>1 DEF UseEnd
    <3> HIDE DEF id
    <3>4. records' \in Records /\ items' \in [Ids -> Nat]
      BY <1>1, <3>1, <3>2, <3>3 DEF RegistryTypeOK, Records
    <3>5. Alike(records, records')
      BY <1>1, <2>1, <3>2, <3>3 DEF Alike, RegistryTypeOK, Records, Registered
    <3> QED BY <3>4, <3>5
  <2>2. CASE ~moved
    BY <2>2 DEF UseEnd, RegistryTypeOK, Alike
  <2> QED BY <2>1, <2>2
<1> HIDE DEF moved, id, pc
<1>3. r \in Call
  BY <1>1 DEF Call, CallPc
<1>4. r.pc = pc
  BY <1>1 DEF Call
<1>5. r.id = call[c].id
  BY <1>1 DEF Call
<1> HIDE DEF r
<1>6. call' \in [Callers -> Call] /\ OnlyCall(c) /\ call'[c] = r
  BY <1>0, <1>3, BecomesEffect
<1>7. Unique(records') /\ issued' \in 0..MaxIds /\ issued <= issued'
  BY <1>0, <1>2, AlikeUnique DEF RegistryTypeOK, RegistryInv, UniqueInv
<1>8. \A i \in Ids : records'[i] # NoRecord <=> records[i] # NoRecord
  BY <1>2 DEF Alike
<1>9. call'[c].pc \in {"moved", "done"} /\ call'[c].id \in Ids
  BY <1>1, <1>4, <1>5, <1>6 DEF id
<1> QED BY <1>0, <1>2, <1>6, <1>7, <1>8, <1>9, CallMoves DEF Making

-----------------------------------------------------------------------------
(* The sweep. *)

(* Steps of the sweep that leave the copies alone, and forget only what no client is
   promised any more. *)
LEMMA SweepMoves ==
  ASSUME RegistryTypeOK, RegistryInv, sweep' \in Sweep, sweep'.pc \notin {"markWrite", "forgetWrite"},
         items' \in [Ids -> Nat], records' \in Records, Unique(records'),
         \A id \in Ids : records'[id] # NoRecord => records[id] # NoRecord,
         told' \subseteq told, \A id \in told' : records'[id] # NoRecord,
         UNCHANGED <<file, copies, call, issued, mixed>>
  PROVE  RegistryTypeOK' /\ RegistryInv'
<1>1. RegistryTypeOK'
  BY DEF RegistryTypeOK
<1>2. UniqueInv'
  BY DEF UniqueInv, RegistryInv
<1>3. CallInv'
  BY DEF CallInv, RegistryInv, Making
<1>4. CopyInv'
  <2>1. ASSUME NEW w \in Writers, Writing(w)' PROVE copies'[w].on
    BY <2>1 DEF Writing, Writers, RegistryInv, CopyInv
  <2>2. ASSUME NEW d \in Callers, call'[d].pc = "create", records'[call'[d].fresh] # NoRecord
        PROVE  copies'[d].of[call'[d].fresh] # NoRecord
    <3>1. call[d].fresh \in Ids
      BY <2>2 DEF RegistryInv, CallInv, Making, RegistryTypeOK, Ids
    <3> QED BY <2>2, <3>1 DEF RegistryInv, CopyInv, Registered
  <2> QED BY <2>1, <2>2 DEF CopyInv, RegistryInv, Registered
<1>5. ToldInv'
  BY DEF RegistryInv, ToldInv, RegisteredIds, Registered, RegistryTypeOK
<1> QED BY <1>1, <1>2, <1>3, <1>4, <1>5 DEF RegistryInv

SweepPc == {"idle", "observe", "mark", "markCopy", "markWrite", "check", "forget", "forgetCopy",
            "forgetWrite", "drop", "orphans", "remove"}

(* The steps that only look (markMissingRoots, sweepWorkspaceState, removeOrphanState),
   delete files, or begin a sweep. *)
LEMMA SweepLooksSafe ==
  ASSUME RegistryTypeOK, RegistryInv, stores \subseteq Ids,
         MarkObserves \/ SweepChecks \/ SweepDrops \/ OrphansListed \/ OrphansRemoved \/ SweepBegins
  PROVE  RegistryTypeOK' /\ RegistryInv'
<1>0. /\ sweep \in Sweep /\ sweep.list \in SUBSET Ids
      /\ records \in Records /\ items \in [Ids -> Nat] /\ Unique(records)
      /\ \A id \in told : records[id] # NoRecord
  BY DEF RegistryTypeOK, RegistryInv, UniqueInv, ToldInv, RegisteredIds, Registered, Sweep
<1>1. sweep' \in Sweep /\ sweep'.pc \notin {"markWrite", "forgetWrite"}
  <2>1. CASE MarkObserves
    <3>1. [id \in Ids |-> Mark(records[id])] \in [Ids -> Marks]
      BY DEF Mark, Marks
    <3> DEFINE marks == [id \in Ids |-> Mark(records[id])]
               s == [sweep EXCEPT !.pc = "mark", !.marks = marks]
    <3> HIDE DEF marks
    <3>2. s \in Sweep /\ s.pc = "mark"
      BY <1>0, <3>1 DEF Sweep, marks
    <3>3. sweep' = s
      BY <2>1 DEF MarkObserves, marks
    <3> QED BY <3>2, <3>3
  <2>2. CASE SweepChecks
    <3> DEFINE free == {id \in sweep.list : ~WorkspaceBusy(id)}
               pc == IF free = {} THEN "orphans" ELSE "forget"
    <3>1. free \in SUBSET Ids /\ pc \in SweepPc /\ pc \notin {"markWrite", "forgetWrite"}
      BY <1>0 DEF SweepPc
    <3>2. sweep' = [sweep EXCEPT !.list = free, !.pc = pc]
      BY <2>2 DEF SweepChecks
    <3> HIDE DEF free, pc
    <3> DEFINE s == [sweep EXCEPT !.list = free, !.pc = pc]
    <3>3. s \in Sweep /\ s.pc = pc
      BY <1>0, <3>1 DEF Sweep, SweepPc
    <3> QED BY <3>1, <3>2, <3>3
  <2>3. CASE SweepDrops
    <3> DEFINE s == [sweep EXCEPT !.pc = "orphans"]
    <3>1. s \in Sweep /\ s.pc = "orphans"
      BY <1>0 DEF Sweep
    <3> QED BY <2>3, <3>1 DEF SweepDrops
  <2>4. CASE OrphansListed
    <3> DEFINE mine == {id \in stores : ~Registered(id)}
    <3>1. mine \in SUBSET Ids
      OBVIOUS
    <3>2. sweep' = [sweep EXCEPT !.pc = "remove", !.list = mine]
      BY <2>4 DEF OrphansListed
    <3> HIDE DEF mine
    <3> DEFINE s == [sweep EXCEPT !.pc = "remove", !.list = mine]
    <3>3. s \in Sweep /\ s.pc = "remove"
      BY <1>0, <3>1 DEF Sweep
    <3> QED BY <3>2, <3>3
  <2>5. CASE OrphansRemoved
    BY <2>5, IdleIsTyped DEF OrphansRemoved, IdleSweep
  <2>6. CASE SweepBegins
    <3> DEFINE s == [IdleSweep EXCEPT !.pc = "observe"]
    <3>1. s \in Sweep /\ s.pc = "observe"
      BY IdleIsTyped DEF Sweep
    <3> QED BY <2>6, <3>1 DEF SweepBegins
  <2> QED BY <2>1, <2>2, <2>3, <2>4, <2>5, <2>6
<1>2. UNCHANGED <<records, items, told, file, copies, call, issued, mixed>>
  BY DEF MarkObserves, SweepChecks, SweepDrops, OrphansListed, OrphansRemoved, SweepBegins
<1> QED BY <1>0, <1>1, <1>2, SweepMoves

(* The marks on the records that are still there (markMissingRoots). *)
LEMMA MarkAppliesSafe ==
  ASSUME RegistryTypeOK, RegistryInv, MarkApplies
  PROVE  RegistryTypeOK' /\ RegistryInv'
<1> DEFINE marks == sweep.marks
           pc == IF \E id \in Ids : marks[id] \in {"first", "clear"} THEN "markCopy" ELSE "check"
           list == {id \in Ids : marks[id] = "expired"}
           s == [sweep EXCEPT !.pc = pc, !.list = list]
<1>1. /\ sweep' = s /\ UNCHANGED <<items, file, copies, call, issued, told, mixed>>
      /\ records' = [id \in Ids |->
           IF Registered(id) /\ marks[id] = "first" THEN [records[id] EXCEPT !.since = "young"]
           ELSE IF Registered(id) /\ marks[id] = "clear" THEN [records[id] EXCEPT !.since = "never"]
           ELSE records[id]]
  BY DEF MarkApplies
<1>2. pc \in {"markCopy", "check"} /\ list \in SUBSET Ids /\ sweep \in Sweep
  BY DEF RegistryTypeOK
<1> HIDE DEF pc, list, marks
<1>3. s \in Sweep /\ s.pc = pc
  BY <1>2 DEF Sweep
<1>4. ASSUME NEW id \in Ids
      PROVE  /\ records'[id] \in Record \cup {NoRecord}
             /\ (records'[id] # NoRecord <=> records[id] # NoRecord)
             /\ (records[id] # NoRecord => records'[id].root = records[id].root)
  <2>1. records[id] \in Record \cup {NoRecord}
    BY DEF RegistryTypeOK, Records
  <2>2. CASE ~Registered(id)
    BY <1>1, <2>1, <2>2 DEF Registered
  <2>3. CASE Registered(id)
    <3>1. records[id] \in Record /\ records[id] # NoRecord
      BY <2>1, <2>3 DEF Registered
    <3>2. records'[id] \in {[records[id] EXCEPT !.since = "young"], [records[id] EXCEPT !.since = "never"], records[id]}
      BY <1>1, <2>3
    <3> QED BY <3>1, <3>2, RecordEffect DEF Record, NoRecord
  <2> QED BY <2>2, <2>3
<1>5. records' \in Records
  BY <1>1, <1>4 DEF Records
<1>6. Unique(records')
  BY <1>4, AlikeUnique DEF Alike, RegistryInv, UniqueInv
<1>7. \A id \in told' : records'[id] # NoRecord
  BY <1>1, <1>4 DEF RegistryInv, ToldInv, RegisteredIds, Registered
<1>8. items' \in [Ids -> Nat] /\ told' \subseteq told
  BY <1>1 DEF RegistryTypeOK
<1> QED BY <1>1, <1>2, <1>3, <1>4, <1>5, <1>6, <1>7, <1>8, SweepMoves

(* Expired workspaces are forgotten (forget). *)
LEMMA SweepForgetsSafe ==
  ASSUME RegistryTypeOK, RegistryInv, SweepForgets
  PROVE  RegistryTypeOK' /\ RegistryInv'
<1> DEFINE s == [sweep EXCEPT !.pc = "forgetCopy"]
<1>1. /\ sweep' = s /\ UNCHANGED <<file, copies, call, issued, mixed>> /\ told' = told \ sweep.list
      /\ records' = [id \in Ids |-> IF id \in sweep.list THEN NoRecord ELSE records[id]]
      /\ items' = [id \in Ids |-> IF id \in sweep.list THEN Closed ELSE items[id]]
  BY DEF SweepForgets
<1>2. sweep \in Sweep
  BY DEF RegistryTypeOK
<1>3. s \in Sweep /\ s.pc = "forgetCopy"
  BY <1>2 DEF Sweep
<1>4. records' \in Records /\ items' \in [Ids -> Nat]
  BY <1>1 DEF RegistryTypeOK, Records, Closed
<1>5. \A id \in Ids : records'[id] # NoRecord => records'[id] = records[id]
  BY <1>1
<1>6. Unique(records')
  BY <1>5 DEF Unique, RegistryInv, UniqueInv
<1>7. \A id \in told' : records'[id] # NoRecord
  BY <1>1 DEF RegistryInv, ToldInv, RegisteredIds, Registered
<1> QED BY <1>1, <1>3, <1>4, <1>5, <1>6, <1>7, SweepMoves

(* The sweep takes its copy of the records (persist). *)
LEMMA SweepCopiesSafe ==
  ASSUME RegistryTypeOK, RegistryInv, SweepCopies
  PROVE  RegistryTypeOK' /\ RegistryInv'
<1> DEFINE pc == IF sweep.pc = "markCopy" THEN "markWrite" ELSE "forgetWrite"
           s == [sweep EXCEPT !.pc = pc]
<1>0. /\ PersistCopy(Sweeper) /\ sweep' = s
      /\ UNCHANGED <<items, file, call, issued, told, mixed>>
  BY DEF SweepCopies
<1>1. pc \in {"markWrite", "forgetWrite"} /\ sweep \in Sweep
  BY DEF RegistryTypeOK
<1> HIDE DEF pc
<1>2. s \in Sweep
  BY <1>1 DEF Sweep
<1>3. /\ records' \in Records /\ Unique(records')
      /\ \A id \in Ids : records'[id] # NoRecord <=> records[id] # NoRecord
      /\ copies' \in [Writers -> Copy]
      /\ \A v \in Writers : Unique(copies'[v].of)
      /\ copies'[Sweeper].on /\ copies'[Sweeper].of = records'
      /\ copies'[Sweeper].solo => \A v \in Writers \ {Sweeper} : ~copies[v].on
      /\ \A v \in Writers \ {Sweeper} : copies'[v].on = copies[v].on /\ copies'[v].of = copies[v].of /\ ~copies'[v].solo
  BY <1>0, CopyEffect DEF Writers
<1>4. \A id \in told : id \in Ids /\ records'[id] # NoRecord
  BY <1>3 DEF RegistryInv, ToldInv, RegisteredIds, Registered
<1>5. RegistryTypeOK'
  BY <1>0, <1>2, <1>3 DEF RegistryTypeOK
<1>6. UniqueInv'
  BY <1>0, <1>3 DEF UniqueInv, RegistryInv
<1>7. CallInv'
  BY <1>0 DEF CallInv, RegistryInv, Making
<1>8. CopyInv'
  <2>1. ASSUME NEW w \in Writers, Writing(w)' PROVE copies'[w].on
    <3>1. CASE w = Sweeper BY <1>3, <3>1
    <3>2. CASE w # Sweeper
      BY <1>0, <1>3, <2>1, <3>2 DEF Writing, RegistryInv, CopyInv
    <3> QED BY <3>1, <3>2
  <2>2. ASSUME NEW w \in Writers, copies'[w].on, copies'[w].solo
        PROVE  /\ \A v \in Writers \ {w} : ~copies'[v].on
               /\ \A id \in told' : copies'[w].of[id] # NoRecord
    <3>1. w = Sweeper
      BY <1>3, <2>2
    <3> QED BY <1>0, <1>3, <1>4, <2>2, <3>1
  <2>3. ASSUME NEW d \in Callers, call'[d].pc = "create", records'[call'[d].fresh] # NoRecord
        PROVE  copies'[d].of[call'[d].fresh] # NoRecord
    <3>1. call'[d] = call[d] /\ d \in Writers \ {Sweeper}
      BY <1>0 DEF Writers
    <3>2. call[d].fresh \in Ids
      BY <2>3, <3>1 DEF RegistryInv, CallInv, Making, RegistryTypeOK, Ids
    <3>3. records[call[d].fresh] # NoRecord
      BY <1>3, <2>3, <3>1, <3>2
    <3> QED BY <1>3, <2>3, <3>1, <3>3 DEF RegistryInv, CopyInv, Registered
  <2> QED BY <2>1, <2>2, <2>3 DEF CopyInv, Registered
<1>9. ToldInv'
  BY <1>0, <1>4 DEF ToldInv, RegistryInv, RegisteredIds, Registered
<1> QED BY <1>5, <1>6, <1>7, <1>8, <1>9 DEF RegistryInv

(* The sweep writes its copy (persist). *)
LEMMA SweepWritesSafe ==
  ASSUME RegistryTypeOK, RegistryInv, NEW ok \in BOOLEAN, MarkWrites(ok) \/ ForgetWrites(ok)
  PROVE  RegistryTypeOK' /\ RegistryInv'
<1>0. /\ PersistWrite(Sweeper, ok) /\ UNCHANGED <<records, items, call, issued, told>>
      /\ sweep.pc \in {"markWrite", "forgetWrite"}
  BY DEF MarkWrites, ForgetWrites, SweepAt
<1>1. sweep' \in Sweep /\ sweep'.pc \notin {"markWrite", "forgetWrite"}
  <2>1. sweep \in Sweep
    BY DEF RegistryTypeOK
  <2>2. [sweep EXCEPT !.pc = "check"] \in Sweep /\ [sweep EXCEPT !.pc = "check"].pc = "check"
    BY <2>1 DEF Sweep
  <2>3. [sweep EXCEPT !.pc = "drop"] \in Sweep /\ [sweep EXCEPT !.pc = "drop"].pc = "drop"
    BY <2>1 DEF Sweep
  <2>4. IdleSweep \in Sweep /\ IdleSweep.pc = "idle"
    BY IdleIsTyped DEF IdleSweep
  <2>5. sweep' \in {[sweep EXCEPT !.pc = "check"], [sweep EXCEPT !.pc = "drop"], IdleSweep}
    BY DEF MarkWrites, ForgetWrites
  <2> QED BY <2>2, <2>3, <2>4, <2>5
<1>2. Sweeper \in Writers /\ Writing(Sweeper)
  BY <1>0 DEF Writing, Writers
<1>3. /\ file' \in Records /\ Unique(file') /\ mixed' \in BOOLEAN
      /\ copies' \in [Writers -> Copy] /\ ~copies'[Sweeper].on
      /\ \A v \in Writers : Unique(copies'[v].of)
      /\ \A v \in Writers \ {Sweeper} : copies'[v] = copies[v] /\ ~(copies[v].on /\ copies[v].solo)
      /\ ~mixed' => \A id \in told : file'[id] # NoRecord
  BY <1>0, <1>2, WriteEffect
<1>4. RegistryTypeOK'
  BY <1>0, <1>1, <1>3 DEF RegistryTypeOK
<1>5. UniqueInv'
  BY <1>0, <1>3 DEF UniqueInv, RegistryInv
<1>6. CallInv'
  BY <1>0 DEF CallInv, RegistryInv, Making
<1>7. CopyInv'
  <2>1. ASSUME NEW w \in Writers, Writing(w)' PROVE copies'[w].on
    <3>1. w # Sweeper /\ Writing(w)
      BY <1>0, <1>1, <2>1 DEF Writing
    <3> QED BY <1>3, <3>1 DEF RegistryInv, CopyInv
  <2>2. \A w \in Writers : ~(copies'[w].on /\ copies'[w].solo)
    BY <1>3
  <2>3. \A d \in Callers : d \in Writers \ {Sweeper}
    BY DEF Writers
  <2>4. \A d \in Callers : call'[d].pc = "create" /\ records'[call'[d].fresh] # NoRecord => copies'[d].of[call'[d].fresh] # NoRecord
    BY <1>0, <1>3, <2>3 DEF RegistryInv, CopyInv, Registered
  <2> QED BY <2>1, <2>2, <2>4 DEF CopyInv, Registered
<1>8. ToldInv'
  BY <1>0, <1>3 DEF ToldInv, RegistryInv, RegisteredIds, Registered
<1> QED BY <1>4, <1>5, <1>6, <1>7, <1>8 DEF RegistryInv

-----------------------------------------------------------------------------
(* Restarts, and the world. *)

(* A service that starts has the records of its file (load). *)
LEMMA LoadSafe ==
  ASSUME RegistryTypeOK, RegistryInv, Load
  PROVE  RegistryTypeOK' /\ RegistryInv'
<1> DEFINE s == [IdleSweep EXCEPT !.pc = "observe"]
<1>1. /\ records' = file /\ items' = [id \in Ids |-> Closed] /\ UNCHANGED <<file, issued, mixed>>
      /\ copies' = [w \in Writers |-> NoCopy] /\ call' = [c \in Callers |-> IdleCall] /\ sweep' = s
      /\ told' = IF mixed THEN {} ELSE told
  BY DEF Load
<1>2. s \in Sweep /\ s.pc = "observe"
  BY IdleIsTyped DEF Sweep
<1>3. \A id \in told' : id \in told /\ file[id] # NoRecord
  BY <1>1 DEF RegistryInv, ToldInv
<1>4. RegistryTypeOK'
  BY <1>1, <1>2, EmptyIsRecords, IdleIsTyped DEF RegistryTypeOK, Closed
<1>5. UniqueInv'
  BY <1>1, EmptyIsRecords DEF UniqueInv, RegistryInv
<1>6. \A c \in Callers : call'[c] = IdleCall /\ IdleCall.pc = "idle"
  BY <1>1 DEF IdleCall
<1>7. CallInv'
  BY <1>6 DEF CallInv, Making
<1>8. \A w \in Writers : ~copies'[w].on
  BY <1>1, EmptyIsRecords
<1>9. \A w \in Writers : ~Writing(w)'
  BY <1>2, <1>1, <1>6 DEF Writing, Writers
<1>10. CopyInv'
  BY <1>6, <1>8, <1>9 DEF CopyInv
<1>11. ToldInv'
  BY <1>1, <1>3 DEF ToldInv, RegistryInv, RegisteredIds, Registered, RegistryTypeOK
<1> QED BY <1>4, <1>5, <1>7, <1>10, <1>11 DEF RegistryInv

(* Opening what a crash left unfinished leaves the records (openPending). *)
LEMMA OpenPendingSafe ==
  ASSUME RegistryTypeOK, RegistryInv, OpenPending
  PROVE  RegistryTypeOK' /\ RegistryInv'
<1>1. UNCHANGED <<records, file, copies, call, sweep, issued, told, mixed>>
  BY DEF OpenPending
<1>2. items' \in [Ids -> Nat]
  <2>1. \A id \in RegisteredIds : id \in Ids /\ records[id].seq \in Nat
    BY DEF RegisteredIds, Registered, RegistryTypeOK, Records, Record
  <2> QED BY <2>1 DEF OpenPending, RegistryTypeOK
<1>3. RegistryTypeOK'
  BY <1>1, <1>2 DEF RegistryTypeOK
<1>4. RegistryInv'
  BY <1>1 DEF RegistryInv, UniqueInv, CallInv, Making, CopyInv, Writing, ToldInv, RegisteredIds, Registered
<1> QED BY <1>3, <1>4

(* Steps that touch nothing the registry's invariant is about. *)
LEMMA RegistryStutters ==
  ASSUME RegistryTypeOK, RegistryInv, UNCHANGED <<records, items, file, copies, call, sweep, issued, told, mixed>>
  PROVE  RegistryTypeOK' /\ RegistryInv'
BY DEF RegistryTypeOK, RegistryInv, UniqueInv, CallInv, Making, CopyInv, Writing, ToldInv, RegisteredIds, Registered

(* The grace period passes for every record there is, in memory and on disk. *)
LEMMA AgeSafe ==
  ASSUME RegistryTypeOK, RegistryInv, Age
  PROVE  RegistryTypeOK' /\ RegistryInv'
<1>1. /\ records' = Aged(records) /\ file' = Aged(file)
      /\ copies' = [w \in Writers |-> [copies[w] EXCEPT !.of = Aged(copies[w].of)]]
      /\ UNCHANGED <<items, call, sweep, issued, told, mixed>>
  BY DEF Age
<1>2. records \in Records /\ file \in Records /\ \A w \in Writers : copies[w] \in Copy /\ copies[w].of \in Records
  BY DEF RegistryTypeOK, Copy
<1>3. /\ records' \in Records /\ file' \in Records /\ Alike(records, records') /\ Alike(file, file')
      /\ \A w \in Writers : Aged(copies[w].of) \in Records /\ Alike(copies[w].of, Aged(copies[w].of))
  BY <1>1, <1>2, AgedAlike
<1>4. ASSUME NEW w \in Writers
      PROVE  /\ copies'[w] \in Copy /\ copies'[w].on = copies[w].on /\ copies'[w].solo = copies[w].solo
             /\ copies'[w].of = Aged(copies[w].of)
  <2> DEFINE of == Aged(copies[w].of)
             k == [copies[w] EXCEPT !.of = of]
  <2>0. copies'[w] = k
    BY <1>1
  <2>1. of \in Records /\ copies[w] \in Copy
    BY <1>2, <1>3
  <2> HIDE DEF of
  <2>2. k \in Copy
    BY <2>1 DEF Copy
  <2>3. k.on = copies[w].on
    BY <2>1 DEF Copy
  <2>4. k.solo = copies[w].solo
    BY <2>1 DEF Copy
  <2>5. k.of = of
    BY <2>1 DEF Copy
  <2> HIDE DEF k
  <2> QED BY <2>0, <2>2, <2>3, <2>4, <2>5 DEF of
<1>5. copies' \in [Writers -> Copy]
  <2>1. copies' = [w \in Writers |-> copies'[w]]
    BY <1>1
  <2> QED BY <1>4, <2>1
<1>6. RegistryTypeOK'
  BY <1>1, <1>3, <1>5 DEF RegistryTypeOK
<1>7. Unique(records') /\ Unique(file')
  BY <1>3, AlikeUnique DEF RegistryInv, UniqueInv
<1>8. ASSUME NEW w \in Writers PROVE Unique(copies'[w].of)
  BY <1>3, <1>4, AlikeUnique DEF RegistryInv, UniqueInv
<1>9. UniqueInv'
  BY <1>7, <1>8 DEF UniqueInv
<1>10. CallInv'
  BY <1>1 DEF CallInv, RegistryInv, Making
<1>11. ASSUME NEW id \in Ids
       PROVE  /\ records'[id] # NoRecord <=> records[id] # NoRecord
              /\ file'[id] # NoRecord <=> file[id] # NoRecord
              /\ \A w \in Writers : copies'[w].of[id] # NoRecord <=> copies[w].of[id] # NoRecord
  BY <1>3, <1>4 DEF Alike
<1>12. told \subseteq Ids /\ \A c \in Callers : call[c].pc = "create" => call[c].fresh \in Ids
  BY DEF RegistryInv, CallInv, Making, RegistryTypeOK, Ids
<1>13. CopyInv'
  <2>1. ASSUME NEW w \in Writers, Writing(w)' PROVE copies'[w].on
    BY <1>1, <1>4, <2>1 DEF Writing, RegistryInv, CopyInv
  <2>2. ASSUME NEW w \in Writers, copies'[w].on, copies'[w].solo
        PROVE  /\ \A v \in Writers \ {w} : ~copies'[v].on
               /\ \A id \in told' : copies'[w].of[id] # NoRecord
    <3>1. copies[w].on /\ copies[w].solo
      BY <1>4, <2>2
    <3> QED BY <1>1, <1>4, <1>11, <1>12, <3>1 DEF RegistryInv, CopyInv
  <2>3. ASSUME NEW d \in Callers, call'[d].pc = "create", records'[call'[d].fresh] # NoRecord
        PROVE  copies'[d].of[call'[d].fresh] # NoRecord
    <3>1. d \in Writers /\ call'[d] = call[d] /\ call[d].fresh \in Ids
      BY <1>1, <1>12, <2>3 DEF Writers
    <3> QED BY <1>11, <2>3, <3>1 DEF RegistryInv, CopyInv, Registered
  <2> QED BY <2>1, <2>2, <2>3 DEF CopyInv, Registered
<1>14. ToldInv'
  BY <1>1, <1>11, <1>12 DEF ToldInv, RegistryInv, RegisteredIds, Registered
<1> QED BY <1>6, <1>9, <1>10, <1>13, <1>14 DEF RegistryInv

(* A call that is refused, or whose answer is written, is of no more consequence. *)
LEMMA CallRests ==
  ASSUME RegistryTypeOK, RegistryInv, NEW c \in Callers,
         NEW r \in Call, r.pc \in {"idle", "done"}, Becomes(c, r),
         UNCHANGED <<records, items, file, copies, sweep, issued, told, mixed>>
  PROVE  RegistryTypeOK' /\ RegistryInv'
<1>1. call' \in [Callers -> Call] /\ OnlyCall(c) /\ call'[c] = r
  BY BecomesEffect
<1>2. records' \in Records /\ Unique(records') /\ issued' \in 0..MaxIds /\ issued <= issued' /\ items' \in [Ids -> Nat]
  BY DEF RegistryTypeOK, RegistryInv, UniqueInv
<1> QED BY <1>1, <1>2, CallMoves DEF Making

-----------------------------------------------------------------------------
(* The proxy: queues of frames. *)

(* A frame at the end of a queue. *)
LEMMA AppendPlaces ==
  ASSUME NEW S, NEW q \in Seq(S), NEW f \in S
  PROVE  /\ Append(q, f) \in Seq(S)
         /\ \A g : In(g, Append(q, f)) <=> In(g, q) \/ g = f
         /\ Once(q) /\ ~In(f, q) => Once(Append(q, f))
<1>1. Append(q, f) \in Seq(S) /\ Len(q) \in Nat /\ Len(Append(q, f)) = Len(q) + 1
  OBVIOUS
<1>2. DOMAIN Append(q, f) = 1..(Len(q) + 1) /\ DOMAIN q = 1..Len(q)
  BY <1>1
<1>3. \A i \in 1..Len(q) : Append(q, f)[i] = q[i]
  OBVIOUS
<1>4. Append(q, f)[Len(q) + 1] = f
  OBVIOUS
<1>5. \A i \in DOMAIN Append(q, f) : i \in DOMAIN q \/ i = Len(q) + 1
  BY <1>1, <1>2
<1>6. \A i \in DOMAIN q : i \in DOMAIN Append(q, f) /\ Append(q, f)[i] = q[i]
  BY <1>1, <1>2, <1>3
<1>7. Len(q) + 1 \in DOMAIN Append(q, f)
  BY <1>1, <1>2
<1>8. \A g : In(g, Append(q, f)) <=> In(g, q) \/ g = f
  BY <1>4, <1>5, <1>6, <1>7 DEF In
<1>9. ASSUME Once(q), ~In(f, q) PROVE Once(Append(q, f))
  BY <1>4, <1>5, <1>6, <1>9 DEF In, Once
<1> QED BY <1>1, <1>8, <1>9

(* The rest of a queue. *)
LEMMA TailPlaces ==
  ASSUME NEW S, NEW q \in Seq(S), q # << >>, Once(q)
  PROVE  /\ Head(q) \in S /\ Tail(q) \in Seq(S) /\ In(Head(q), q)
         /\ \A g : In(g, Tail(q)) <=> In(g, q) /\ g # Head(q)
         /\ Once(Tail(q))
<1>1. Len(q) \in Nat /\ Len(q) >= 1 /\ Head(q) = q[1] /\ Head(q) \in S /\ Tail(q) \in Seq(S) /\ Len(Tail(q)) = Len(q) - 1
  OBVIOUS
<1>2. DOMAIN Tail(q) = 1..(Len(q) - 1) /\ DOMAIN q = 1..Len(q)
  BY <1>1
<1>3. \A i \in DOMAIN Tail(q) : i + 1 \in DOMAIN q /\ Tail(q)[i] = q[i + 1] /\ i + 1 # 1
  BY <1>1, <1>2
<1>4. \A i \in DOMAIN q : i # 1 => i - 1 \in DOMAIN Tail(q) /\ Tail(q)[i - 1] = q[i]
  BY <1>1, <1>2
<1>5. 1 \in DOMAIN q /\ q[1] = Head(q)
  BY <1>1, <1>2
<1>6. \A g : In(g, Tail(q)) => In(g, q) /\ g # Head(q)
  BY <1>3, <1>5 DEF In, Once
<1>7. \A g : In(g, q) /\ g # Head(q) => In(g, Tail(q))
  BY <1>4, <1>5 DEF In
<1>8. Once(Tail(q))
  <2>1. ASSUME NEW i \in DOMAIN Tail(q), NEW j \in DOMAIN Tail(q), Tail(q)[i] = Tail(q)[j] PROVE i = j
    <3>1. i + 1 = j + 1
      BY <1>3, <2>1 DEF Once
    <3> QED BY <1>2, <3>1
  <2> QED BY <2>1 DEF Once
<1> QED BY <1>1, <1>5, <1>6, <1>7, <1>8 DEF In

(* The frames of a finite set in any order (Orders). *)
LEMMA OrderPlaces ==
  ASSUME NEW S, IsFiniteSet(S), NEW order \in Orders(S)
  PROVE  /\ order \in Seq(S) /\ Once(order)
         /\ \A g : In(g, order) <=> g \in S
<1>1. Cardinality(S) \in Nat
  BY FS_CardinalityType
<1>2. order \in [1..Cardinality(S) -> S]
  BY DEF Orders
<1>3. order \in Seq(S)
  BY <1>1, <1>2
<1> QED BY <1>2, <1>3 DEF Orders, Once, In

-----------------------------------------------------------------------------
(* The steps of the proxy and of the service's end of its connection. *)

(* What the types say of the parts. *)
LEMMA ProxyParts ==
  ASSUME ProxyTypeOK
  PROVE  /\ client.sent \in SUBSET Sendable /\ client.answers \in [Frames -> Nat]
         /\ proxy.outstanding \in SUBSET Frames
         /\ link.up \in Seq(Sendable) /\ link.down \in Seq(Frames) /\ link.running \in SUBSET Requests
         /\ link.session \in {"new", "greeted", "ready"}
         /\ proxy.pc \in {"forward", "dial", "reinitialize", "ended"}
BY DEF ProxyTypeOK, Client, McpProxy, Link

(* The notification is neither a request nor the handshake. *)
LEMMA FramesDiffer ==
  /\ InitializeID \in Frames /\ InitializeID \notin Requests /\ InitializeID # Initialized
  /\ Initialized \notin Frames /\ Requests \subseteq Frames /\ Frames \subseteq Sendable
  /\ Sendable = Frames \cup {Initialized}
BY DEF Frames, Sendable, InitializeID, Initialized

(* A frame has been sent before it is on a connection that is forwarded. *)
LEMMA FreshFrame ==
  ASSUME ProxyTypeOK, ProxyInv, proxy.pc = "forward", NEW f \in Sendable, f \notin client.sent
  PROVE  ~OnLink(f) /\ (f \in Frames => client.answers[f] = 0)
<1>1. CASE f = Initialized
  <2>1. f \notin link.running /\ ~In(f, link.down)
    BY <1>1, ProxyParts, FramesDiffer DEF In
  <2> QED BY <1>1, <2>1, FramesDiffer DEF OnLink, ProxyInv, OnceInv
<1>2. CASE f # Initialized
  <2>1. f \in Frames
    BY <1>2, FramesDiffer
  <2>2. f \notin proxy.outstanding
    BY <2>1 DEF ProxyInv, ClientInv
  <2>3. client.answers[f] \in Nat /\ client.answers[f] <= 1 /\ client.answers[f] # 1
    BY <2>1, ProxyParts DEF ProxyInv, ClientInv
  <2> QED BY <2>1, <2>2, <2>3 DEF ProxyInv, ForwardInv
<1> QED BY <1>1, <1>2

(* A frame of the client is recorded and written (forwardClient). *)
LEMMA ForwardClientSafe ==
  ASSUME ProxyTypeOK, ProxyInv, NEW f \in Sendable, NEW outcome \in {"written", "failed", "lost"},
         ForwardClient(f, outcome)
  PROVE  ProxyTypeOK' /\ ProxyInv'
<1> DEFINE sent == client.sent \cup {f}
           out == proxy.outstanding \cup ({f} \ {Initialized})
           note == (proxy.note \/ f = Initialized)
           pc == IF outcome = "failed" THEN "dial" ELSE "forward"
           up == IF outcome = "written" THEN Append(link.up, f) ELSE link.up
<1>1. /\ proxy.pc = "forward" /\ Ready(f) /\ (outcome = "written" <=> link.open) /\ f \notin client.sent
      /\ client' = [client EXCEPT !.sent = sent]
      /\ proxy' = [proxy EXCEPT !.outstanding = out, !.note = note, !.pc = pc]
      /\ link' = IF outcome = "written" THEN [link EXCEPT !.up = Append(link.up, f)] ELSE link
  BY DEF ForwardClient, Ready
<1>2. sent \in SUBSET Sendable /\ out \in SUBSET Frames /\ note \in BOOLEAN /\ pc \in {"dial", "forward"}
  BY ProxyParts, FramesDiffer
<1>3. up \in Seq(Sendable)
  BY ProxyParts
<1> HIDE DEF sent, out, note, pc, up
<1>4. client' \in Client /\ client'.sent = sent /\ client'.answers = client.answers
  BY <1>1, <1>2 DEF ProxyTypeOK, Client
<1>5. proxy' \in McpProxy
  BY <1>1, <1>2 DEF ProxyTypeOK, McpProxy
<1>6. proxy'.outstanding = out /\ proxy'.pc = pc /\ proxy'.note = note /\ proxy'.initialized = proxy.initialized
  BY <1>1, <1>2 DEF ProxyTypeOK, McpProxy
<1>7. link' \in Link
  BY <1>1, <1>3 DEF ProxyTypeOK, Link, up
<1>8. /\ link'.up = up /\ link'.down = link.down /\ link'.open = link.open
      /\ link'.session = link.session /\ link'.running = link.running
  BY <1>1 DEF ProxyTypeOK, Link, up
<1>9. ~OnLink(f) /\ (f \in Frames => client.answers[f] = 0)
  BY <1>1, FreshFrame
<1>10. ClientInv'
  <2>1. \A g \in Frames : client'.answers[g] <= 1 /\ (client'.answers[g] = 1 => g \in client'.sent)
    BY <1>4 DEF ProxyInv, ClientInv, sent
  <2>2. proxy'.outstanding = {g \in Frames : g \in client'.sent /\ client'.answers[g] = 0}
    BY <1>4, <1>6, <1>9, FramesDiffer DEF ProxyInv, ClientInv, sent, out
  <2>3. IsFiniteSet(out)
    <3>1. IsFiniteSet({f} \ {Initialized})
      BY FS_Singleton, FS_Subset
    <3> QED BY <3>1, FS_Union DEF ProxyInv, ClientInv, out
  <2>4. proxy'.initialized <=> client'.answers[InitializeID] = 1
    BY <1>4, <1>6 DEF ProxyInv, ClientInv
  <2>5. proxy'.note <=> Initialized \in client'.sent
    BY <1>4, <1>6 DEF ProxyInv, ClientInv, sent, note
  <2>6. client.answers[InitializeID] \in Nat /\ client.answers[InitializeID] <= 1
    BY ProxyParts, FramesDiffer DEF ProxyInv, ClientInv
  <2>7. Initialized \in client'.sent => client'.answers[InitializeID] = 1
    BY <1>1, <1>4, <2>6 DEF Ready, ProxyInv, ClientInv, sent
  <2>8. Requests \cap client'.sent # {} => Initialized \in client'.sent
    BY <1>1, <1>4 DEF Ready, ProxyInv, ClientInv, sent
  <2> QED BY <1>6, <2>1, <2>2, <2>3, <2>4, <2>5, <2>7, <2>8 DEF ClientInv
<1>11. CASE outcome = "written"
  <2>1. up = Append(link.up, f) /\ link.open /\ pc = "forward"
    BY <1>1, <1>11 DEF up, pc
  <2>2. /\ \A g : In(g, up) <=> In(g, link.up) \/ g = f
        /\ Once(link.up) /\ ~In(f, link.up) => Once(up)
    BY <2>1, ProxyParts, AppendPlaces
  <2>3. ~In(f, link.up) /\ ~In(f, link.down) /\ f \notin link.running
    BY <1>9 DEF OnLink
  <2>4. OnceInv'
    BY <1>4, <1>8, <2>2, <2>3 DEF OnceInv, ProxyInv, sent
  <2>5. \A g : OnLink(g)' <=> OnLink(g) \/ g = f
    BY <1>8, <2>2 DEF OnLink
  <2>6. ForwardInv'
    <3>1. \A g \in Frames : OnLink(g)' => g \in proxy'.outstanding
      BY <1>1, <1>6, <2>5, FramesDiffer DEF ProxyInv, ForwardInv, out
    <3>2. \A g \in proxy'.outstanding : OnLink(g)'
      BY <1>1, <1>6, <2>1, <2>5 DEF ProxyInv, ForwardInv, out
    <3>n. PICK n \in Nat : n = Len(link.up)
      BY ProxyParts
    <3>3. Len(up) = n + 1 /\ up[n + 1] = f /\ \A i \in 1..n : up[i] = link.up[i]
      BY <2>1, <3>n, ProxyParts
    <3>4. ASSUME NEW m \in 0..n, Greeted(m) PROVE Greeted(m)'
      BY <1>8, <3>3, <3>4 DEF Greeted
    <3>5. Initialized \in client.sent => Greeted(n)'
      BY <1>1, <2>1, <3>n, <3>4 DEF ProxyInv, ForwardInv
    <3>6. Initialized \in client'.sent => Greeted(n + 1)'
      <4>1. CASE f = Initialized
        BY <1>8, <3>3, <4>1 DEF Greeted
      <4>2. CASE f # Initialized
        BY <1>4, <3>5, <4>2 DEF sent, Greeted
      <4> QED BY <4>1, <4>2
    <3>7. Initialized \in client'.sent => Greeted(Len(link.up))'
      BY <1>8, <3>3, <3>6
    <3>8. ASSUME NEW i \in 1..(n + 1), link'.up[i] \in Requests
          PROVE  Greeted(i - 1)'
      <4>1. CASE i = n + 1
        <5>1. f \in Requests /\ Initialized \in client.sent
          BY <1>1, <1>8, <3>3, <3>8, <4>1 DEF Ready
        <5> QED BY <3>5, <4>1, <5>1
      <4>2. CASE i # n + 1
        <5>1. i \in 1..n /\ i - 1 \in 0..n /\ link.up[i] \in Requests
          BY <1>8, <3>3, <3>8, <4>2
        <5>2. Greeted(i - 1)
          BY <1>1, <3>n, <5>1 DEF ProxyInv, ForwardInv
        <5> QED BY <3>4, <5>1, <5>2
      <4> QED BY <4>1, <4>2
    <3>9. Len(link'.up) = n + 1
      BY <1>8, <3>3
    <3> QED BY <1>1, <1>8, <3>1, <3>2, <3>7, <3>8, <3>9 DEF ForwardInv, ProxyInv
  <2>7. DialInv'
    BY <1>6, <1>8, <2>1 DEF DialInv
  <2> QED BY <1>4, <1>5, <1>7, <1>10, <2>4, <2>6, <2>7 DEF ProxyInv, ProxyTypeOK
<1>12. CASE outcome # "written"
  <2>1. link' = link /\ ~link.open
    BY <1>1, <1>12
  <2>2. link.up = << >> /\ link.running = {}
    BY <2>1 DEF ProxyInv, DialInv
  <2>3. OnceInv'
    BY <1>4, <2>1 DEF OnceInv, ProxyInv, sent
  <2>4. ForwardInv'
    <3>1. \A g \in Frames : OnLink(g)' => g \in proxy'.outstanding
      BY <1>1, <1>6, <2>1 DEF ProxyInv, ForwardInv, out, OnLink
    <3>2. Len(link.up) = 0
      BY <2>2
    <3> QED BY <2>1, <2>2, <3>1, <3>2 DEF ForwardInv
  <2>5. DialInv'
    BY <1>2, <1>6, <2>1, <2>2 DEF DialInv
  <2> QED BY <1>4, <1>5, <1>7, <1>10, <2>3, <2>4, <2>5 DEF ProxyInv, ProxyTypeOK
<1> QED BY <1>11, <1>12

(* An answer settles its request and goes to the client (forwardBackend). *)
LEMMA ForwardAnswerSafe ==
  ASSUME ProxyTypeOK, ProxyInv, ForwardAnswer
  PROVE  ProxyTypeOK' /\ ProxyInv'
<1> DEFINE f == Head(link.down)
           out == proxy.outstanding \ {f}
           initialized == (proxy.initialized \/ f = InitializeID)
           answers == [client.answers EXCEPT ![f] = client.answers[f] + 1]
<1>1. /\ proxy.pc = "forward" /\ link.down # << >>
      /\ client' = [client EXCEPT !.answers = answers]
      /\ proxy' = [proxy EXCEPT !.outstanding = out, !.initialized = initialized]
      /\ link' = [link EXCEPT !.down = Tail(link.down)]
  BY DEF ForwardAnswer
<1>2. /\ f \in Frames /\ Tail(link.down) \in Seq(Frames) /\ In(f, link.down)
      /\ \A g : In(g, Tail(link.down)) <=> In(g, link.down) /\ g # f
      /\ Once(Tail(link.down))
  BY <1>1, ProxyParts, TailPlaces DEF ProxyInv, OnceInv
<1>3. f \in proxy.outstanding /\ client.answers[f] = 0 /\ f \in client.sent
  BY <1>1, <1>2 DEF ProxyInv, ForwardInv, ClientInv, OnLink
<1>4. answers \in [Frames -> Nat] /\ out \in SUBSET Frames /\ initialized \in BOOLEAN
  <2>1. client.answers \in [Frames -> Nat] /\ proxy.outstanding \in SUBSET Frames
    BY ProxyParts
  <2>2. client.answers[f] + 1 \in Nat
    BY <1>2, <2>1
  <2>3. answers \in [Frames -> Nat]
    BY <1>2, <2>1, <2>2
  <2>4. initialized \in BOOLEAN
    BY DEF ProxyTypeOK, McpProxy
  <2> QED BY <2>1, <2>3, <2>4
<1>5. \A g \in Frames : answers[g] = IF g = f THEN 1 ELSE client.answers[g]
  BY <1>2, <1>3, ProxyParts
<1> HIDE DEF f, out, initialized, answers
<1>6. client' \in Client /\ client'.sent = client.sent /\ client'.answers = answers
  BY <1>1, <1>4 DEF ProxyTypeOK, Client
<1>7. proxy' \in McpProxy
  BY <1>1, <1>4 DEF ProxyTypeOK, McpProxy
<1>8. proxy'.outstanding = out /\ proxy'.pc = proxy.pc /\ proxy'.note = proxy.note /\ proxy'.initialized = initialized
  BY <1>1, <1>4 DEF ProxyTypeOK, McpProxy
<1>9. link' \in Link
  BY <1>1, <1>2 DEF ProxyTypeOK, Link
<1>10. /\ link'.up = link.up /\ link'.down = Tail(link.down) /\ link'.open = link.open
       /\ link'.session = link.session /\ link'.running = link.running
  BY <1>1 DEF ProxyTypeOK, Link
<1>11. ClientInv'
  <2>1. \A g \in Frames : client'.answers[g] <= 1 /\ (client'.answers[g] = 1 => g \in client'.sent)
    BY <1>3, <1>5, <1>6 DEF ProxyInv, ClientInv
  <2>2. proxy'.outstanding = {g \in Frames : g \in client'.sent /\ client'.answers[g] = 0}
    BY <1>3, <1>5, <1>6, <1>8 DEF ProxyInv, ClientInv, out
  <2>3. IsFiniteSet(out)
    BY FS_Subset DEF ProxyInv, ClientInv, out
  <2>4. proxy'.initialized <=> client'.answers[InitializeID] = 1
    BY <1>5, <1>6, <1>8, FramesDiffer DEF ProxyInv, ClientInv, initialized
  <2>5. Initialized \in client'.sent => client'.answers[InitializeID] = 1
    BY <1>5, <1>6, FramesDiffer DEF ProxyInv, ClientInv
  <2> QED BY <1>6, <1>8, <2>1, <2>2, <2>3, <2>4, <2>5 DEF ClientInv, ProxyInv
<1>12. OnceInv'
  BY <1>2, <1>6, <1>10 DEF OnceInv, ProxyInv
<1>13. ForwardInv'
  <2>1. \A g \in Frames : OnLink(g)' <=> OnLink(g) /\ g # f
    BY <1>2, <1>10, FramesDiffer DEF OnLink, ProxyInv, OnceInv
  <2>2. \A n : Greeted(n)' <=> Greeted(n)
    BY <1>10 DEF Greeted
  <2>3. \A g \in Frames : OnLink(g)' => g \in proxy'.outstanding
    BY <1>1, <1>8, <2>1 DEF ProxyInv, ForwardInv, out
  <2>4. link'.open => \A g \in proxy'.outstanding : OnLink(g)'
    BY <1>1, <1>8, <1>10, <2>1, ProxyParts DEF ProxyInv, ForwardInv, out
  <2>5. PICK n \in Nat : n = Len(link.up)
    BY ProxyParts
  <2> QED BY <1>1, <1>6, <1>10, <2>2, <2>3, <2>4 DEF ForwardInv, ProxyInv, Greeted
<1>14. DialInv'
  BY <1>1, <1>8, <1>10 DEF DialInv, ProxyInv
<1> QED BY <1>6, <1>7, <1>9, <1>11, <1>12, <1>13, <1>14 DEF ProxyInv, ProxyTypeOK

(* The proxy gives a connection up, or everything (forwardBackend, reinitialize,
   connect). *)
LEMMA ProxyLetsGo ==
  ASSUME ProxyTypeOK, ProxyInv, NEW listening,
         BackendLost \/ ReinitializeFails \/ ConnectTimesOut(listening)
  PROVE  ProxyTypeOK' /\ ProxyInv'
<1>1. PICK pc \in {"dial", "ended"} : proxy' = [proxy EXCEPT !.pc = pc]
  BY DEF BackendLost, ReinitializeFails, ConnectTimesOut
<1>2. UNCHANGED <<client, link>> /\ ~link.open
  BY DEF BackendLost, ReinitializeFails, ConnectTimesOut, ProxyInv, DialInv
<1>3. proxy' \in McpProxy
  BY <1>1 DEF ProxyTypeOK, McpProxy
<1>4. proxy'.outstanding = proxy.outstanding /\ proxy'.pc = pc /\ proxy'.note = proxy.note /\ proxy'.initialized = proxy.initialized
  BY <1>1 DEF ProxyTypeOK, McpProxy
<1>5. ClientInv' /\ OnceInv'
  BY <1>2, <1>4 DEF ProxyInv, ClientInv, OnceInv
<1>6. ForwardInv' /\ DialInv'
  BY <1>2, <1>4 DEF ProxyInv, ForwardInv, DialInv
<1> QED BY <1>2, <1>3, <1>5, <1>6 DEF ProxyInv, ProxyTypeOK

(* What the proxy remembers is as it was when only where it stands has changed. *)
LEMMA ClientKept ==
  ASSUME ProxyInv, UNCHANGED client, proxy'.outstanding = proxy.outstanding,
         proxy'.note = proxy.note, proxy'.initialized = proxy.initialized
  PROVE  ClientInv'
BY DEF ProxyInv, ClientInv

(* A new connection: the handshake first if there was one, else what is unanswered
   (dial). *)
LEMMA DialSafe ==
  ASSUME ProxyTypeOK, ProxyInv, NEW listening, Dial(listening)
  PROVE  ProxyTypeOK' /\ ProxyInv'
<1>1. PICK pc \in {"forward", "reinitialize"}, up \in Seq(Frames) :
         /\ proxy' = [proxy EXCEPT !.pc = pc] /\ link' = [FreshLink EXCEPT !.up = up]
         /\ IF proxy.initialized THEN pc = "reinitialize" /\ up = <<InitializeID>>
                                 ELSE pc = "forward" /\ up \in Orders(proxy.outstanding)
  <2>1. \A order \in Orders(proxy.outstanding) : order \in Seq(Frames)
    <3>1. ASSUME NEW order \in Orders(proxy.outstanding) PROVE order \in Seq(Frames)
      <4>1. order \in Seq(proxy.outstanding)
        BY OrderPlaces DEF ProxyInv, ClientInv
      <4> QED BY <4>1, ProxyParts
    <3> QED BY <3>1
  <2>2. <<InitializeID>> \in Seq(Frames)
    BY FramesDiffer
  <2> QED BY <2>1, <2>2 DEF Dial
<1>2. up \in Seq(Sendable) /\ UNCHANGED client
  BY FramesDiffer DEF Dial
<1>3. proxy' \in McpProxy
  BY <1>1 DEF ProxyTypeOK, McpProxy
<1>4. proxy'.outstanding = proxy.outstanding /\ proxy'.pc = pc /\ proxy'.note = proxy.note /\ proxy'.initialized = proxy.initialized
  BY <1>1 DEF ProxyTypeOK, McpProxy
<1>5. link' = [open |-> TRUE, up |-> up, down |-> << >>, session |-> "new", running |-> {}]
  BY <1>1 DEF FreshLink
<1>6. << >> \in Seq(Frames) /\ TRUE \in BOOLEAN
  OBVIOUS
<1>7. link' \in Link
  BY <1>2, <1>5, <1>6 DEF Link
<1>8. link'.up = up /\ link'.down = << >> /\ link'.open /\ link'.session = "new" /\ link'.running = {}
  BY <1>5
<1>9. ClientInv'
  BY <1>2, <1>4, ClientKept
<1>10. \A g : ~In(g, << >>)
  BY DEF In
<1>11. ~In(Initialized, up)
  BY FramesDiffer DEF In
<1>12. CASE proxy.initialized
  <2>1. pc = "reinitialize" /\ up = <<InitializeID>> /\ Once(up) /\ Once(<< >>)
    BY <1>1, <1>12 DEF Once
  <2>2. OnceInv'
    BY <1>8, <1>10, <1>11, <2>1 DEF OnceInv
  <2>3. ForwardInv' /\ DialInv'
    BY <1>4, <1>8, <1>12, <2>1 DEF ForwardInv, DialInv
  <2> QED BY <1>2, <1>3, <1>7, <1>9, <2>2, <2>3 DEF ProxyInv, ProxyTypeOK
<1>13. CASE ~proxy.initialized
  <2>1. pc = "forward" /\ up \in Orders(proxy.outstanding) /\ Once(<< >>)
    BY <1>1, <1>13 DEF Once
  <2>2. Once(up) /\ \A g : In(g, up) <=> g \in proxy.outstanding
    BY <2>1, OrderPlaces DEF ProxyInv, ClientInv
  <2>3. OnceInv'
    BY <1>8, <1>10, <1>11, <2>1, <2>2 DEF OnceInv
  <2>4. \A g : OnLink(g)' <=> g \in proxy'.outstanding
    BY <1>4, <1>8, <1>10, <2>2 DEF OnLink
  <2>5. Initialized \notin client.sent /\ Requests \cap client.sent = {}
    BY <1>13 DEF ProxyInv, ClientInv
  <2>6. \A i \in DOMAIN up : up[i] \notin Requests
    BY <2>2, <2>5 DEF In, ProxyInv, ClientInv
  <2>7. DOMAIN up = 1..Len(up)
    OBVIOUS
  <2>8. ForwardInv'
    BY <1>2, <1>8, <2>4, <2>5, <2>6, <2>7 DEF ForwardInv
  <2>9. DialInv'
    BY <1>4, <1>8, <2>1 DEF DialInv
  <2> QED BY <1>2, <1>3, <1>7, <1>9, <2>3, <2>8, <2>9 DEF ProxyInv, ProxyTypeOK
<1> QED BY <1>12, <1>13

Resends(up, note, S) ==
  /\ up \in Seq(Sendable) /\ Once(up)
  /\ \A g : In(g, up) <=> g \in S \/ (g = Initialized /\ note # << >>)
  /\ note # << >> => Len(up) >= 1 /\ up[1] = Initialized

(* What follows the repeated handshake: the notification, if the client sent it, and
   every frame of a set (reinitialize). *)
LEMMA ResentPlaces ==
  ASSUME NEW S \in SUBSET Frames, IsFiniteSet(S), NEW order \in Orders(S), NEW note \in {<< >>, <<Initialized>>},
         NEW up, up = << >> \o note \o order
  PROVE  Resends(up, note, S)
<1> USE DEF Resends
<1>1. /\ order \in Seq(S) /\ Once(order) /\ order \in Seq(Sendable)
      /\ \A g : In(g, order) <=> g \in S
  <2>1. /\ order \in Seq(S) /\ Once(order) /\ \A g : In(g, order) <=> g \in S
    BY OrderPlaces
  <2> QED BY <2>1, FramesDiffer
<1>2. CASE note = << >>
  <2>1. up = order
    BY <1>1, <1>2
  <2> QED BY <1>1, <1>2, <2>1
<1>3. CASE note = <<Initialized>>
  <2>1. Initialized \in Sendable
    BY FramesDiffer
  <2>2. up \in Seq(Sendable) /\ Len(order) \in Nat /\ Len(up) = Len(order) + 1
    BY <1>1, <1>3, <2>1
  <2>3. up[1] = Initialized /\ \A i \in 2..Len(up) : up[i] = order[i - 1]
    BY <1>1, <1>3, <2>1
  <2>4. DOMAIN up = 1..Len(up) /\ DOMAIN order = 1..Len(order)
    BY <1>1, <2>2
  <2>5. \A i \in DOMAIN up : i # 1 => i - 1 \in DOMAIN order /\ up[i] = order[i - 1]
    BY <2>2, <2>3, <2>4
  <2>6. ASSUME NEW i \in DOMAIN order PROVE i + 1 \in DOMAIN up /\ up[i + 1] = order[i]
    <3>1. i \in Nat /\ i + 1 \in 2..Len(up) /\ (i + 1) - 1 = i
      BY <2>2, <2>4
    <3>2. up[i + 1] = order[(i + 1) - 1]
      BY <2>3, <3>1
    <3>3. i + 1 \in DOMAIN up
      BY <2>2, <2>4, <3>1
    <3> QED BY <3>1, <3>2, <3>3
  <2>7. 1 \in DOMAIN up /\ note # << >>
    BY <1>3, <2>2, <2>4
  <2>8. \A g : In(g, up) <=> g \in S \/ g = Initialized
    <3>1. \A g : In(g, order) => In(g, up)
      BY <2>6 DEF In
    <3>2. \A g : In(g, up) => In(g, order) \/ g = Initialized
      BY <2>3, <2>5 DEF In
    <3>3. In(Initialized, up)
      BY <2>3, <2>7 DEF In
    <3> QED BY <1>1, <3>1, <3>2, <3>3
  <2>9. \A i \in DOMAIN order : order[i] # Initialized
    BY <1>1, FramesDiffer DEF In
  <2>10. Once(up)
    <3>1. ASSUME NEW i \in DOMAIN up, NEW j \in DOMAIN up, up[i] = up[j] PROVE i = j
      <4>1. CASE i = 1 \/ j = 1
        BY <2>3, <2>5, <2>9, <3>1, <4>1
      <4>2. CASE i # 1 /\ j # 1
        <5>1. i - 1 = j - 1
          BY <1>1, <2>5, <3>1, <4>2 DEF Once
        <5> QED BY <2>2, <2>4, <5>1
      <4> QED BY <4>1, <4>2
    <3> QED BY <3>1 DEF Once
  <2> QED BY <2>2, <2>3, <2>7, <2>8, <2>10
<1> QED BY <1>2, <1>3

(* The answer to the repeated handshake is kept from the client, and what is
   unanswered goes out again (reinitialize). *)
LEMMA ReinitializeSafe ==
  ASSUME ProxyTypeOK, ProxyInv, Reinitialize
  PROVE  ProxyTypeOK' /\ ProxyInv'
<1> DEFINE note == IF proxy.note THEN <<Initialized>> ELSE << >>
<1>1. /\ proxy.pc = "reinitialize" /\ proxy.initialized /\ link.running = {} /\ link.up = << >>
      /\ link.down = <<InitializeID>> /\ (link.open => link.session = "greeted")
  BY DEF Reinitialize, ProxyInv, DialInv
<1>2. Head(link.down) = InitializeID /\ Tail(link.down) = << >>
  BY <1>1
<1>3. PICK order \in Orders(proxy.outstanding) :
        link' = [link EXCEPT !.down = Tail(link.down), !.up = IF link.open THEN link.up \o note \o order ELSE link.up]
  BY <1>2 DEF Reinitialize
<1>4. proxy' = [proxy EXCEPT !.pc = "forward"] /\ UNCHANGED client
  BY <1>2 DEF Reinitialize
<1>5. note \in {<< >>, <<Initialized>>} /\ (note # << >> <=> proxy.note)
  OBVIOUS
<1> DEFINE all == << >> \o note \o order
           up == IF link.open THEN all ELSE << >>
<1>6. proxy.outstanding \in SUBSET Frames /\ IsFiniteSet(proxy.outstanding)
  BY ProxyParts DEF ProxyInv, ClientInv
<1>7. link' = [link EXCEPT !.down = << >>, !.up = up]
  BY <1>1, <1>2, <1>3
<1>a. all = << >> \o note \o order
  OBVIOUS
<1> HIDE DEF note, all
<1>b. Resends(all, note, proxy.outstanding)
  BY <1>3, <1>5, <1>6, <1>a, ResentPlaces
<1>8. /\ all \in Seq(Sendable) /\ Once(all)
      /\ \A g : In(g, all) <=> g \in proxy.outstanding \/ (g = Initialized /\ note # << >>)
      /\ note # << >> => Len(all) >= 1 /\ all[1] = Initialized
  BY <1>b DEF Resends
<1>9. up \in Seq(Sendable) /\ << >> \in Seq(Frames)
  BY <1>8
<1> HIDE DEF up
<1>10. link' \in Link
  BY <1>7, <1>9 DEF ProxyTypeOK, Link
<1>11. /\ link'.up = up /\ link'.down = << >> /\ link'.open = link.open
       /\ link'.session = link.session /\ link'.running = link.running
  BY <1>7 DEF ProxyTypeOK, Link
<1>12. proxy' \in McpProxy
  BY <1>4 DEF ProxyTypeOK, McpProxy
<1>13. proxy'.outstanding = proxy.outstanding /\ proxy'.pc = "forward" /\ proxy'.note = proxy.note /\ proxy'.initialized = proxy.initialized
  BY <1>4 DEF ProxyTypeOK, McpProxy
<1>14. ClientInv'
  BY <1>4, <1>13, ClientKept
<1>15. \A g : ~In(g, << >>)
  BY DEF In
<1>16. CASE link.open
  <2>1. up = all
    BY <1>16 DEF up
  <2>2. Once(<< >>) /\ (proxy.note => Initialized \in client.sent)
    BY DEF Once, ProxyInv, ClientInv
  <2>a. In(Initialized, all) => Initialized \in client.sent
    BY <1>5, <1>6, <1>8, <2>2, FramesDiffer
  <2>3. OnceInv'
    BY <1>1, <1>4, <1>8, <1>11, <1>15, <1>16, <2>1, <2>2, <2>a DEF OnceInv
  <2>4. \A g \in Frames : OnLink(g)' <=> g \in proxy'.outstanding
    BY <1>1, <1>8, <1>11, <1>13, <1>15, <2>1, FramesDiffer DEF OnLink
  <2>5. Initialized \in client.sent => Len(all) >= 1 /\ all[1] = Initialized
    BY <1>5, <1>8 DEF ProxyInv, ClientInv
  <2>6. \A g \in Requests : In(g, all) => Initialized \in client.sent
    BY <1>8, FramesDiffer DEF ProxyInv, ClientInv
  <2>7. PICK n \in Nat : n = Len(all) /\ DOMAIN all = 1..n
    BY <1>8
  <2>8. ASSUME Initialized \in client.sent, NEW m \in 1..n PROVE Greeted(m)'
    BY <1>11, <2>1, <2>5, <2>7, <2>8 DEF Greeted
  <2>9. Initialized \in client'.sent => Greeted(Len(link.up))'
    BY <1>4, <1>11, <2>1, <2>5, <2>7, <2>8
  <2>10. ASSUME NEW i \in 1..n, link'.up[i] \in Requests PROVE Greeted(i - 1)'
    <3>1. Initialized \in client.sent
      BY <1>11, <2>1, <2>6, <2>7, <2>10 DEF In
    <3>2. i # 1
      BY <1>11, <2>1, <2>5, <2>10, <3>1, FramesDiffer
    <3> QED BY <2>8, <3>1, <3>2
  <2>11. ForwardInv'
    BY <1>1, <1>11, <1>13, <2>1, <2>4, <2>7, <2>9, <2>10, ProxyParts DEF ForwardInv
  <2>12. DialInv'
    BY <1>11, <1>13, <1>16 DEF DialInv
  <2> QED BY <1>4, <1>10, <1>12, <1>14, <2>3, <2>11, <2>12 DEF ProxyInv, ProxyTypeOK
<1>17. CASE ~link.open
  <2>1. up = << >> /\ Once(<< >>) /\ Len(<< >>) = 0
    BY <1>17 DEF up, Once
  <2>2. OnceInv'
    BY <1>4, <1>11, <1>15, <2>1 DEF OnceInv, ProxyInv
  <2>3. ForwardInv'
    BY <1>1, <1>11, <1>15, <1>17, <2>1 DEF ForwardInv, OnLink
  <2>4. DialInv'
    BY <1>1, <1>11, <1>13, <2>1 DEF DialInv
  <2> QED BY <1>4, <1>10, <1>12, <1>14, <2>2, <2>3, <2>4 DEF ProxyInv, ProxyTypeOK
<1> QED BY <1>16, <1>17

(* The service takes a frame (serveUnixConnection). *)
LEMMA ServeFrameSafe ==
  ASSUME ProxyTypeOK, ProxyInv, ServeFrame
  PROVE  ProxyTypeOK' /\ ProxyInv'
<1> DEFINE f == Head(link.up)
           down == IF f = InitializeID THEN Append(link.down, f) ELSE link.down
           session == IF f = InitializeID THEN "greeted" ELSE IF f = Initialized THEN "ready" ELSE link.session
           running == link.running \cup ({f} \cap Requests)
           up == Tail(link.up)
<1>1. /\ link.open /\ link.up # << >> /\ UNCHANGED <<client, proxy>>
      /\ link' = [link EXCEPT !.up = up, !.down = down, !.session = session, !.running = running]
  BY DEF ServeFrame
<1>2. /\ f \in Sendable /\ up \in Seq(Sendable) /\ In(f, link.up)
      /\ \A g : In(g, up) <=> In(g, link.up) /\ g # f
      /\ Once(up)
  BY <1>1, ProxyParts, TailPlaces DEF ProxyInv, OnceInv
<1>3. ~In(f, link.down) /\ f \notin link.running
  BY <1>2 DEF ProxyInv, OnceInv
<1>4. /\ down \in Seq(Frames) /\ Once(down)
      /\ \A g : In(g, down) <=> In(g, link.down) \/ (g = f /\ f = InitializeID)
  BY <1>3, ProxyParts, FramesDiffer, AppendPlaces DEF ProxyInv, OnceInv
<1>5. session \in {"new", "greeted", "ready"} /\ running \in SUBSET Requests
  BY ProxyParts
<1>6. PICK n \in Nat : n = Len(link.up) /\ n >= 1 /\ Len(up) = n - 1
  <2>1. link.up \in Seq(Sendable) /\ link.up # << >>
    BY <1>1, ProxyParts
  <2> QED BY <2>1
<1>7. f = link.up[1] /\ \A i \in 1..(n - 1) : up[i] = link.up[i + 1]
  BY <1>1, <1>6, ProxyParts
<1>8. (f \in Requests => running = link.running \cup {f}) /\ (f \notin Requests => running = link.running)
  OBVIOUS
<1>s. /\ f = InitializeID => session = "greeted"
      /\ f = Initialized => session = "ready"
      /\ f \in Requests => session = link.session
  BY FramesDiffer
<1>t. f = InitializeID \/ f = Initialized \/ f \in Requests
  BY <1>2 DEF Sendable, Frames
<1> HIDE DEF f, up, down, session, running
<1>9. link' \in Link
  BY <1>1, <1>2, <1>4, <1>5 DEF ProxyTypeOK, Link
<1>10. link'.up = up /\ link'.down = down /\ link'.session = session /\ link'.running = running /\ link'.open
  BY <1>1 DEF ProxyTypeOK, Link
<1>11. ClientInv'
  BY <1>1, ClientKept
<1>12. OnceInv'
  <2>1. \A g \in Sendable : /\ ~(In(g, up) /\ In(g, down))
                            /\ g \in running => ~In(g, up) /\ ~In(g, down)
    BY <1>2, <1>3, <1>4, <1>8, <1>t, FramesDiffer DEF ProxyInv, OnceInv
  <2>2. session = "ready" \/ In(Initialized, up) => Initialized \in client.sent
    BY <1>2, <1>s, <1>t DEF ProxyInv, OnceInv
  <2> QED BY <1>1, <1>2, <1>4, <1>10, <2>1, <2>2 DEF OnceInv
<1>13. \A g \in Frames : OnLink(g)' <=> OnLink(g)
  BY <1>2, <1>3, <1>4, <1>8, <1>10, <1>t, FramesDiffer DEF OnLink
<1>14. CASE proxy.pc = "forward"
  <2>1. \A g \in Frames : OnLink(g) <=> g \in proxy.outstanding
    BY <1>1, <1>14, ProxyParts DEF ProxyInv, ForwardInv
  <2>2. ASSUME f = InitializeID PROVE ForwardInv'
    <3>1. Initialized \notin client.sent
      BY <1>2, <2>1, <2>2, FramesDiffer DEF OnLink, ProxyInv, ClientInv
    <3>2. Requests \cap client.sent = {}
      BY <3>1 DEF ProxyInv, ClientInv
    <3>3. \A g \in Requests : ~In(g, link.up)
      BY <2>1, <3>2, FramesDiffer DEF OnLink, ProxyInv, ClientInv
    <3>4. link.session # "ready"
      BY <3>1 DEF ProxyInv, OnceInv
    <3>5. link.running = {}
      BY <1>14, <3>4 DEF ProxyInv, ForwardInv
    <3>6. \A i \in 1..(n - 1) : up[i] \notin Requests
      <4>1. ASSUME NEW i \in 1..(n - 1) PROVE up[i] \notin Requests
        <5>1. i \in DOMAIN up
          BY <1>2, <1>6
        <5> QED BY <1>2, <3>3, <5>1 DEF In
      <4> QED BY <4>1
    <3>7. running = {}
      BY <1>8, <2>2, <3>5, FramesDiffer
    <3>8. Len(link'.up) = n - 1
      BY <1>6, <1>10
    <3>9. \A g \in Frames : OnLink(g)' => g \in proxy'.outstanding
      BY <1>1, <1>13, <2>1
    <3>10. \A g \in proxy'.outstanding : OnLink(g)'
      BY <1>1, <1>13, <2>1, ProxyParts
    <3>11. \A i \in 1..Len(link'.up) : link'.up[i] \notin Requests
      BY <1>10, <3>6, <3>8
    <3>12. Initialized \notin client'.sent /\ link'.running = {}
      BY <1>1, <1>10, <3>1, <3>7
    <3> QED BY <3>9, <3>10, <3>11, <3>12 DEF ForwardInv
  <2>3. ASSUME f # InitializeID PROVE ForwardInv'
    <3>1. ASSUME f \in Requests PROVE link.session = "ready" /\ session = "ready"
      <4>1. Greeted(0)
        <5>1. 1 \in 1..Len(link.up) /\ 1 - 1 = 0
          BY <1>6
        <5>2. Greeted(1 - 1)
          BY <1>7, <1>14, <3>1, <5>1 DEF ProxyInv, ForwardInv
        <5> QED BY <5>1, <5>2
      <4> QED BY <1>s, <3>1, <4>1 DEF Greeted
    <3>2. session = "ready"
      BY <1>s, <1>t, <2>3, <3>1
    <3>3. link'.session = "ready"
      BY <1>10, <3>2
    <3>6. Greeted(Len(link.up))' /\ \A i \in 1..Len(link'.up) : Greeted(i - 1)'
      BY <3>3 DEF Greeted
    <3>4. \A g \in proxy'.outstanding : OnLink(g)'
      BY <1>1, <1>13, <2>1, ProxyParts
    <3>5. \A g \in Frames : OnLink(g)' => g \in proxy'.outstanding
      BY <1>1, <1>13, <2>1
    <3> QED BY <3>3, <3>4, <3>5, <3>6 DEF ForwardInv
  <2>4. ForwardInv'
    BY <2>2, <2>3
  <2>5. DialInv'
    BY <1>1, <1>10, <1>14 DEF DialInv
  <2> QED BY <1>1, <1>9, <1>11, <1>12, <2>4, <2>5 DEF ProxyInv, ProxyTypeOK
<1>15. CASE proxy.pc # "forward"
  <2>1. proxy.pc = "reinitialize" /\ link.up = <<InitializeID>> /\ link.down = << >> /\ link.running = {} /\ proxy.initialized
    BY <1>1, <1>15, ProxyParts DEF ProxyInv, DialInv
  <2>2. f = InitializeID /\ up = << >>
    BY <2>1 DEF f, up
  <2>3. down = <<InitializeID>>
    BY <2>1, <2>2 DEF down
  <2>4. session = "greeted" /\ running = {}
    BY <1>8, <1>s, <2>1, <2>2, FramesDiffer
  <2>5. ForwardInv' /\ DialInv'
    BY <1>1, <1>10, <2>1, <2>2, <2>3, <2>4 DEF ForwardInv, DialInv
  <2> QED BY <1>1, <1>9, <1>11, <1>12, <2>5 DEF ProxyInv, ProxyTypeOK
<1> QED BY <1>14, <1>15

(* The service writes an answer. *)
LEMMA ServeAnswerSafe ==
  ASSUME ProxyTypeOK, ProxyInv, NEW f, ServeAnswer(f)
  PROVE  ProxyTypeOK' /\ ProxyInv'
<1> DEFINE running == link.running \ {f}
           down == Append(link.down, f)
<1>1. /\ link.open /\ f \in link.running /\ UNCHANGED <<client, proxy>>
      /\ link' = [link EXCEPT !.running = running, !.down = down]
  BY DEF ServeAnswer
<1>2. f \in Requests /\ f \in Frames /\ f \in Sendable
  BY <1>1, ProxyParts, FramesDiffer
<1>3. ~In(f, link.down) /\ ~In(f, link.up)
  BY <1>1, <1>2 DEF ProxyInv, OnceInv
<1>4. /\ down \in Seq(Frames) /\ Once(down)
      /\ \A g : In(g, down) <=> In(g, link.down) \/ g = f
  BY <1>2, <1>3, ProxyParts, AppendPlaces DEF ProxyInv, OnceInv
<1>5. running \in SUBSET Requests /\ \A g : g \in running <=> g \in link.running /\ g # f
  BY ProxyParts
<1> HIDE DEF running, down
<1>6. link' \in Link
  BY <1>1, <1>4, <1>5 DEF ProxyTypeOK, Link
<1>7. link'.up = link.up /\ link'.down = down /\ link'.session = link.session /\ link'.running = running /\ link'.open
  BY <1>1 DEF ProxyTypeOK, Link
<1>8. ClientInv'
  BY <1>1, ClientKept
<1>9. OnceInv'
  BY <1>1, <1>3, <1>4, <1>5, <1>7 DEF ProxyInv, OnceInv
<1>10. \A g : OnLink(g)' <=> OnLink(g)
  BY <1>1, <1>4, <1>5, <1>7 DEF OnLink
<1>11. proxy.pc = "forward"
  BY <1>1, ProxyParts DEF ProxyInv, DialInv
<1>12. ForwardInv'
  <2>1. Greeted(Len(link.up))' <=> Greeted(Len(link.up))
    BY <1>7 DEF Greeted
  <2>2. \A i : Greeted(i - 1)' <=> Greeted(i - 1)
    BY <1>7 DEF Greeted
  <2>3. link'.running # {} => link'.session = "ready"
    BY <1>1, <1>7, <1>11 DEF ProxyInv, ForwardInv
  <2> QED BY <1>1, <1>7, <1>10, <1>11, <2>1, <2>2, <2>3 DEF ProxyInv, ForwardInv
<1>13. DialInv'
  BY <1>1, <1>7, <1>11 DEF DialInv
<1> QED BY <1>1, <1>6, <1>8, <1>9, <1>12, <1>13 DEF ProxyInv, ProxyTypeOK

(* The process at the other end dies. *)
LEMMA LinkBreaksSafe ==
  ASSUME ProxyTypeOK, ProxyInv, LinkBreaks
  PROVE  ProxyTypeOK' /\ ProxyInv' /\ ~link'.open
<1>1. UNCHANGED <<client, proxy>> /\ link' = [link EXCEPT !.open = FALSE, !.up = << >>, !.running = {}]
  BY DEF LinkBreaks
<1>2. FALSE \in BOOLEAN /\ << >> \in Seq(Sendable) /\ {} \in SUBSET Requests
  OBVIOUS
<1>3. link' \in Link
  BY <1>1, <1>2 DEF ProxyTypeOK, Link
<1>4. link'.up = << >> /\ link'.down = link.down /\ link'.session = link.session /\ link'.running = {} /\ ~link'.open
  BY <1>1 DEF ProxyTypeOK, Link
<1>5. ClientInv'
  BY <1>1, ClientKept
<1>6. \A g : ~In(g, << >>)
  BY DEF In
<1>7. OnceInv'
  BY <1>1, <1>4, <1>6 DEF ProxyInv, OnceInv, Once
<1>8. ForwardInv'
  BY <1>1, <1>4, <1>6 DEF ProxyInv, ForwardInv, OnLink
<1>9. DialInv'
  BY <1>1, <1>4 DEF ProxyInv, DialInv
<1> QED BY <1>1, <1>3, <1>4, <1>5, <1>7, <1>8, <1>9 DEF ProxyInv, ProxyTypeOK

-----------------------------------------------------------------------------
(* The steps of the whole. *)

(* A write that fails uses one of the failures there may be (persist). *)
LEMMA WriteFaults ==
  ASSUME DiskTypeOK, NEW w, NEW ok, PersistWrite(w, ok)
  PROVE  faults' \in 0..MaxFaults
BY DEF DiskTypeOK, PersistWrite

(* The state directory stays what it is over a step of a call. *)
LEMMA CallDisk ==
  ASSUME RegistryTypeOK, RegistryInv, DiskTypeOK, NEW c \in Callers, CallStep(c)
  PROVE  DiskTypeOK'
<1>1. CASE AdoptInsert(c) \/ AdoptMatch(c) \/ CallCopies(c)
  BY <1>1 DEF AdoptInsert, AdoptMatch, CallCopies, DiskTypeOK
<1>2. CASE AdoptReuse(c)
  BY <1>2 DEF AdoptReuse, Resolve, Recovered, DiskTypeOK
<1>3. CASE UseEnd(c)
  <2>1. call[c].id \in Ids
    BY <1>3 DEF UseEnd, RegistryInv, CallInv
  <2> QED BY <1>3, <2>1 DEF UseEnd, DiskTypeOK
<1>4. ASSUME NEW b \in BOOLEAN, UseLookup(c, b) PROVE DiskTypeOK'
  <2>1. call[c].id \in Ids
    BY <1>4 DEF UseLookup, RegistryInv, CallInv
  <2> QED BY <1>4, <2>1 DEF UseLookup, Recovered, DiskTypeOK
<1>5. ASSUME NEW b \in BOOLEAN, AdoptWrites(c, b) PROVE DiskTypeOK'
  BY <1>5, WriteFaults DEF AdoptWrites, DiskTypeOK
<1>6. ASSUME NEW b \in BOOLEAN, UseWrites(c, b) PROVE DiskTypeOK'
  BY <1>6, WriteFaults DEF UseWrites, DiskTypeOK
<1> QED BY <1>1, <1>2, <1>3, <1>4, <1>5, <1>6 DEF CallStep

(* ... and of the sweep. *)
LEMMA SweepDisk ==
  ASSUME RegistryTypeOK, DiskTypeOK, SweepStep \/ SweepBegins
  PROVE  DiskTypeOK'
<1>1. CASE MarkObserves \/ MarkApplies \/ SweepCopies \/ SweepChecks \/ SweepForgets \/ OrphansListed \/ SweepBegins
  BY <1>1 DEF MarkObserves, MarkApplies, SweepCopies, SweepChecks, SweepForgets, OrphansListed, SweepBegins, DiskTypeOK
<1>2. CASE SweepDrops
  BY <1>2 DEF SweepDrops, WithoutState, DiskTypeOK
<1>3. CASE OrphansRemoved
  BY <1>3 DEF OrphansRemoved, WithoutState, DiskTypeOK
<1>4. ASSUME NEW ok \in BOOLEAN, MarkWrites(ok) PROVE DiskTypeOK'
  BY <1>4, WriteFaults DEF MarkWrites, DiskTypeOK
<1>5. ASSUME NEW ok \in BOOLEAN, ForgetWrites(ok) PROVE DiskTypeOK'
  BY <1>5, WriteFaults DEF ForgetWrites, DiskTypeOK
<1> QED BY <1>1, <1>2, <1>3, <1>4, <1>5 DEF SweepStep

(* Every step of a call keeps the registry's invariant. *)
LEMMA CallStepSafe ==
  ASSUME RegistryTypeOK, RegistryInv, NEW c \in Callers, CallStep(c)
  PROVE  RegistryTypeOK' /\ RegistryInv'
<1>1. CASE AdoptInsert(c)
  BY <1>1, InsertSafe
<1>2. CASE AdoptMatch(c) \/ AdoptReuse(c)
  BY <1>2, ReuseSafe
<1>3. CASE CallCopies(c)
  BY <1>3, CallCopiesSafe
<1>4. CASE UseEnd(c)
  BY <1>4, UseEndSafe
<1>5. ASSUME NEW b \in BOOLEAN, UseLookup(c, b) PROVE RegistryTypeOK' /\ RegistryInv'
  BY <1>5, LookupSafe
<1>6. ASSUME NEW b \in BOOLEAN, AdoptWrites(c, b) PROVE RegistryTypeOK' /\ RegistryInv'
  BY <1>6, AdoptWritesSafe
<1>7. ASSUME NEW b \in BOOLEAN, UseWrites(c, b) PROVE RegistryTypeOK' /\ RegistryInv'
  BY <1>7, UseWritesSafe
<1> QED BY <1>1, <1>2, <1>3, <1>4, <1>5, <1>6, <1>7 DEF CallStep

(* Every step of the sweep does. *)
LEMMA SweepStepSafe ==
  ASSUME RegistryTypeOK, RegistryInv, DiskTypeOK, SweepStep \/ SweepBegins
  PROVE  RegistryTypeOK' /\ RegistryInv'
<1>1. CASE MarkObserves \/ SweepChecks \/ SweepDrops \/ OrphansListed \/ OrphansRemoved \/ SweepBegins
  BY <1>1, SweepLooksSafe DEF DiskTypeOK
<1>2. CASE MarkApplies
  BY <1>2, MarkAppliesSafe
<1>3. CASE SweepCopies
  BY <1>3, SweepCopiesSafe
<1>4. CASE SweepForgets
  BY <1>4, SweepForgetsSafe
<1>5. ASSUME NEW ok \in BOOLEAN, MarkWrites(ok) \/ ForgetWrites(ok) PROVE RegistryTypeOK' /\ RegistryInv'
  BY <1>5, SweepWritesSafe
<1> QED BY <1>1, <1>2, <1>3, <1>4, <1>5 DEF SweepStep

(* A request that is taken begins its call, or is refused. *)
LEMMA DispatchSafe ==
  ASSUME RegistryTypeOK, RegistryInv, DiskTypeOK, asks \in [Requests -> Asks], NEW c \in Callers,
         Dispatch(c) \/ DispatchRefuses(c)
  PROVE  RegistryTypeOK' /\ RegistryInv' /\ DiskTypeOK'
<1>1. asks[c].op = "open" => asks[c].root \in Roots
  BY ServiceAssumption DEF Asks
<1>2. asks[c].op = "use" => asks[c].id \in Ids
  BY ServiceAssumption DEF Asks, Ids
<1>3. CASE asks[c].op = "open" /\ OpenFresh(c, asks[c].root)
  <2>1. RegistryTypeOK' /\ RegistryInv'
    BY <1>1, <1>3, OpenSafe
  <2> QED BY <1>3, <2>1 DEF OpenFresh, DiskTypeOK
<1>4. CASE asks[c].op = "use" /\ UseBegin(c, asks[c].id)
  <2>1. RegistryTypeOK' /\ RegistryInv'
    BY <1>2, <1>4, LookupSafe
  <2> QED BY <1>4, <2>1 DEF UseBegin, DiskTypeOK
<1>5. CASE DispatchRefuses(c)
  <2> DEFINE r == [call[c] EXCEPT !.pc = "done"]
  <2>1. r \in Call /\ r.pc = "done"
    BY DEF RegistryTypeOK, Call
  <2>2. Becomes(c, r) /\ UNCHANGED <<records, items, file, copies, sweep, issued, told, mixed>>
    BY <1>5 DEF DispatchRefuses
  <2> HIDE DEF r
  <2>3. RegistryTypeOK' /\ RegistryInv'
    BY <2>1, <2>2, CallRests
  <2> QED BY <1>5, <2>3 DEF DispatchRefuses, DiskTypeOK
<1> QED BY <1>3, <1>4, <1>5 DEF Dispatch

(* The service and the proxy begin as they must. *)
LEMMA InitSafe == Init => TypeOK /\ IInv
<1> SUFFICES ASSUME Init PROVE TypeOK /\ IInv
  OBVIOUS
<1> USE DEF Init
<1>1. RegistryTypeOK
  <2>1. records \in Records /\ file \in Records /\ issued \in 0..MaxIds /\ told \subseteq Ids
    BY EmptyIsRecords DEF RegistryInit
  <2>2. items \in [Ids -> Nat] /\ copies \in [Writers -> Copy]
    BY EmptyIsRecords DEF RegistryInit, Closed
  <2>3. call \in [Callers -> Call] /\ sweep \in Sweep
    BY IdleIsTyped DEF RegistryInit
  <2>4. mixed \in BOOLEAN
    BY DEF RegistryInit
  <2> QED BY <2>1, <2>2, <2>3, <2>4 DEF RegistryTypeOK
<1>2. DiskTypeOK
  BY DEF RegistryInit, DiskTypeOK
<1>3. RegistryInv
  <2>1. UniqueInv
    BY EmptyIsRecords DEF RegistryInit, UniqueInv
  <2>2. CallInv
    BY DEF RegistryInit, CallInv, Making, IdleCall
  <2>3. CopyInv
    BY EmptyIsRecords DEF RegistryInit, CopyInv, Writing, IdleCall, IdleSweep, Writers
  <2>4. ToldInv
    BY DEF RegistryInit, ToldInv
  <2> QED BY <2>1, <2>2, <2>3, <2>4 DEF RegistryInv
<1>4. /\ client = [sent |-> {}, answers |-> [f \in Frames |-> 0]]
      /\ proxy = [pc |-> "forward", initialized |-> FALSE, note |-> FALSE, outstanding |-> {}]
      /\ link = [open |-> TRUE, up |-> << >>, down |-> << >>, session |-> "new", running |-> {}]
  BY DEF ProxyInit, FreshLink
<1>5. TRUE \in BOOLEAN /\ FALSE \in BOOLEAN /\ << >> \in Seq(Sendable) /\ << >> \in Seq(Frames)
  OBVIOUS
<1>6. client \in Client
  BY <1>4 DEF Client
<1>7. proxy \in McpProxy
  BY <1>4, <1>5 DEF McpProxy
<1>8. link \in Link
  BY <1>4, <1>5 DEF Link
<1>9. ClientInv
  BY <1>4, FramesDiffer, FS_EmptySet DEF ClientInv
<1>10. \A g : ~In(g, << >>)
  BY DEF In
<1>11. OnceInv
  BY <1>4, <1>10 DEF OnceInv, Once
<1>12. ForwardInv
  BY <1>4, <1>10 DEF ForwardInv, OnLink
<1>13. DialInv
  BY <1>4 DEF DialInv
<1> QED BY <1>1, <1>2, <1>3, <1>6, <1>7, <1>8, <1>9, <1>11, <1>12, <1>13 DEF TypeOK, IInv, ProxyTypeOK, ProxyInv

(* The proxy's steps keep its invariant. *)
LEMMA ProxyStepSafe ==
  ASSUME ProxyTypeOK, ProxyInv, NEW listening \in BOOLEAN, ProxyStep(listening) \/ ConnectTimesOut(listening)
  PROVE  ProxyTypeOK' /\ ProxyInv' /\ (link'.open => link.open \/ listening)
<1>1. ASSUME NEW f \in Frames \cup {Initialized}, NEW o \in {"written", "failed", "lost"}, ForwardClient(f, o)
      PROVE  ProxyTypeOK' /\ ProxyInv' /\ (link'.open => link.open)
  <2>1. f \in Sendable
    BY FramesDiffer
  <2>2. link'.open => link.open
    BY <1>1 DEF ForwardClient, ProxyTypeOK, Link
  <2> QED BY <1>1, <2>1, <2>2, ForwardClientSafe
<1>2. CASE ForwardAnswer
  <2>1. link'.open => link.open
    BY <1>2 DEF ForwardAnswer, ProxyTypeOK, Link
  <2> QED BY <1>2, <2>1, ForwardAnswerSafe
<1>3. CASE BackendLost \/ ReinitializeFails \/ ConnectTimesOut(listening)
  <2>1. UNCHANGED link
    BY <1>3 DEF BackendLost, ReinitializeFails, ConnectTimesOut
  <2> QED BY <1>3, <2>1, ProxyLetsGo
<1>4. CASE Dial(listening)
  <2>1. listening
    BY <1>4 DEF Dial
  <2> QED BY <1>4, <2>1, DialSafe
<1>5. CASE Reinitialize
  <2>1. link'.open => link.open
    <3>1. \A d, u : [link EXCEPT !.down = d, !.up = u].open = link.open
      BY DEF ProxyTypeOK, Link
    <3>2. \A d : [link EXCEPT !.down = d].open = link.open
      BY DEF ProxyTypeOK, Link
    <3>3. \E d, u : link' \in {[link EXCEPT !.down = d], [link EXCEPT !.down = d, !.up = u]}
      BY <1>5, Zenon DEF Reinitialize
    <3> QED BY <3>1, <3>2, <3>3
  <2> QED BY <1>5, <2>1, ReinitializeSafe
<1> QED BY <1>1, <1>2, <1>3, <1>4, <1>5 DEF ProxyStep

(* Nothing changes where the registry, or the proxy, is not touched. *)
LEMMA RegistryRests ==
  ASSUME RegistryTypeOK, RegistryInv, DiskTypeOK, UNCHANGED registryVars
  PROVE  RegistryTypeOK' /\ RegistryInv' /\ DiskTypeOK'
<1>1. RegistryTypeOK' /\ RegistryInv'
  BY RegistryStutters DEF registryVars
<1> QED BY <1>1 DEF DiskTypeOK, registryVars

LEMMA ProxyRests ==
  ASSUME ProxyTypeOK, ProxyInv, UNCHANGED proxyVars
  PROVE  ProxyTypeOK' /\ ProxyInv' /\ UNCHANGED link
<1>1. UNCHANGED <<client, proxy, link>>
  BY DEF proxyVars
<1>2. ClientInv' /\ OnceInv' /\ DialInv'
  BY <1>1 DEF ProxyInv, ClientInv, OnceInv, DialInv
<1>3. ForwardInv'
  BY <1>1 DEF ProxyInv, ForwardInv, OnLink, Greeted
<1> QED BY <1>1, <1>2, <1>3 DEF ProxyTypeOK, ProxyInv

(* The invariant is inductive. *)
LEMMA NextSafe == TypeOK /\ IInv /\ [Next]_vars => TypeOK' /\ IInv'
<1> SUFFICES ASSUME TypeOK, IInv, [Next]_vars PROVE TypeOK' /\ IInv'
  OBVIOUS
<1>0. /\ RegistryTypeOK /\ DiskTypeOK /\ ProxyTypeOK /\ RegistryInv /\ ProxyInv
      /\ asks \in [Requests -> Asks]
      /\ phase \in {"down", "loading", "listening"} /\ restarts \in 0..MaxRestarts
      /\ (phase # "listening" => ~link.open)
  BY DEF TypeOK, IInv
<1> DEFINE RegistryGood == RegistryTypeOK /\ RegistryInv /\ DiskTypeOK
           ProxyGood == ProxyTypeOK /\ ProxyInv
           Rest == /\ asks' = asks /\ phase' \in {"down", "loading", "listening"} /\ restarts' \in 0..MaxRestarts
                   /\ (phase' # "listening" => ~link'.open)
<1>a. ASSUME RegistryGood', ProxyGood', Rest PROVE TypeOK' /\ IInv'
  BY <1>0, <1>a DEF TypeOK, IInv
<1>b. UNCHANGED proxyVars => ProxyGood' /\ UNCHANGED link
  BY <1>0, ProxyRests
<1>c. UNCHANGED registryVars => RegistryGood'
  BY <1>0, RegistryRests
<1> HIDE DEF RegistryGood, ProxyGood
<1>1. CASE Serve
  <2>1. ProxyGood' /\ UNCHANGED <<phase, restarts, asks>> /\ phase = "listening"
    BY <1>0, <1>1, ServeFrameSafe DEF Serve, Listening, ProxyGood
  <2>2. CASE Head(link.up) \in Requests
    <3>1. Dispatch(Head(link.up)) \/ DispatchRefuses(Head(link.up))
      BY <1>1, <2>2 DEF Serve
    <3>2. RegistryGood'
      BY <1>0, <2>2, <3>1, DispatchSafe, ServiceAssumption DEF RegistryGood
    <3> QED BY <1>0, <1>a, <2>1, <3>2
  <2>3. CASE Head(link.up) \notin Requests
    <3>1. UNCHANGED registryVars
      BY <1>1, <2>3 DEF Serve
    <3> QED BY <1>0, <1>a, <1>c, <2>1, <3>1
  <2> QED BY <2>2, <2>3
<1>2. CASE Die
  BY <1>0, <1>2, <1>a, <1>c, LinkBreaksSafe DEF Die, ProxyGood
<1>3. CASE Start
  <2>1. RegistryGood'
    BY <1>0, <1>3, LoadSafe DEF Start, Load, RegistryGood, DiskTypeOK
  <2> QED BY <1>0, <1>3, <1>a, <1>b, <2>1 DEF Start
<1>4. CASE Listen
  <2>1. DiskTypeOK'
    BY <1>0, <1>4 DEF Listen, OpenPending, DiskTypeOK
  <2>2. RegistryGood'
    BY <1>0, <1>4, <2>1, OpenPendingSafe DEF Listen, RegistryGood
  <2> QED BY <1>0, <1>4, <1>a, <1>b, <2>2 DEF Listen
<1>5. CASE RunSweep \/ Tick
  <2>1. (SweepStep \/ SweepBegins) /\ UNCHANGED <<proxyVars, phase, restarts, asks>>
    BY <1>5 DEF RunSweep, Tick, Step
  <2>2. RegistryGood'
    BY <1>0, <2>1, SweepStepSafe, SweepDisk DEF RegistryGood
  <2> QED BY <1>0, <1>a, <1>b, <2>1, <2>2
<1>6. CASE RunProxy \/ ProxyGivesUp
  <2>1. /\ UNCHANGED <<registryVars, phase, restarts, asks>> /\ Listening \in BOOLEAN
        /\ ProxyStep(Listening) \/ ConnectTimesOut(Listening)
    BY <1>6 DEF RunProxy, ProxyGivesUp, Listening
  <2>2. ProxyGood' /\ (link'.open => link.open \/ Listening)
    BY <1>0, <2>1, ProxyStepSafe DEF ProxyGood
  <2> QED BY <1>0, <1>a, <1>c, <2>1, <2>2 DEF Listening
<1>7. ASSUME NEW c \in Callers, Answer(c) PROVE TypeOK' /\ IInv'
  <2>1. ServeAnswer(c) /\ UNCHANGED <<phase, restarts, asks>> /\ phase = "listening"
    BY <1>7 DEF Answer, Listening
  <2>2. ProxyGood'
    BY <1>0, <2>1, ServeAnswerSafe DEF ProxyGood
  <2>3. /\ Becomes(c, IdleCall) /\ IdleCall \in Call /\ IdleCall.pc = "idle"
        /\ UNCHANGED <<records, items, file, copies, sweep, stores, work, gone, issued, faults, told, mixed>>
    BY <1>7, IdleIsTyped DEF Answer, IdleCall
  <2>4. RegistryTypeOK' /\ RegistryInv'
    BY <1>0, <2>3, CallRests
  <2>5. RegistryGood'
    BY <1>0, <2>3, <2>4 DEF RegistryGood, DiskTypeOK
  <2> QED BY <1>0, <1>a, <2>1, <2>2, <2>5
<1>8. ASSUME NEW c \in Callers, RunCall(c) PROVE TypeOK' /\ IInv'
  <2>1. CallStep(c) /\ UNCHANGED <<proxyVars, phase, restarts, asks>>
    BY <1>8 DEF RunCall, Step
  <2>2. RegistryGood'
    BY <1>0, <2>1, CallStepSafe, CallDisk DEF RegistryGood
  <2> QED BY <1>0, <1>a, <1>b, <2>1, <2>2
<1>9. CASE Step(Age)
  <2>1. Age /\ UNCHANGED <<proxyVars, phase, restarts, asks>>
    BY <1>9 DEF Step
  <2>2. RegistryGood'
    BY <1>0, <2>1, AgeSafe DEF RegistryGood, DiskTypeOK, Age
  <2> QED BY <1>0, <1>a, <1>b, <2>1, <2>2
<1>10. ASSUME NEW root \in Roots, Step(RootMoves(root)) PROVE TypeOK' /\ IInv'
  <2>1. RootMoves(root) /\ UNCHANGED <<proxyVars, phase, restarts, asks>>
    BY <1>10 DEF Step
  <2>2. RegistryTypeOK' /\ RegistryInv'
    BY <1>0, <2>1, RegistryStutters DEF RootMoves
  <2>3. RegistryGood'
    BY <1>0, <2>1, <2>2 DEF RegistryGood, DiskTypeOK, RootMoves
  <2> QED BY <1>0, <1>a, <1>b, <2>1, <2>3
<1>11. CASE UNCHANGED vars
  BY <1>0, <1>a, <1>b, <1>c, <1>11 DEF vars
<1> QED BY <1>1, <1>2, <1>3, <1>4, <1>5, <1>6, <1>7, <1>8, <1>9, <1>10, <1>11 DEF Next

-----------------------------------------------------------------------------
(* The service's invariant: everything has its shape, a definition has one record in
   memory, on disk and in every copy on its way there, a copy nobody overlapped has
   every workspace a client was told of, and a frame is in one place of a connection
   that was greeted before it carries requests. *)
THEOREM ServiceInvariant == Spec => [](TypeOK /\ IInv)
<1> QED BY InitSafe, NextSafe, PTL DEF Spec

(* Concurrent opens of one definition, a sweep that forgets meanwhile and restarts leave
   it with one record, in memory and in registry.json (Adopt). *)
THEOREM DefinitionHasOneRecord == Spec => []OneRecordPerDefinition
<1>1. TypeOK /\ IInv => OneRecordPerDefinition
  BY DEF IInv, RegistryInv, UniqueInv, Unique, OneRecordPerDefinition
<1> QED BY <1>1, ServiceInvariant, PTL

(* A workspace whose creation was answered stays registered, and in the file unless the
   last write overlapped another persist (Adopt, persist, forget). *)
THEOREM CreatedWorkspaceIsKept == Spec => []CreatedIsKept
<1>1. TypeOK /\ IInv => CreatedIsKept
  BY DEF IInv, RegistryInv, ToldInv, CreatedIsKept
<1> QED BY <1>1, ServiceInvariant, PTL

(* The client does not notice a restart: no frame is answered twice, no request runs in
   a session that was not greeted, and none is left for nobody on a living connection
   (forwardClient, forwardBackend, dial, reinitialize). *)
THEOREM RestartsAreTransparent == Spec => []ProxyTransparent
<1>1. TypeOK /\ IInv => ProxyTransparent
  <2> SUFFICES ASSUME TypeOK, IInv PROVE ProxyTransparent
    OBVIOUS
  <2>1. ClientInv /\ ForwardInv /\ DialInv /\ ProxyTypeOK
    BY DEF TypeOK, IInv, ProxyInv
  <2>2. \A f \in Frames : client.answers[f] <= 1
    BY <2>1 DEF ClientInv
  <2>3. link.running # {} => link.session = "ready"
    BY <2>1, ProxyParts DEF ForwardInv, DialInv
  <2>4. ASSUME proxy.pc = "forward", link.open, NEW f \in Frames \cap client.sent, client.answers[f] = 0
        PROVE  \/ f \in link.running
               \/ \E queue \in {link.up, link.down} : \E i \in DOMAIN queue : queue[i] = f
    <3>1. OnLink(f)
      BY <2>1, <2>4 DEF ClientInv, ForwardInv
    <3> QED BY <3>1 DEF OnLink, In
  <2> QED BY <2>2, <2>3, <2>4 DEF ProxyTransparent
<1> QED BY <1>1, ServiceInvariant, PTL

(* The assumptions of Service are not needed any more. *)
HIDE ServiceAssumption
HIDE ProxyAssumption
HIDE RegistryAssumption
USE ActorAssumption, BoundAssumption

-----------------------------------------------------------------------------
(* What the steps are made of. *)

(* Lessees and the reaper are the actors, and none of them is NoOne. *)
LEMMA ActorParts ==
  /\ Reaper \in Actors /\ Lessees \subseteq Actors /\ NoOne \notin Actors /\ NoOne \notin Workspaces
  /\ \A a \in Actors : (a = Reaper) <=> a \notin Lessees
BY DEF Actors

(* An actor at rest has its type. *)
LEMMA IdleIsActor == Idle \in Actor
BY DEF Idle, Actor, Pc

(* So has one that is about to restart a workspace it has just returned. *)
LEMMA RestartIsActor ==
  ASSUME NEW w \in Workspaces
  PROVE  /\ [Idle EXCEPT !.pc = "restart", !.ws = w] \in Actor
         /\ [Idle EXCEPT !.pc = "restart", !.ws = w].pc = "restart"
         /\ [Idle EXCEPT !.pc = "restart", !.ws = w].ws = w
<1>1. "restart" \in Pc
  BY DEF Pc
<1>2. [Idle EXCEPT !.pc = "restart", !.ws = w] \in Actor
  BY <1>1, IdleIsActor DEF Actor
<1>3. [Idle EXCEPT !.pc = "restart", !.ws = w].pc = "restart"
  BY DEF Idle
<1>4. [Idle EXCEPT !.pc = "restart", !.ws = w].ws = w
  BY DEF Idle
<1> QED BY <1>2, <1>3, <1>4

(* What every invariant reads of an actor. *)
SameActor(x) == /\ actor'[x].pc = actor[x].pc /\ actor'[x].ws = actor[x].ws
                /\ actor'[x].backend = actor[x].backend /\ actor'[x].victim = actor[x].victim
OnlyActor(a) == \A x \in Actors \ {a} : SameActor(x)

(* Replacing one actor keeps the type and the others. *)
LEMMA SetEffect ==
  ASSUME PoolTypeOK, NEW a \in Actors, NEW r \in Actor, actor' = [actor EXCEPT ![a] = r]
  PROVE  actor' \in [Actors -> Actor] /\ OnlyActor(a) /\ actor'[a] = r
BY DEF PoolTypeOK, OnlyActor, SameActor

(* Going on changes where an actor is and nothing else of it (Go). *)
LEMMA PoolGoEffect ==
  ASSUME PoolTypeOK, NEW a \in Actors, NEW pc \in Pc, Go(a, pc)
  PROVE  /\ actor' \in [Actors -> Actor] /\ OnlyActor(a)
         /\ actor'[a].pc = pc /\ actor'[a].ws = actor[a].ws
         /\ actor'[a].backend = actor[a].backend /\ actor'[a].victim = actor[a].victim
<1> DEFINE r == [actor[a] EXCEPT !.pc = pc]
<1>1. actor' = [actor EXCEPT ![a] = r]
  BY DEF Go
<1>2. r \in Actor /\ r.pc = pc /\ r.ws = actor[a].ws /\ r.backend = actor[a].backend /\ r.victim = actor[a].victim
  <2>1. actor[a] \in Actor
    BY DEF PoolTypeOK
  <2> QED BY <2>1 DEF Actor
<1> HIDE DEF r
<1> QED BY <1>1, <1>2, SetEffect

(* A failed call lets go of its locks and changes nothing else of a slot (Fail). *)
LEMMA FailEffect ==
  ASSUME PoolTypeOK, NEW a \in Actors, Fail(a)
  PROVE  /\ actor' \in [Actors -> Actor] /\ OnlyActor(a) /\ actor'[a] = Idle
         /\ slots' \in [Workspaces -> Slot]
         /\ \A w \in Workspaces :
              /\ slots'[w].backend = slots[w].backend /\ slots'[w].users = slots[w].users
              /\ slots'[w].epoch = slots[w].epoch
              /\ slots'[w].lock = IF slots[w].lock = a THEN NoOne ELSE slots[w].lock
<1>1. actor' = [actor EXCEPT ![a] = Idle]
  BY DEF Fail
<1>2. actor' \in [Actors -> Actor] /\ OnlyActor(a) /\ actor'[a] = Idle
  BY <1>1, IdleIsActor, SetEffect
<1>3. slots' = [w \in Workspaces |-> IF slots[w].lock = a THEN [slots[w] EXCEPT !.lock = NoOne] ELSE slots[w]]
  BY DEF Fail
<1>4. \A w \in Workspaces : slots[w] \in Slot
  BY DEF PoolTypeOK
<1> QED BY <1>2, <1>3, <1>4 DEF Slot

(* Striking a slot from the snapshots changes nothing the invariants read of an
   actor. *)
LEMMA StrikeEffect ==
  ASSUME PoolTypeOK, NEW w, NEW after \in [Actors -> Actor], actor' = Strike(w, after)
  PROVE  /\ actor' \in [Actors -> Actor]
         /\ \A x \in Actors : /\ actor'[x].pc = after[x].pc /\ actor'[x].ws = after[x].ws
                              /\ actor'[x].backend = after[x].backend /\ actor'[x].victim = after[x].victim
BY DEF Strike, Actor

(* Moving a slot to the end keeps the relation between slots (Used). *)
LEMMA UsedKeepsType ==
  ASSUME PoolTypeOK, NEW w \in Workspaces, Used(w)
  PROVE  earlier' \subseteq Workspaces \X Workspaces
BY DEF PoolTypeOK, Used

(* What leaseLocked does to the caller, to its slot and to the epochs given. *)
LEMMA LeaseEffect ==
  ASSUME PoolTypeOK, NEW a \in Lessees, NEW w \in Workspaces, NEW b \in DOMAIN backends, leaseLocked(a, w, b)
  PROVE  /\ actor' \in [Actors -> Actor] /\ OnlyActor(a)
         /\ actor'[a].pc = "using" /\ actor'[a].ws = w /\ actor'[a].backend = b /\ actor'[a].victim = NoOne
         /\ slots' \in [Workspaces -> Slot]
         /\ \A v \in Workspaces \ {w} : slots'[v] = slots[v]
         /\ slots'[w].users = slots[w].users + 1 /\ slots'[w].lock = NoOne
         /\ slots'[w].backend = b /\ slots'[w].epoch = slots[w].epoch
         /\ given' \in [Workspaces -> Nat]
         /\ \A v \in Workspaces \ {w} : given'[v] = given[v]
         /\ given'[w] = IF backends[b].epoch > given[w] THEN backends[b].epoch ELSE given[w]
         /\ earlier' \subseteq Workspaces \X Workspaces
<1>1. backends[b] \in Backend /\ b \in Nat
  BY DEF PoolTypeOK
<1>2. slots[w] \in Slot /\ a \in Actors
  BY ActorParts DEF PoolTypeOK
<1> DEFINE r == [Idle EXCEPT !.pc = "using", !.ws = w, !.backend = b]
           after == [actor EXCEPT ![a] = r]
<1>3. r \in Actor /\ r.pc = "using" /\ r.ws = w /\ r.backend = b /\ r.victim = NoOne
  BY <1>1, IdleIsActor DEF Actor, Idle, Pc
<1>4. actor' = Strike(w, after)
  BY DEF leaseLocked
<1>5. after \in [Actors -> Actor] /\ after[a] = r /\ \A x \in Actors \ {a} : after[x] = actor[x]
  <2> HIDE DEF r
  <2> QED BY <1>2, <1>3 DEF PoolTypeOK
<1>6. /\ actor' \in [Actors -> Actor] /\ OnlyActor(a)
      /\ actor'[a].pc = "using" /\ actor'[a].ws = w /\ actor'[a].backend = b /\ actor'[a].victim = NoOne
  <2> HIDE DEF r, after
  <2> QED BY <1>2, <1>3, <1>4, <1>5, StrikeEffect DEF OnlyActor, SameActor
<1> DEFINE s == [slots[w] EXCEPT !.users = slots[w].users + 1, !.lock = NoOne, !.backend = b]
<1>7. slots' = [slots EXCEPT ![w] = s]
  BY DEF leaseLocked
<1>s. s \in Slot /\ s.users = slots[w].users + 1 /\ s.lock = NoOne /\ s.backend = b /\ s.epoch = slots[w].epoch
  <2>1. slots[w].users + 1 \in Nat
    BY <1>2 DEF Slot
  <2>2. NoOne \in Actors \cup {NoOne} /\ b \in Nat
    BY <1>1
  <2> QED BY <1>2, <2>1, <2>2 DEF Slot
<1>8. /\ slots' \in [Workspaces -> Slot]
      /\ \A v \in Workspaces \ {w} : slots'[v] = slots[v]
      /\ slots'[w].users = slots[w].users + 1 /\ slots'[w].lock = NoOne
      /\ slots'[w].backend = b /\ slots'[w].epoch = slots[w].epoch
  <2> HIDE DEF s
  <2> QED BY <1>7, <1>s DEF PoolTypeOK
<1>9. /\ given' \in [Workspaces -> Nat]
      /\ \A v \in Workspaces \ {w} : given'[v] = given[v]
      /\ given'[w] = IF backends[b].epoch > given[w] THEN backends[b].epoch ELSE given[w]
  BY <1>1 DEF leaseLocked, PoolTypeOK, Backend
<1>10. earlier' \subseteq Workspaces \X Workspaces
  BY UsedKeepsType DEF leaseLocked
<1> QED BY <1>6, <1>8, <1>9, <1>10

(* Closing providers: their reservations go with them, and nothing else changes. *)
LEMMA ClosedEffect ==
  ASSUME PoolTypeOK, NEW bs, CloseBackends(bs)
  PROVE  /\ backends' \in Seq(Backend) /\ DOMAIN backends' = DOMAIN backends
         /\ \A b \in DOMAIN backends : /\ backends'[b].epoch = backends[b].epoch
                                       /\ backends'[b].healthy = backends[b].healthy
                                       /\ b \notin bs => backends'[b] = backends[b]
                                       /\ b \in bs => backends'[b].state = "closed"
         /\ owned' = owned \ bs
<1>1. backends \in Seq(Backend) /\ DOMAIN backends = 1 .. Len(backends) /\ Len(backends) \in Nat
  BY DEF PoolTypeOK
<1>2. backends' = [b \in 1 .. Len(backends) |-> IF b \in bs THEN [backends[b] EXCEPT !.state = "closed"] ELSE backends[b]]
      /\ owned' = owned \ bs
  BY <1>1 DEF CloseBackends
<1>3. \A b \in 1 .. Len(backends) : backends[b] \in Backend
  BY <1>1
<1>4. backends' \in [1 .. Len(backends) -> Backend]
  BY <1>2, <1>3 DEF Backend
<1>5. backends' \in Seq(Backend) /\ DOMAIN backends' = DOMAIN backends
  BY <1>1, <1>4
<1> QED BY <1>1, <1>2, <1>3, <1>5 DEF Backend

(* What a successful closeSlotLocked does to the slot: empty, its provider's
   generation recorded. *)
LEMMA ShutEffect ==
  ASSUME PoolTypeOK, NEW w \in Workspaces, NEW unlock \in BOOLEAN, ShutSlot(w, unlock), slots[w].backend \in DOMAIN backends
  PROVE  /\ CloseBackends({slots[w].backend})
         /\ slots' \in [Workspaces -> Slot]
         /\ \A v \in Workspaces \ {w} : slots'[v] = slots[v]
         /\ slots'[w].backend = 0 /\ slots'[w].users = slots[w].users
         /\ slots'[w].epoch = backends[slots[w].backend].epoch
         /\ slots'[w].lock = IF unlock THEN NoOne ELSE slots[w].lock
<1>1. slots[w] \in Slot /\ backends[slots[w].backend] \in Backend
  BY DEF PoolTypeOK
<1> DEFINE s == [slots[w] EXCEPT !.backend = 0, !.epoch = backends[slots[w].backend].epoch,
                                 !.lock = IF unlock THEN NoOne ELSE slots[w].lock]
<1>2. slots' = [slots EXCEPT ![w] = s] /\ CloseBackends({slots[w].backend})
  BY DEF ShutSlot, Shut
<1>3. /\ s \in Slot /\ s.backend = 0 /\ s.users = slots[w].users
      /\ s.epoch = backends[slots[w].backend].epoch /\ s.lock = IF unlock THEN NoOne ELSE slots[w].lock
  BY <1>1 DEF Slot, Backend
<1> HIDE DEF s
<1> QED BY <1>2, <1>3 DEF PoolTypeOK

(* What a failed closeSlotLocked does to the slot: the generation recorded, the
   provider kept. *)
LEMMA KeepEffect ==
  ASSUME PoolTypeOK, NEW w \in Workspaces, NEW unlock \in BOOLEAN, KeepSlot(w, unlock), slots[w].backend \in DOMAIN backends
  PROVE  /\ owned' = owned /\ backends' = backends
         /\ slots' \in [Workspaces -> Slot]
         /\ \A v \in Workspaces \ {w} : slots'[v] = slots[v]
         /\ slots'[w].backend = slots[w].backend /\ slots'[w].users = slots[w].users
         /\ slots'[w].lock = IF unlock THEN NoOne ELSE slots[w].lock
<1>1. slots[w] \in Slot /\ backends[slots[w].backend] \in Backend
  BY DEF PoolTypeOK
<1> DEFINE s == [slots[w] EXCEPT !.epoch = backends[slots[w].backend].epoch,
                                 !.lock = IF unlock THEN NoOne ELSE slots[w].lock]
<1>2. slots' = [slots EXCEPT ![w] = s] /\ owned' = owned /\ backends' = backends
  BY DEF KeepSlot
<1>3. /\ s \in Slot /\ s.backend = slots[w].backend /\ s.users = slots[w].users
      /\ s.lock = IF unlock THEN NoOne ELSE slots[w].lock
  BY <1>1 DEF Slot, Backend
<1> HIDE DEF s
<1> QED BY <1>2, <1>3 DEF PoolTypeOK

(* Taking the lock of a slot changes nothing else of it. *)
LEMMA LockEffect ==
  ASSUME PoolTypeOK, NEW w \in Workspaces, NEW a \in Actors \cup {NoOne}, SetLock(w, a)
  PROVE  /\ slots' \in [Workspaces -> Slot]
         /\ \A v \in Workspaces \ {w} : slots'[v] = slots[v]
         /\ slots'[w].lock = a /\ slots'[w].backend = slots[w].backend
         /\ slots'[w].users = slots[w].users /\ slots'[w].epoch = slots[w].epoch
<1> DEFINE s == [slots[w] EXCEPT !.lock = a]
<1>1. slots[w] \in Slot
  BY DEF PoolTypeOK
<1>2. s \in Slot /\ s.lock = a /\ s.backend = slots[w].backend /\ s.users = slots[w].users /\ s.epoch = slots[w].epoch
  BY <1>1 DEF Slot
<1>3. slots' = [slots EXCEPT ![w] = s]
  BY DEF SetLock
<1> HIDE DEF s
<1> QED BY <1>2, <1>3 DEF PoolTypeOK

-----------------------------------------------------------------------------
(* What a step leaves alone. *)

(* A step of actor a that takes and frees locks in its own name only. *)
LockStep(a) ==
  /\ OnlyActor(a)
  /\ \A w \in Workspaces :
       /\ slots'[w].lock = slots[w].lock \/ {slots'[w].lock, slots[w].lock} \subseteq {a, NoOne}
       /\ (slots'[w].lock = a) <=> Locking(a, w)'
  /\ admit' = admit \/ {admit', admit} \subseteq {a, NoOne}
  /\ (admit' = a) <=> actor'[a].pc \in {"admit", "evict", "evicting"}

(* A step that uses only its actor's own locks keeps them to their holders. *)
LEMMA LockFrame ==
  ASSUME LockInv, NEW a \in Actors, LockStep(a)
  PROVE  LockInv'
<1> SUFFICES ASSUME NEW x \in Actors \ {a}
             PROVE  /\ \A w \in Workspaces : (slots'[w].lock = x) <=> Locking(x, w)'
                    /\ (admit' = x) <=> actor'[x].pc \in {"admit", "evict", "evicting"}
  BY DEF LockInv, LockStep
<1>1. SameActor(x) /\ x # NoOne
  BY ActorParts DEF LockStep, OnlyActor
<1>2. \A w \in Workspaces : Locking(x, w)' <=> Locking(x, w)
  BY <1>1 DEF Locking, SameActor, At
<1>3. \A w \in Workspaces : (slots'[w].lock = x) <=> (slots[w].lock = x)
  BY <1>1 DEF LockStep
<1>4. (admit' = x) <=> (admit = x)
  BY <1>1 DEF LockStep
<1> QED BY <1>1, <1>2, <1>3, <1>4 DEF LockInv, SameActor

(* A step of actor a that changes no slot another actor holds. *)
LEMMA PointFrame ==
  ASSUME PoolTypeOK, LockInv, PointInv, NEW a \in Actors, OnlyActor(a), PointOf(a)',
         \A w \in Workspaces : \/ slots[w].lock \in {a, NoOne}
                               \/ slots'[w].backend = slots[w].backend /\ slots'[w].users = slots[w].users,
         DOMAIN backends \subseteq DOMAIN backends',
         pool.phase \in {"open", "waiting"} => pool'.phase \in {"open", "waiting"},
         \A w \in Workspaces : slots'[w].backend \in DOMAIN backends' \cup {0}
  PROVE  PointInv'
<1> SUFFICES ASSUME NEW x \in Actors \ {a} PROVE PointOf(x)'
  BY DEF PointInv
<1>1. SameActor(x) /\ x # NoOne /\ NoOne \notin Workspaces /\ PointOf(x)
  BY ActorParts DEF OnlyActor, PointInv
<1>2. \A w \in Workspaces : Locking(x, w) => slots'[w].backend = slots[w].backend /\ slots'[w].users = slots[w].users
  BY <1>1 DEF LockInv
<1>4. actor[x].pc \in {"closeold", "restarting", "reaping"} => Closable(actor[x].ws)'
  BY <1>1, <1>2 DEF PointOf, Closable, Locking, Holding, SameActor
<1>5. At(x, "evicting") => Closable(actor[x].victim)'
  BY <1>1, <1>2 DEF PointOf, Closable, Locking, Holding, SameActor
<1>6. actor[x].pc \in Starting /\ actor[x].ws # NoOne => slots'[actor[x].ws].backend = 0
  <2>1. actor[x].ws \in Workspaces \cup {NoOne}
    BY DEF PoolTypeOK, Actor
  <2> QED BY <1>1, <1>2, <2>1 DEF PointOf, Locking, Holding, Starting
<1> QED BY <1>1, <1>4, <1>5, <1>6 DEF PointOf, SameActor, At, Closable

(* Leases are counted anew only when one is taken or returned. *)
LEMMA LeaseFrame ==
  ASSUME LeaseInv, \A w \in Workspaces : slots'[w].users = slots[w].users,
         \A x \in Lessees : \/ actor'[x].pc = actor[x].pc /\ actor'[x].ws = actor[x].ws
                            \/ actor'[x].pc # "using" /\ actor[x].pc # "using"
  PROVE  LeaseInv'
<1>1. \A w \in Workspaces : Leases(w)' = Leases(w)
  BY DEF Leases, At
<1> QED BY <1>1 DEF LeaseInv

(* Reservations stay in order where no provider and no reservation changes. *)
LEMMA OwnedFrame ==
  ASSUME OwnedInv, backends' = backends, owned' = owned, pool'.phase = "closed" => pool.phase = "closed"
  PROVE  OwnedInv'
BY DEF OwnedInv

(* A step that moves no provider. *)
LEMMA PlaceFrame ==
  ASSUME PlaceInv, Emptying => Emptying', DOMAIN backends' = DOMAIN backends, PointInv,
         \A b \in DOMAIN backends : backends'[b].state = backends[b].state,
         \A w \in Workspaces : slots'[w].backend = slots[w].backend,
         \A x \in Lessees : SameActor(x) \/ (actor'[x].pc \notin Claiming \cup {"using"} /\ actor[x].pc \notin Claiming)
  PROVE  PlaceInv'
<1> SUFFICES ASSUME ~Emptying, SlotPlaces, CallerPlaces, NoneLost
             PROVE  SlotPlaces' /\ CallerPlaces' /\ NoneLost'
  BY DEF PlaceInv
<1>0. Lessees \subseteq Actors
  BY ActorParts
<1>1. SlotPlaces'
  BY DEF SlotPlaces, PointInv
<1>2. CallerPlaces'
  <2> SUFFICES ASSUME NEW c \in Lessees, actor'[c].pc \in Claiming \cup {"using"}
               PROVE  /\ actor'[c].pc \in Claiming =>
                           /\ backends'[actor'[c].backend].state = IF actor'[c].pc = "open" THEN "opening" ELSE "open"
                           /\ \A w \in Workspaces : slots'[w].backend # actor'[c].backend
                           /\ \A d \in Lessees \ {c} : actor'[d].pc \in Claiming => actor'[d].backend # actor'[c].backend
                      /\ actor'[c].pc = "using" => slots'[actor'[c].ws].backend = actor'[c].backend
    BY DEF CallerPlaces, At
  <2>1. SameActor(c) /\ PointOf(c)
    BY <1>0 DEF PointInv
  <2>2. actor[c].backend \in DOMAIN backends /\ (actor[c].pc = "using" => actor[c].ws \in Workspaces)
    BY <2>1 DEF PointOf, SameActor, WithSlot
  <2>3. \A d \in Lessees \ {c} : actor'[d].pc \in Claiming => actor[d].pc \in Claiming /\ actor'[d].backend = actor[d].backend
    BY DEF SameActor
  <2> QED BY <2>1, <2>2, <2>3 DEF CallerPlaces, SameActor, At
<1>3. NoneLost'
  <2> SUFFICES ASSUME NEW b \in DOMAIN backends, backends[b].state \in {"opening", "open"}
               PROVE  \/ \E w \in Workspaces : slots'[w].backend = b
                      \/ \E c \in Lessees : actor'[c].pc \in Claiming /\ actor'[c].backend = b
    BY DEF NoneLost
  <2>1. \A c \in Lessees : actor[c].pc \in Claiming => actor'[c].pc \in Claiming /\ actor'[c].backend = actor[c].backend
    BY DEF SameActor
  <2> QED BY <2>1 DEF NoneLost
<1> QED BY <1>1, <1>2, <1>3

(* A step that gives no epoch out. *)
LEMMA EpochFrame ==
  ASSUME EpochInv, PointInv, Emptying => Emptying', given' = given,
         \A b \in DOMAIN backends : backends'[b].epoch = backends[b].epoch,
         \A w \in Workspaces : /\ slots'[w].backend = slots[w].backend
                               /\ slots[w].backend = 0 => slots'[w].epoch = slots[w].epoch,
         \A x \in Lessees : SameActor(x) \/ actor'[x].pc \notin {"open", "install"}
  PROVE  EpochInv'
<1>0. Lessees \subseteq Actors
  BY ActorParts
<1>1. ASSUME ~Emptying', NEW w \in Workspaces
      PROVE given'[w] <= IF slots'[w].backend = 0 THEN slots'[w].epoch ELSE backends'[slots'[w].backend].epoch
  BY <1>1 DEF EpochInv, PointInv
<1>2. ASSUME NEW c \in Lessees, actor'[c].pc \in {"open", "install"}, actor'[c].ws # NoOne
      PROVE  backends'[actor'[c].backend].epoch > given'[actor'[c].ws]
  <2>1. SameActor(c) /\ PointOf(c)
    BY <1>0, <1>2 DEF PointInv
  <2>2. actor[c].backend \in DOMAIN backends
    BY <1>2, <2>1 DEF PointOf, SameActor, Claiming
  <2> QED BY <1>2, <2>1, <2>2 DEF EpochInv, SameActor
<1> QED BY <1>1, <1>2 DEF EpochInv

(* A step of one actor that gives out no lease, moves no provider and touches only
   locks of its own. *)
LEMMA QuietMove ==
  ASSUME PoolTypeOK, PoolInv, NEW a \in Actors, actor' \in [Actors -> Actor], slots' \in [Workspaces -> Slot],
         LockStep(a), admit' \in Actors \cup {NoOne}, PointOf(a)',
         UNCHANGED <<owned, backends, earlier, pool, given>>,
         \A w \in Workspaces : /\ slots'[w].backend = slots[w].backend /\ slots'[w].users = slots[w].users
                               /\ slots[w].backend = 0 => slots'[w].epoch = slots[w].epoch,
         {actor[a].pc, actor'[a].pc} \cap (Claiming \cup {"using"}) = {}
  PROVE  PoolTypeOK' /\ PoolInv'
<1>1. PoolTypeOK'
  BY DEF PoolTypeOK
<1>2. OnlyActor(a) /\ Lessees \subseteq Actors /\ (Emptying => Emptying')
  BY ActorParts DEF LockStep, Emptying
<1>3. LockInv'
  BY LockFrame DEF PoolInv
<1>4. PointInv'
  <2>1. \A w \in Workspaces : slots'[w].backend \in DOMAIN backends' \cup {0}
    BY DEF PoolInv, PointInv
  <2> QED BY <1>2, <2>1, PointFrame DEF PoolInv
<1>5. LeaseInv'
  <2>1. \A x \in Lessees : \/ actor'[x].pc = actor[x].pc /\ actor'[x].ws = actor[x].ws
                           \/ actor'[x].pc # "using" /\ actor[x].pc # "using"
    BY <1>2 DEF OnlyActor, SameActor
  <2> QED BY <2>1, LeaseFrame DEF PoolInv
<1>6. OwnedInv'
  BY OwnedFrame DEF PoolInv
<1>7. \A x \in Lessees : SameActor(x) \/ {actor[x].pc, actor'[x].pc} \cap (Claiming \cup {"using"}) = {}
  BY <1>2 DEF OnlyActor
<1>8. PlaceInv'
  <2>1. \A x \in Lessees : SameActor(x) \/ (actor'[x].pc \notin Claiming \cup {"using"} /\ actor[x].pc \notin Claiming)
    BY <1>7
  <2> QED BY <1>2, <2>1, PlaceFrame DEF PoolInv
<1>9. EpochInv'
  <2>1. \A x \in Lessees : SameActor(x) \/ actor'[x].pc \notin {"open", "install"}
    BY <1>7 DEF Claiming
  <2> QED BY <1>2, <2>1, EpochFrame DEF PoolInv
<1> QED BY <1>1, <1>3, <1>4, <1>5, <1>6, <1>8, <1>9 DEF PoolInv

-----------------------------------------------------------------------------
(* The steps that give out no lease and close no provider. *)

(* A call that fails while it holds at most its own slot and the admission. *)
LEMMA FailSafe ==
  ASSUME PoolTypeOK, PoolInv, NEW c \in Lessees, Fail(c), actor[c].pc \notin Claiming \cup {"using", "evicting"},
         IF admit = c THEN admit' = NoOne ELSE admit' = admit,
         UNCHANGED <<owned, backends, earlier, pool, given>>
  PROVE  PoolTypeOK' /\ PoolInv'
<1>0. c \in Actors /\ NoOne \notin Actors /\ NoOne \notin Workspaces /\ c # Reaper
  BY ActorParts
<1>1. /\ actor' \in [Actors -> Actor] /\ OnlyActor(c) /\ slots' \in [Workspaces -> Slot]
      /\ actor'[c].pc = "idle"
      /\ \A w \in Workspaces :
           /\ slots'[w].backend = slots[w].backend /\ slots'[w].users = slots[w].users
           /\ slots'[w].epoch = slots[w].epoch
           /\ slots'[w].lock = IF slots[w].lock = c THEN NoOne ELSE slots[w].lock
  BY <1>0, FailEffect DEF Idle
<1>2. LockStep(c)
  BY <1>0, <1>1 DEF LockStep, Locking, At, Holding
<1>3. PointOf(c)'
  BY <1>0, <1>1 DEF PointOf, At, WithSlot, Starting, Claiming
<1>4. admit' \in Actors \cup {NoOne}
  BY DEF PoolTypeOK
<1> QED BY <1>0, <1>1, <1>2, <1>3, <1>4, QuietMove DEF Claiming

(* A request begins with nothing held (Canonical, Existing, Restart,
   stageIntoSandbox). *)
LEMMA AskSafe ==
  ASSUME PoolTypeOK, PoolInv, NEW c \in Lessees, NEW w \in Workspaces,
         NEW pc \in {"lock", "existing", "restart", "reserve"}, Ask(c, w, pc)
  PROVE  PoolTypeOK' /\ PoolInv'
<1>0. c \in Actors /\ NoOne \notin Actors /\ NoOne \notin Workspaces /\ c # Reaper
  BY ActorParts
<1> DEFINE r == IF pc = "reserve" THEN [Idle EXCEPT !.pc = pc] ELSE [Idle EXCEPT !.pc = pc, !.ws = w]
<1>1. r \in Actor /\ r.pc = pc /\ r.ws = IF pc = "reserve" THEN NoOne ELSE w
  BY IdleIsActor DEF Actor, Pc, Idle
<1>2. actor' = [actor EXCEPT ![c] = r] /\ UNCHANGED <<owned, backends, slots, earlier, admit, pool, given>>
      /\ actor[c].pc = "idle"
  BY DEF Ask, At
<1>3. actor' \in [Actors -> Actor] /\ OnlyActor(c) /\ actor'[c].pc = pc /\ actor'[c].ws = IF pc = "reserve" THEN NoOne ELSE w
  <2> HIDE DEF r
  <2> QED BY <1>0, <1>1, <1>2, SetEffect
<1>4. LockStep(c)
  <2>1. \A v \in Workspaces : slots[v].lock # c
    BY <1>0, <1>2 DEF PoolInv, LockInv, Locking, At, Holding
  <2>2. admit # c
    BY <1>0, <1>2 DEF PoolInv, LockInv
  <2> QED BY <1>0, <1>2, <1>3, <2>1, <2>2 DEF LockStep, Locking, At, Holding
<1>5. PointOf(c)'
  BY <1>0, <1>2, <1>3 DEF PointOf, At, WithSlot, Starting, Claiming
<1> HIDE DEF r
<1> QED BY <1>0, <1>2, <1>3, <1>4, <1>5, QuietMove DEF PoolTypeOK, Claiming

(* Canonical takes the lock of its slot. *)
LEMMA LockSlotSafe ==
  ASSUME PoolTypeOK, PoolInv, NEW c \in Lessees, LockSlot(c)
  PROVE  PoolTypeOK' /\ PoolInv'
<1> DEFINE w == actor[c].ws
<1>a. c \in Actors /\ NoOne \notin Actors /\ NoOne \notin Workspaces /\ c # Reaper /\ actor[c].pc = "lock"
  BY ActorParts DEF LockSlot, At
<1>0. w \in Workspaces /\ slots[w].lock = NoOne
  BY <1>a DEF LockSlot, PoolInv, PointInv, PointOf, WithSlot
<1>1. /\ actor' \in [Actors -> Actor] /\ OnlyActor(c) /\ actor'[c].pc = "look" /\ actor'[c].ws = w
  BY <1>a, PoolGoEffect DEF LockSlot, Pc
<1>2. /\ slots' \in [Workspaces -> Slot]
      /\ \A v \in Workspaces \ {w} : slots'[v] = slots[v]
      /\ slots'[w].lock = c /\ slots'[w].backend = slots[w].backend
      /\ slots'[w].users = slots[w].users /\ slots'[w].epoch = slots[w].epoch
  BY <1>a, <1>0, LockEffect DEF LockSlot
<1>3. UNCHANGED <<owned, backends, earlier, admit, pool, given>>
  BY DEF LockSlot
<1> HIDE DEF w
<1>4. LockStep(c)
  <2>1. \A v \in Workspaces : slots[v].lock # c
    BY <1>a DEF PoolInv, LockInv, Locking, At, Holding
  <2>2. admit # c
    BY <1>a DEF PoolInv, LockInv
  <2> QED BY <1>a, <1>0, <1>1, <1>2, <1>3, <2>1, <2>2 DEF LockStep, Locking, At, Holding
<1>5. PointOf(c)'
  BY <1>a, <1>0, <1>1 DEF PointOf, At, WithSlot, Starting, Claiming
<1> QED BY <1>a, <1>0, <1>1, <1>2, <1>3, <1>4, <1>5, QuietMove DEF PoolTypeOK, Claiming

(* A call that moves on and keeps the locks it has. *)
LEMMA GoSafe ==
  ASSUME PoolTypeOK, PoolInv, NEW c \in Lessees, NEW pc \in Pc, Go(c, pc),
         actor[c].pc \notin Claiming \cup {"using", "evicting"}, pc \notin Claiming \cup {"using", "evicting"},
         actor[c].pc \in Holding <=> pc \in Holding, PointOf(c)',
         actor[c].pc \notin {"admit", "evict"}, pc \notin {"admit", "evict"},
         UNCHANGED <<owned, backends, slots, earlier, admit, pool, given>>
  PROVE  PoolTypeOK' /\ PoolInv'
<1>a. c \in Actors /\ NoOne \notin Actors
  BY ActorParts
<1>1. actor' \in [Actors -> Actor] /\ OnlyActor(c) /\ actor'[c].pc = pc /\ actor'[c].ws = actor[c].ws
  BY <1>a, PoolGoEffect
<1>2. LockStep(c)
  BY <1>a, <1>1 DEF PoolInv, LockInv, LockStep, Locking, At
<1>3. {actor[c].pc, actor'[c].pc} \cap (Claiming \cup {"using"}) = {}
  BY <1>1
<1>4. slots' \in [Workspaces -> Slot] /\ admit' \in Actors \cup {NoOne}
  BY DEF PoolTypeOK
<1>5. \A w \in Workspaces : /\ slots'[w].backend = slots[w].backend /\ slots'[w].users = slots[w].users
                            /\ slots[w].backend = 0 => slots'[w].epoch = slots[w].epoch
  OBVIOUS
<1> QED BY <1>a, <1>1, <1>2, <1>3, <1>4, <1>5, QuietMove

-----------------------------------------------------------------------------
(* Leases. *)

(* A caller gets the provider of a slot it has locked, or that nobody has locked. *)
LEMMA LeaseSafe ==
  ASSUME PoolTypeOK, PoolInv, NEW c \in Lessees, NEW w \in Workspaces, NEW b \in DOMAIN backends, leaseLocked(c, w, b),
         UNCHANGED <<owned, backends, admit, pool>>, actor[c].ws = w,
         \/ actor[c].pc = "look" /\ slots[w].backend = b
         \/ actor[c].pc = "existing" /\ slots[w].backend = b /\ slots[w].lock = NoOne
         \/ actor[c].pc = "install" /\ actor[c].backend = b
  PROVE  PoolTypeOK' /\ PoolInv'
<1>a. c \in Actors /\ NoOne \notin Actors /\ NoOne \notin Workspaces /\ c # Reaper /\ Lessees \subseteq Actors
  BY ActorParts
<1>b. b # 0 /\ b \in Nat /\ backends[b].epoch \in Nat
  <2>1. backends \in Seq(Backend) /\ DOMAIN backends = 1 .. Len(backends)
    BY DEF PoolTypeOK
  <2>2. backends[b] \in Backend
    BY <2>1
  <2> QED BY <2>1, <2>2 DEF Backend
<1>1. /\ actor' \in [Actors -> Actor] /\ OnlyActor(c)
      /\ actor'[c].pc = "using" /\ actor'[c].ws = w /\ actor'[c].backend = b
  BY LeaseEffect
<1>2. /\ slots' \in [Workspaces -> Slot]
      /\ \A v \in Workspaces \ {w} : slots'[v] = slots[v]
      /\ slots'[w].users = slots[w].users + 1 /\ slots'[w].lock = NoOne
      /\ slots'[w].backend = b /\ slots'[w].epoch = slots[w].epoch
  BY LeaseEffect
<1>3. /\ given' \in [Workspaces -> Nat] /\ earlier' \subseteq Workspaces \X Workspaces
      /\ \A v \in Workspaces \ {w} : given'[v] = given[v]
      /\ given'[w] = IF backends[b].epoch > given[w] THEN backends[b].epoch ELSE given[w]
  BY LeaseEffect
<1>4. \A v \in Workspaces : slots[v].lock = c => v = w
  BY <1>a DEF PoolInv, LockInv, Locking, At
<1>5. slots[w].lock \in {NoOne, c}
  BY <1>a DEF PoolInv, LockInv, Locking, Holding
<1>6. actor[c].pc = "install" => slots[w].backend = 0
  BY <1>a DEF PoolInv, PointInv, PointOf, Starting
<1>7. PoolTypeOK'
  BY <1>1, <1>2, <1>3 DEF PoolTypeOK
<1>8. LockInv'
  <2>1. admit # c
    BY <1>a DEF PoolInv, LockInv
  <2>2. LockStep(c)
    BY <1>a, <1>1, <1>2, <1>4, <1>5, <2>1 DEF LockStep, Locking, At, Holding
  <2> QED BY <1>a, <2>2, LockFrame DEF PoolInv
<1>9. PointInv'
  <2>1. PointOf(c)'
    BY <1>a, <1>1 DEF PointOf, At, WithSlot, Starting, Claiming
  <2>2. \A v \in Workspaces : slots'[v].backend \in DOMAIN backends' \cup {0}
    BY <1>2 DEF PoolInv, PointInv
  <2>3. \A v \in Workspaces : \/ slots[v].lock \in {c, NoOne}
                              \/ slots'[v].backend = slots[v].backend /\ slots'[v].users = slots[v].users
    BY <1>2, <1>5
  <2> QED BY <1>a, <1>1, <2>1, <2>2, <2>3, PointFrame DEF PoolInv
<1>10. LeaseInv'
  <2>1. \A v \in Workspaces \ {w} : Leases(v)' = Leases(v)
    BY <1>a, <1>1 DEF Leases, At, OnlyActor, SameActor
  <2>2. Leases(w)' = Leases(w) \cup {c} /\ c \notin Leases(w)
    BY <1>a, <1>1 DEF Leases, At, OnlyActor, SameActor
  <2>3. IsFiniteSet(Leases(w)) /\ slots[w].users = Cardinality(Leases(w))
    BY DEF PoolInv, LeaseInv
  <2>4. IsFiniteSet(Leases(w)') /\ slots'[w].users = Cardinality(Leases(w)')
    BY <1>2, <2>2, <2>3, FS_AddElement
  <2> QED BY <1>2, <2>1, <2>4 DEF PoolInv, LeaseInv
<1>11. OwnedInv'
  BY OwnedFrame DEF PoolInv
<1>12. PlaceInv'
  <2> SUFFICES ASSUME ~Emptying, SlotPlaces, CallerPlaces, NoneLost
               PROVE  SlotPlaces' /\ CallerPlaces' /\ NoneLost'
    BY DEF PoolInv, PlaceInv, Emptying
  <2>1. CASE slots[w].backend = b
    <3>1. \A v \in Workspaces : slots'[v].backend = slots[v].backend
      BY <1>2, <2>1
    <3>2. actor[c].pc \notin Claiming \cup {"using"}
      BY <1>b, <1>6, <2>1 DEF Claiming
    <3>3. \A x \in Lessees : \/ x = c /\ actor'[x].pc = "using" /\ actor'[x].ws = w /\ actor'[x].backend = b
                             \/ x # c /\ actor'[x].pc = actor[x].pc /\ actor'[x].ws = actor[x].ws /\ actor'[x].backend = actor[x].backend
      BY <1>a, <1>1 DEF OnlyActor, SameActor
    <3>4. SlotPlaces'
      BY <3>1 DEF SlotPlaces
    <3>5. CallerPlaces'
      <4> SUFFICES ASSUME NEW x \in Lessees
                   PROVE  /\ actor'[x].pc \in Claiming =>
                               /\ backends'[actor'[x].backend].state = IF actor'[x].pc = "open" THEN "opening" ELSE "open"
                               /\ \A v \in Workspaces : slots'[v].backend # actor'[x].backend
                               /\ \A d \in Lessees \ {x} : actor'[d].pc \in Claiming => actor'[d].backend # actor'[x].backend
                          /\ actor'[x].pc = "using" => slots'[actor'[x].ws].backend = actor'[x].backend
        BY DEF CallerPlaces, At
      <4>1. CASE x = c
        BY <1>2, <3>3, <4>1 DEF Claiming
      <4>2. CASE x # c
        <5>1. \A d \in Lessees : actor'[d].pc \in Claiming => actor[d].pc \in Claiming /\ actor'[d].backend = actor[d].backend
          BY <3>3 DEF Claiming
        <5>2. SameActor(x) /\ (actor[x].pc = "using" => actor[x].ws \in Workspaces)
          BY <1>a, <1>1, <4>2 DEF OnlyActor, PoolInv, PointInv, PointOf, WithSlot
        <5>3. actor[x].pc = "using" => slots'[actor[x].ws].backend = actor[x].backend
          BY <3>1, <5>2 DEF CallerPlaces, At
        <5>4. actor[x].pc \in Claiming =>
                   /\ backends[actor[x].backend].state = IF actor[x].pc = "open" THEN "opening" ELSE "open"
                   /\ \A v \in Workspaces : slots'[v].backend # actor[x].backend
                   /\ \A d \in Lessees \ {x} : actor'[d].pc \in Claiming => actor'[d].backend # actor[x].backend
          BY <3>1, <5>1 DEF CallerPlaces, At
        <5> QED BY <5>2, <5>3, <5>4 DEF SameActor
      <4> QED BY <4>1, <4>2
    <3>6. NoneLost'
      BY <3>1, <3>2, <3>3 DEF NoneLost, Claiming
    <3> QED BY <3>4, <3>5, <3>6
  <2>2. CASE actor[c].pc = "install"
    <3>0. slots[w].backend = 0 /\ actor[c].backend = b /\ actor[c].pc \in Claiming
      BY <1>b, <1>6, <2>2 DEF Claiming
    <3>1. \A v \in Workspaces : slots'[v].backend = IF v = w THEN b ELSE slots[v].backend
      BY <1>2
    <3>2. backends[b].state = "open" /\ (\A v \in Workspaces : slots[v].backend # b)
          /\ \A d \in Lessees \ {c} : actor[d].pc \in Claiming => actor[d].backend # b
      BY <2>2, <3>0 DEF CallerPlaces, At
    <3>3. \A x \in Lessees : \/ x = c /\ actor'[x].pc = "using" /\ actor'[x].ws = w /\ actor'[x].backend = b
                             \/ x # c /\ actor'[x].pc = actor[x].pc /\ actor'[x].ws = actor[x].ws /\ actor'[x].backend = actor[x].backend
      BY <1>a, <1>1 DEF OnlyActor, SameActor
    <3>s. SlotPlaces'
      BY <1>b, <3>1, <3>2 DEF SlotPlaces
    <3>4. \A x \in Lessees : actor[x].pc = "using" => actor[x].ws \in Workspaces \ {w}
      <4> SUFFICES ASSUME NEW x \in Lessees, actor[x].pc = "using" PROVE actor[x].ws \in Workspaces \ {w}
        OBVIOUS
      <4>1. actor[x].ws \in Workspaces /\ actor[x].backend \in DOMAIN backends
        BY <1>a DEF PoolInv, PointInv, PointOf, WithSlot
      <4>2. slots[actor[x].ws].backend # 0
        BY <4>1 DEF CallerPlaces, At, PoolTypeOK
      <4> QED BY <3>0, <4>1, <4>2
    <3>5. CallerPlaces'
      BY <3>1, <3>2, <3>3, <3>4 DEF CallerPlaces, At, Claiming
    <3>6. NoneLost'
      <4> SUFFICES ASSUME NEW p \in DOMAIN backends, backends[p].state \in {"opening", "open"}
                   PROVE  \/ \E v \in Workspaces : slots'[v].backend = p
                          \/ \E x \in Lessees : actor'[x].pc \in Claiming /\ actor'[x].backend = p
        BY DEF NoneLost
      <4>1. CASE p = b
        BY <1>2, <4>1
      <4>2. CASE \E v \in Workspaces : slots[v].backend = p
        <5>1. PICK v \in Workspaces : slots[v].backend = p
          BY <4>2
        <5>2. v # w
          BY <1>b, <3>0, <5>1 DEF PoolTypeOK
        <5> QED BY <3>1, <5>1, <5>2
      <4>3. CASE p # b /\ \E x \in Lessees : actor[x].pc \in Claiming /\ actor[x].backend = p
        BY <3>0, <3>3, <4>3
      <4> QED BY <4>1, <4>2, <4>3 DEF NoneLost
    <3> QED BY <3>s, <3>5, <3>6
  <2> QED BY <2>1, <2>2
<1>13. EpochInv'
  <2>1. given[w] \in Nat
    BY DEF PoolTypeOK
  <2>2. ASSUME ~Emptying', NEW v \in Workspaces
        PROVE given'[v] <= IF slots'[v].backend = 0 THEN slots'[v].epoch ELSE backends'[slots'[v].backend].epoch
    <3>1. CASE v # w
      BY <1>2, <1>3, <2>2, <3>1 DEF PoolInv, EpochInv, Emptying
    <3>2. CASE v = w
      <4>1. CASE slots[w].backend = b
        <5>1. given[w] <= backends[b].epoch
          BY <1>b, <2>2, <4>1 DEF PoolInv, EpochInv, Emptying
        <5> QED BY <1>b, <1>2, <1>3, <2>1, <3>2, <5>1
      <4>2. CASE actor[c].pc = "install"
        <5>1. backends[b].epoch > given[w]
          BY <1>a, <1>b, <1>6, <4>2 DEF PoolInv, EpochInv
        <5> QED BY <1>b, <1>2, <1>3, <2>1, <3>2, <5>1
      <4> QED BY <4>1, <4>2
    <3> QED BY <3>1, <3>2
  <2>3. ASSUME NEW x \in Lessees, actor'[x].pc \in {"open", "install"}, actor'[x].ws # NoOne
        PROVE  backends'[actor'[x].backend].epoch > given'[actor'[x].ws]
    <3>1. x # c /\ SameActor(x)
      BY <1>a, <1>1, <2>3 DEF OnlyActor
    <3>2. actor[x].ws \in Workspaces
      BY <1>a, <2>3, <3>1 DEF PoolTypeOK, Actor, SameActor
    <3>3. slots[actor[x].ws].backend = 0 /\ slots[actor[x].ws].lock = x
      BY <1>a, <2>3, <3>1, <3>2 DEF PoolInv, PointInv, PointOf, LockInv, Locking, Holding, Starting, SameActor
    <3>4. actor[x].ws # w
      <4>1. slots[w].backend = b \/ slots[w].lock = c
        BY <1>a DEF PoolInv, LockInv, Locking, Holding
      <4> QED BY <1>b, <3>1, <3>3, <4>1
    <3> QED BY <1>3, <2>3, <3>1, <3>2, <3>4 DEF PoolInv, EpochInv, SameActor
  <2> QED BY <2>2, <2>3 DEF EpochInv
<1> QED BY <1>7, <1>8, <1>9, <1>10, <1>11, <1>12, <1>13 DEF PoolInv

(* A caller that has not reached the admission does not hold it. *)
LEMMA NotAdmitted ==
  ASSUME PoolInv, NEW a \in Actors, actor[a].pc \notin {"admit", "evict", "evicting"}
  PROVE  admit # a
BY DEF PoolInv, LockInv

(* Canonical under the lock: an error, the lease of a healthy provider, or a way to
   a new one. *)
LEMMA CanonicalSafe ==
  ASSUME PoolTypeOK, PoolInv, NEW c \in Lessees, Canonical(c)
  PROVE  PoolTypeOK' /\ PoolInv'
<1> DEFINE w == actor[c].ws
           b == slots[w].backend
<1>a. c \in Actors /\ actor[c].pc = "look" /\ c # Reaper
  BY ActorParts DEF Canonical, At
<1>b. w \in Workspaces /\ b \in DOMAIN backends \cup {0}
  BY <1>a DEF PoolInv, PointInv, PointOf, WithSlot
<1>0. UNCHANGED <<owned, backends, admit, pool>> /\ admit # c
  BY <1>a, NotAdmitted DEF Canonical
<1>1. CASE Fail(c) /\ UNCHANGED <<earlier, given>>
  BY <1>a, <1>0, <1>1, FailSafe DEF Claiming
<1>2. CASE b # 0 /\ leaseLocked(c, w, b)
  <2>1. b \in DOMAIN backends
    BY <1>b, <1>2
  <2> HIDE DEF w, b
  <2>2. actor[c].ws = w /\ slots[w].backend = b
    BY DEF w, b
  <2> QED BY <1>a, <1>b, <1>0, <1>2, <2>1, <2>2, LeaseSafe
<1>3. ASSUME NEW pc \in {"closeold", "reserve"}, Go(c, pc), UNCHANGED <<slots, earlier, given>>,
             pc = "closeold" => b # 0 /\ slots[w].users = 0, pc = "reserve" => b = 0
      PROVE  PoolTypeOK' /\ PoolInv'
  <2>1. pc \in Pc
    BY DEF Pc
  <2>2. actor'[c].pc = pc /\ actor'[c].ws = w
    BY <1>a, <1>3, <2>1, PoolGoEffect
  <2>3. PointOf(c)'
    BY <1>a, <1>b, <1>3, <2>2 DEF PointOf, At, WithSlot, Starting, Claiming, Closable
  <2> QED BY <1>a, <1>0, <1>3, <2>1, <2>3, GoSafe DEF Holding, Claiming
<1>4. \/ Fail(c) /\ UNCHANGED <<earlier, given>>
      \/ b # 0 /\ leaseLocked(c, w, b)
      \/ /\ Go(c, IF b # 0 THEN "closeold" ELSE "reserve") /\ UNCHANGED <<slots, earlier, given>>
         /\ b # 0 => slots[w].users = 0
  BY DEF Canonical
<1>5. CASE /\ Go(c, IF b # 0 THEN "closeold" ELSE "reserve") /\ UNCHANGED <<slots, earlier, given>>
           /\ b # 0 => slots[w].users = 0
  <2>1. CASE b # 0
    BY <1>3, <1>5, <2>1
  <2>2. CASE b = 0
    BY <1>3, <1>5, <2>2
  <2> QED BY <2>1, <2>2
<1> QED BY <1>1, <1>2, <1>4, <1>5

(* Existing leases what there is or fails. *)
LEMMA ExistingSafe ==
  ASSUME PoolTypeOK, PoolInv, NEW c \in Lessees, Existing(c)
  PROVE  PoolTypeOK' /\ PoolInv'
<1> DEFINE w == actor[c].ws
           b == slots[w].backend
<1>a. c \in Actors /\ actor[c].pc = "existing"
  BY ActorParts DEF Existing, At
<1>b. w \in Workspaces /\ b \in DOMAIN backends \cup {0} /\ slots[w].lock = NoOne
  BY <1>a DEF Existing, PoolInv, PointInv, PointOf, WithSlot
<1>0. UNCHANGED <<owned, backends, admit, pool>> /\ admit # c
  BY <1>a, NotAdmitted DEF Existing
<1>1. CASE Fail(c) /\ UNCHANGED <<earlier, given>>
  BY <1>a, <1>0, <1>1, FailSafe DEF Claiming
<1>2. CASE b # 0 /\ leaseLocked(c, w, b)
  <2>1. b \in DOMAIN backends
    BY <1>b, <1>2
  <2> HIDE DEF w, b
  <2>2. actor[c].ws = w /\ slots[w].backend = b
    BY DEF w, b
  <2> QED BY <1>a, <1>b, <1>0, <1>2, <2>1, <2>2, LeaseSafe
<1> QED BY <1>1, <1>2 DEF Existing

(* The end of Canonical: the new provider enters its slot and is leased. *)
LEMMA InstallSafe ==
  ASSUME PoolTypeOK, PoolInv, NEW c \in Lessees, Install(c)
  PROVE  PoolTypeOK' /\ PoolInv'
<1> DEFINE w == actor[c].ws
           b == actor[c].backend
<1>a. c \in Actors /\ actor[c].pc = "install"
  BY ActorParts DEF Install, At
<1>b. w \in Workspaces /\ b \in DOMAIN backends
  BY <1>a DEF PoolInv, PointInv, PointOf, WithSlot, Claiming
<1>0. UNCHANGED <<owned, backends, admit, pool>> /\ leaseLocked(c, w, b)
  BY DEF Install
<1>1. actor[c].ws = w /\ actor[c].backend = b
  OBVIOUS
<1> HIDE DEF w, b
<1> QED BY <1>a, <1>b, <1>0, <1>1, LeaseSafe

(* Restart takes the slot of an unused provider, or asks for a provider where there
   is none. *)
LEMMA RestartSafe ==
  ASSUME PoolTypeOK, PoolInv, NEW c \in Lessees, Restart(c)
  PROVE  PoolTypeOK' /\ PoolInv'
<1> DEFINE w == actor[c].ws
<1>a. c \in Actors /\ actor[c].pc = "restart" /\ NoOne \notin Actors /\ c # Reaper /\ NoOne \notin Workspaces
  BY ActorParts DEF Restart, At
<1>b. w \in Workspaces /\ slots[w].lock = NoOne
  BY <1>a DEF Restart, PoolInv, PointInv, PointOf, WithSlot
<1>0. UNCHANGED <<owned, backends, earlier, admit, pool, given>> /\ admit # c
  BY <1>a, NotAdmitted DEF Restart
<1>1. CASE Fail(c)
  BY <1>a, <1>0, <1>1, FailSafe DEF Claiming
<1>2. CASE Go(c, "lock") /\ UNCHANGED slots
  <2>1. "lock" \in Pc
    BY DEF Pc
  <2>2. actor'[c].pc = "lock" /\ actor'[c].ws = w
    BY <1>a, <1>2, <2>1, PoolGoEffect
  <2>3. PointOf(c)'
    BY <1>a, <1>b, <2>2 DEF PointOf, At, WithSlot, Starting, Claiming, Closable
  <2> QED BY <1>a, <1>0, <1>2, <2>1, <2>3, GoSafe DEF Holding, Claiming
<1>3. CASE SetLock(w, c) /\ Go(c, "restarting") /\ slots[w].users = 0 /\ slots[w].backend # 0
  <2>1. actor' \in [Actors -> Actor] /\ OnlyActor(c) /\ actor'[c].pc = "restarting" /\ actor'[c].ws = w
    BY <1>a, <1>3, PoolGoEffect DEF Pc
  <2>2. /\ slots' \in [Workspaces -> Slot]
        /\ \A v \in Workspaces \ {w} : slots'[v] = slots[v]
        /\ slots'[w].lock = c /\ slots'[w].backend = slots[w].backend
        /\ slots'[w].users = slots[w].users /\ slots'[w].epoch = slots[w].epoch
    BY <1>a, <1>b, <1>3, LockEffect
  <2> HIDE DEF w
  <2>3. LockStep(c)
    <3>1. \A v \in Workspaces : slots[v].lock # c
      BY <1>a DEF PoolInv, LockInv, Locking, At, Holding
    <3> QED BY <1>a, <1>b, <1>0, <2>1, <2>2, <3>1 DEF LockStep, Locking, At, Holding
  <2>4. PointOf(c)'
    BY <1>a, <1>b, <1>3, <2>1, <2>2 DEF PointOf, At, WithSlot, Starting, Claiming, Closable
  <2> QED BY <1>a, <1>b, <1>0, <2>1, <2>2, <2>3, <2>4, QuietMove DEF PoolTypeOK, Claiming
<1> QED BY <1>1, <1>2, <1>3 DEF Restart

-----------------------------------------------------------------------------
(* Reserving. *)

(* reserve takes the admission lock. *)
LEMMA LockAdmitSafe ==
  ASSUME PoolTypeOK, PoolInv, NEW c \in Lessees, LockAdmit(c)
  PROVE  PoolTypeOK' /\ PoolInv'
<1>a. c \in Actors /\ actor[c].pc = "reserve" /\ NoOne \notin Actors /\ c # Reaper
  BY ActorParts DEF LockAdmit, At
<1>0. UNCHANGED <<owned, backends, slots, earlier, pool, given>> /\ admit = NoOne /\ admit' = c
  BY DEF LockAdmit
<1>1. actor' \in [Actors -> Actor] /\ OnlyActor(c) /\ actor'[c].pc = "admit" /\ actor'[c].ws = actor[c].ws
  BY <1>a, PoolGoEffect DEF LockAdmit, Pc
<1>2. LockStep(c)
  BY <1>a, <1>0, <1>1 DEF PoolInv, LockInv, LockStep, Locking, At, Holding
<1>3. PointOf(c)'
  BY <1>a, <1>0, <1>1 DEF PoolInv, PointInv, PointOf, At, WithSlot, Starting, Claiming
<1> QED BY <1>a, <1>0, <1>1, <1>2, <1>3, QuietMove DEF PoolTypeOK, Claiming

(* The evictor takes its candidate, which nobody has locked and which is not the slot
   it wants a provider for. *)
LEMMA EvictSafe ==
  ASSUME PoolTypeOK, PoolInv, NEW c \in Lessees, evictLRU(c)
  PROVE  PoolTypeOK' /\ PoolInv'
<1>a. c \in Actors /\ actor[c].pc = "evict" /\ NoOne \notin Actors /\ c # Reaper /\ NoOne \notin Workspaces
  BY ActorParts DEF evictLRU, At
<1>0. UNCHANGED <<owned, backends, earlier, pool, given>> /\ admit = c
  BY <1>a DEF evictLRU, PoolInv, LockInv
<1>b. actor[c] \in Actor
  BY <1>a DEF PoolTypeOK
<1>1. CASE Fail(c) /\ admit' = NoOne
  BY <1>a, <1>0, <1>1, FailSafe DEF Claiming
<1>2. ASSUME NEW w \in Workspaces, Evictable(w), SetLock(w, c), UNCHANGED admit,
             actor' = [actor EXCEPT ![c] = [actor[c] EXCEPT !.pc = "evicting", !.victims = actor[c].victims \ {w}, !.victim = w]]
      PROVE  PoolTypeOK' /\ PoolInv'
  <2> DEFINE r == [actor[c] EXCEPT !.pc = "evicting", !.victims = actor[c].victims \ {w}, !.victim = w]
  <2>1. r \in Actor /\ r.pc = "evicting" /\ r.ws = actor[c].ws /\ r.victim = w
    BY <1>b DEF Actor, Pc
  <2>2. actor' = [actor EXCEPT ![c] = r]
    BY <1>2
  <2> HIDE DEF r
  <2>3. actor' \in [Actors -> Actor] /\ OnlyActor(c) /\ actor'[c].pc = "evicting" /\ actor'[c].ws = actor[c].ws
        /\ actor'[c].victim = w
    BY <1>a, <2>1, <2>2, SetEffect
  <2>4. /\ slots' \in [Workspaces -> Slot]
        /\ \A v \in Workspaces \ {w} : slots'[v] = slots[v]
        /\ slots'[w].lock = c /\ slots'[w].backend = slots[w].backend
        /\ slots'[w].users = slots[w].users /\ slots'[w].epoch = slots[w].epoch
    BY <1>a, <1>2, LockEffect
  <2>5. slots[w].lock = NoOne /\ slots[w].backend # 0 /\ slots[w].users = 0
    BY <1>2 DEF Evictable
  <2>6. w # actor[c].ws
    BY <1>a, <2>5 DEF PoolInv, LockInv, Locking, Holding
  <2>7. \A v \in Workspaces : (slots[v].lock = c) <=> (v = actor[c].ws)
    BY <1>a DEF PoolInv, LockInv, Locking, Holding, At
  <2>8. LockStep(c)
    BY <1>a, <1>0, <1>2, <2>3, <2>4, <2>5, <2>7 DEF LockStep, Locking, At, Holding
  <2>9. PointOf(c)'
    <3>1. actor[c].ws # NoOne => slots[actor[c].ws].backend = 0 /\ actor[c].ws \in Workspaces
      BY <1>a, <1>b DEF PoolInv, PointInv, PointOf, Starting, Actor
    <3>2. actor[c].ws # NoOne => slots'[actor[c].ws].backend = 0
      BY <2>4, <2>6, <3>1
    <3> QED BY <1>a, <2>3, <2>4, <2>5, <2>6, <3>2 DEF PointOf, At, WithSlot, Starting, Claiming, Closable
  <2> QED BY <1>a, <1>0, <1>2, <2>3, <2>4, <2>8, <2>9, QuietMove DEF PoolTypeOK, Claiming
<1>3. ASSUME NEW ws \in SUBSET Workspaces, UNCHANGED <<slots, admit>>,
             actor' = [actor EXCEPT ![c] = [actor[c] EXCEPT !.victims = ws]]
      PROVE  PoolTypeOK' /\ PoolInv'
  <2> DEFINE r == [actor[c] EXCEPT !.victims = ws]
  <2>1. r \in Actor /\ r.pc = "evict" /\ r.ws = actor[c].ws
    BY <1>a, <1>b DEF Actor, Pc
  <2>2. actor' = [actor EXCEPT ![c] = r]
    BY <1>3
  <2> HIDE DEF r
  <2>3. actor' \in [Actors -> Actor] /\ OnlyActor(c) /\ actor'[c].pc = "evict" /\ actor'[c].ws = actor[c].ws
    BY <1>a, <2>1, <2>2, SetEffect
  <2>4. LockStep(c)
    BY <1>a, <1>3, <2>3 DEF PoolInv, LockInv, LockStep, Locking, At, Holding
  <2>5. PointOf(c)'
    BY <1>a, <1>3, <2>3 DEF PoolInv, PointInv, PointOf, At, WithSlot, Starting, Claiming
  <2> QED BY <1>a, <1>0, <1>3, <2>3, <2>4, <2>5, QuietMove DEF PoolTypeOK, Claiming
<1>4. \A w \in Workspaces : actor[c].victims \ {w} \in SUBSET Workspaces
  BY <1>b DEF Actor
<1>5. CASE ~(Fail(c) /\ admit' = NoOne)
  <2>1. PICK w \in Workspaces :
          /\ IF Evictable(w)
             THEN /\ SetLock(w, c)
                  /\ actor' = [actor EXCEPT ![c] = [actor[c] EXCEPT !.pc = "evicting", !.victims = actor[c].victims \ {w}, !.victim = w]]
             ELSE actor' = [actor EXCEPT ![c] = [actor[c] EXCEPT !.victims = actor[c].victims \ {w}]] /\ UNCHANGED slots
          /\ UNCHANGED admit
    BY <1>5 DEF evictLRU
  <2>2. CASE Evictable(w)
    BY <1>2, <2>1, <2>2
  <2>3. CASE ~Evictable(w)
    BY <1>3, <1>4, <2>1, <2>3
  <2> QED BY <2>2, <2>3
<1> QED BY <1>1, <1>5

(* The reaper locks a slot it found idle (ReapIdle). *)
LEMMA ReapIdleSafe ==
  ASSUME PoolTypeOK, PoolInv, NEW w \in Workspaces, ReapIdle(w)
  PROVE  PoolTypeOK' /\ PoolInv'
<1>a. Reaper \in Actors /\ actor[Reaper].pc = "idle" /\ NoOne \notin Actors /\ NoOne \notin Workspaces
  BY ActorParts DEF ReapIdle, At
<1>0. UNCHANGED <<owned, backends, earlier, admit, pool, given>> /\ admit # Reaper
      /\ slots[w].lock = NoOne /\ slots[w].backend # 0 /\ slots[w].users = 0
  BY <1>a, NotAdmitted DEF ReapIdle, Evictable
<1> DEFINE r == [Idle EXCEPT !.pc = "reaping", !.ws = w]
<1>1. r \in Actor /\ r.pc = "reaping" /\ r.ws = w
  BY IdleIsActor DEF Actor, Pc, Idle
<1>2. actor' = [actor EXCEPT ![Reaper] = r]
  BY DEF ReapIdle
<1> HIDE DEF r
<1>3. actor' \in [Actors -> Actor] /\ OnlyActor(Reaper) /\ actor'[Reaper].pc = "reaping" /\ actor'[Reaper].ws = w
  BY <1>a, <1>1, <1>2, SetEffect
<1>4. /\ slots' \in [Workspaces -> Slot]
      /\ \A v \in Workspaces \ {w} : slots'[v] = slots[v]
      /\ slots'[w].lock = Reaper /\ slots'[w].backend = slots[w].backend
      /\ slots'[w].users = slots[w].users /\ slots'[w].epoch = slots[w].epoch
  BY <1>a, LockEffect DEF ReapIdle
<1>5. \A v \in Workspaces : slots[v].lock # Reaper
  BY <1>a DEF PoolInv, LockInv, Locking, Holding, At
<1>6. LockStep(Reaper)
  BY <1>a, <1>0, <1>3, <1>4, <1>5 DEF LockStep, Locking, At, Holding
<1>7. PointOf(Reaper)'
  BY <1>a, <1>0, <1>3, <1>4 DEF PointOf, At, WithSlot, Starting, Claiming, Closable
<1> QED BY <1>a, <1>0, <1>3, <1>4, <1>6, <1>7, QuietMove DEF PoolTypeOK, Claiming

(* A reservation: a provider in no place but its caller's, after every epoch its slot
   has seen. *)
LEMMA ReservedSafe ==
  ASSUME PoolTypeOK, PoolInv, NEW c \in Lessees, reserve(c), ~isClosed, Cardinality(owned) < MaxProviders
  PROVE  PoolTypeOK' /\ PoolInv'
<1> DEFINE n == Len(backends) + 1
           w == actor[c].ws
           after == IF w = NoOne THEN 0 ELSE slots[w].epoch
           p == [state |-> "opening", healthy |-> TRUE, epoch |-> after + 1]
           r == [actor[c] EXCEPT !.pc = "open", !.backend = n]
<1>a. c \in Actors /\ actor[c].pc = "admit" /\ NoOne \notin Actors /\ c # Reaper /\ NoOne \notin Workspaces
      /\ Lessees \subseteq Actors
  BY ActorParts DEF reserve, At
<1>b. backends \in Seq(Backend) /\ Len(backends) \in Nat /\ DOMAIN backends = 1 .. Len(backends) /\ owned \subseteq DOMAIN backends
      /\ actor[c] \in Actor /\ n \in Nat /\ n # 0 /\ n \notin DOMAIN backends
  BY <1>a DEF PoolTypeOK
<1>0. /\ backends' = Append(backends, p) /\ owned' = owned \cup {n}
      /\ actor' = [actor EXCEPT ![c] = r] /\ admit' = NoOne
      /\ UNCHANGED <<slots, earlier, pool, given>> /\ pool.phase = "open" /\ admit = c
  BY <1>a DEF reserve, isClosed, PoolInv, LockInv
<1>1. after \in Nat /\ p \in Backend /\ p.state = "opening" /\ p.epoch = after + 1
  <2>1. after \in Nat
    BY <1>b DEF PoolTypeOK, Actor, Slot
  <2> QED BY <2>1 DEF Backend
<1>2. r \in Actor /\ r.pc = "open" /\ r.backend = n /\ r.ws = w
  BY <1>b DEF Actor, Pc
<1> HIDE DEF p, r
<1>3. /\ backends' \in Seq(Backend) /\ DOMAIN backends' = DOMAIN backends \cup {n}
      /\ backends'[n] = p /\ \A b \in DOMAIN backends : backends'[b] = backends[b]
  BY <1>0, <1>1, <1>b
<1>4. /\ actor' \in [Actors -> Actor] /\ OnlyActor(c)
      /\ actor'[c].pc = "open" /\ actor'[c].ws = w /\ actor'[c].backend = n
  BY <1>a, <1>0, <1>2, SetEffect
<1> HIDE DEF n
<1>5. PoolTypeOK'
  BY <1>b, <1>0, <1>3, <1>4 DEF PoolTypeOK
<1>6. LockInv'
  <2>1. LockStep(c)
    BY <1>a, <1>0, <1>4 DEF PoolInv, LockInv, LockStep, Locking, At, Holding
  <2> QED BY <1>a, <2>1, LockFrame DEF PoolInv
<1>7. PointInv'
  <2>1. PointOf(c)'
    BY <1>a, <1>0, <1>3, <1>4 DEF PoolInv, PointInv, PointOf, At, WithSlot, Starting, Claiming, Closable
  <2>2. \A v \in Workspaces : slots'[v].backend \in DOMAIN backends' \cup {0}
    BY <1>0, <1>3 DEF PoolInv, PointInv
  <2> QED BY <1>a, <1>0, <1>3, <1>4, <2>1, <2>2, PointFrame DEF PoolInv
<1>s. \A x \in Lessees : \/ x = c /\ actor'[x].pc = "open" /\ actor'[x].ws = w /\ actor'[x].backend = n
                         \/ x # c /\ SameActor(x)
  BY <1>a, <1>4 DEF OnlyActor
<1>8. LeaseInv'
  BY <1>a, <1>0, <1>s, LeaseFrame DEF PoolInv, SameActor
<1>9. OwnedInv'
  <2>1. n \notin owned /\ IsFiniteSet(owned) /\ Cardinality(owned) \in Nat
    BY <1>b, FS_CardinalityType DEF PoolInv, OwnedInv
  <2>2. IsFiniteSet(owned') /\ Cardinality(owned') <= MaxProviders
    <3>1. IsFiniteSet(owned \cup {n}) /\ Cardinality(owned \cup {n}) = Cardinality(owned) + 1
      BY <2>1, FS_AddElement
    <3> QED BY <1>0, <2>1, <3>1
  <2>3. {b \in DOMAIN backends' : backends'[b].state # "closed"} = owned'
    BY <1>0, <1>1, <1>3 DEF PoolInv, OwnedInv
  <2> QED BY <1>0, <2>2, <2>3 DEF OwnedInv
<1>u. /\ \A v \in Workspaces : slots[v].backend \in DOMAIN backends \cup {0}
      /\ \A x \in Lessees : actor[x].pc \in Claiming \cup {"using"} => actor[x].backend \in DOMAIN backends
      /\ \A x \in Lessees : actor[x].pc = "using" => actor[x].ws \in Workspaces
  BY <1>a DEF PoolInv, PointInv, PointOf, WithSlot
<1>10. PlaceInv'
  <2>0. SlotPlaces /\ CallerPlaces /\ NoneLost
    BY <1>0 DEF PoolInv, PlaceInv, Emptying
  <2>1. SlotPlaces'
    BY <1>0, <1>3, <1>u, <2>0 DEF SlotPlaces
  <2>2. CallerPlaces'
    <3> SUFFICES ASSUME NEW x \in Lessees
                 PROVE  /\ actor'[x].pc \in Claiming =>
                             /\ backends'[actor'[x].backend].state = IF actor'[x].pc = "open" THEN "opening" ELSE "open"
                             /\ \A v \in Workspaces : slots'[v].backend # actor'[x].backend
                             /\ \A d \in Lessees \ {x} : actor'[d].pc \in Claiming => actor'[d].backend # actor'[x].backend
                        /\ actor'[x].pc = "using" => slots'[actor'[x].ws].backend = actor'[x].backend
      BY DEF CallerPlaces, At
    <3>1. \A d \in Lessees \ {c} : actor'[d].pc \in Claiming =>
             actor[d].pc \in Claiming /\ actor'[d].backend = actor[d].backend /\ actor[d].backend \in DOMAIN backends
      BY <1>s, <1>u DEF SameActor
    <3>2. CASE x = c
      BY <1>b, <1>0, <1>1, <1>3, <1>s, <1>u, <3>1, <3>2
    <3>3. CASE x # c
      <4>1. SameActor(x)
        BY <1>s, <3>3
      <4>2. ASSUME actor[x].pc \in Claiming
            PROVE  /\ backends[actor[x].backend].state = IF actor[x].pc = "open" THEN "opening" ELSE "open"
                   /\ \A v \in Workspaces : slots[v].backend # actor[x].backend
                   /\ \A d \in Lessees \ {x} : actor[d].pc \in Claiming => actor[d].backend # actor[x].backend
                   /\ actor[x].backend \in DOMAIN backends
        BY <1>u, <2>0, <4>2 DEF CallerPlaces, At
      <4>3. actor[x].pc \in Claiming =>
              \A d \in Lessees \ {x} : actor'[d].pc \in Claiming => actor'[d].backend # actor[x].backend
        BY <1>b, <1>s, <3>1, <4>2
      <4>4. actor[x].pc = "using" => slots[actor[x].ws].backend = actor[x].backend
        BY <2>0 DEF CallerPlaces, At
      <4> QED BY <1>0, <1>3, <4>1, <4>2, <4>3, <4>4 DEF SameActor
    <3> QED BY <3>2, <3>3
  <2>3. NoneLost'
    <3> SUFFICES ASSUME NEW b \in DOMAIN backends \cup {n}, backends'[b].state \in {"opening", "open"}
                 PROVE  \/ \E v \in Workspaces : slots[v].backend = b
                        \/ \E x \in Lessees : actor'[x].pc \in Claiming /\ actor'[x].backend = b
      BY <1>0, <1>3 DEF NoneLost
    <3>1. CASE b = n
      BY <1>s, <3>1 DEF Claiming
    <3>2. CASE b # n
      <4>1. \A x \in Lessees : actor[x].pc \in Claiming => SameActor(x)
        BY <1>a, <1>s DEF Claiming
      <4>2. backends[b].state \in {"opening", "open"} /\ b \in DOMAIN backends
        BY <1>3, <3>2
      <4> QED BY <2>0, <4>1, <4>2 DEF NoneLost, SameActor
    <3> QED BY <3>1, <3>2
  <2> QED BY <2>1, <2>2, <2>3 DEF PlaceInv
<1>11. EpochInv'
  <2>1. ASSUME NEW v \in Workspaces
        PROVE given'[v] <= IF slots'[v].backend = 0 THEN slots'[v].epoch ELSE backends'[slots'[v].backend].epoch
    BY <1>0, <1>3, <1>u DEF PoolInv, EpochInv, Emptying
  <2>2. ASSUME NEW x \in Lessees, actor'[x].pc \in {"open", "install"}, actor'[x].ws # NoOne
        PROVE  backends'[actor'[x].backend].epoch > given'[actor'[x].ws]
    <3>1. CASE x = c
      <4>1. w \in Workspaces /\ slots[w].backend = 0
        BY <1>a, <1>s, <2>2, <3>1 DEF PoolTypeOK, Actor, PoolInv, PointInv, PointOf, Starting
      <4>2. given[w] <= after
        BY <1>a, <1>0, <4>1 DEF PoolInv, EpochInv, Emptying
      <4>3. given[w] \in Nat
        BY <4>1 DEF PoolTypeOK
      <4>4. actor'[x].ws = w /\ actor'[x].backend = n /\ given'[w] = given[w]
        BY <1>0, <1>4, <3>1
      <4>5. backends'[n].epoch = after + 1 /\ after \in Nat
        BY <1>1, <1>3
      <4>6. after + 1 > given[w]
        BY <4>2, <4>3, <4>5
      <4> QED BY <4>4, <4>5, <4>6
    <3>2. CASE x # c
      <4>1. SameActor(x)
        BY <1>s, <3>2
      <4>2. actor[x].backend \in DOMAIN backends
        BY <1>u, <2>2, <4>1 DEF Claiming, SameActor
      <4> QED BY <1>0, <1>3, <2>2, <4>1, <4>2 DEF PoolInv, EpochInv, SameActor
    <3> QED BY <3>1, <3>2
  <2> QED BY <2>1, <2>2 DEF EpochInv
<1> QED BY <1>5, <1>6, <1>7, <1>8, <1>9, <1>10, <1>11 DEF PoolInv

(* reserve, whichever way it goes: closed, reserved, or on to the eviction. *)
LEMMA ReserveSafe ==
  ASSUME PoolTypeOK, PoolInv, NEW c \in Lessees, reserve(c)
  PROVE  PoolTypeOK' /\ PoolInv'
<1>a. c \in Actors /\ actor[c].pc = "admit" /\ NoOne \notin Actors /\ c # Reaper
  BY ActorParts DEF reserve, At
<1>0. UNCHANGED <<earlier, pool, given>> /\ admit = c
  BY <1>a DEF reserve, PoolInv, LockInv
<1>1. CASE isClosed
  BY <1>a, <1>0, <1>1, FailSafe DEF reserve, Claiming
<1>2. CASE ~isClosed /\ Cardinality(owned) < MaxProviders
  BY <1>2, ReservedSafe
<1>3. CASE ~isClosed /\ ~(Cardinality(owned) < MaxProviders)
  <2>0. actor' = [actor EXCEPT ![c] = [actor[c] EXCEPT !.pc = "evict", !.victims = Candidates]]
        /\ UNCHANGED <<owned, backends, slots, admit>>
    BY <1>3 DEF reserve
  <2> DEFINE r == [actor[c] EXCEPT !.pc = "evict", !.victims = Candidates]
  <2>1. actor[c] \in Actor /\ Candidates \in SUBSET Workspaces
    BY <1>a DEF PoolTypeOK, Candidates
  <2>2. r \in Actor /\ r.pc = "evict" /\ r.ws = actor[c].ws
    BY <2>1 DEF Actor, Pc
  <2>3. actor' = [actor EXCEPT ![c] = r]
    BY <2>0
  <2> HIDE DEF r
  <2>4. actor' \in [Actors -> Actor] /\ OnlyActor(c) /\ actor'[c].pc = "evict" /\ actor'[c].ws = actor[c].ws
    BY <1>a, <2>2, <2>3, SetEffect
  <2>5. LockStep(c)
    BY <1>a, <2>0, <2>4 DEF PoolInv, LockInv, LockStep, Locking, At, Holding
  <2>6. PointOf(c)'
    BY <1>a, <2>0, <2>4 DEF PoolInv, PointInv, PointOf, At, WithSlot, Starting, Claiming
  <2> QED BY <1>a, <1>0, <2>0, <2>4, <2>5, <2>6, QuietMove DEF PoolTypeOK, Claiming
<1> QED BY <1>1, <1>2, <1>3

-----------------------------------------------------------------------------
(* Opening and closing. *)

(* Replacing one provider record keeps the type and the others. *)
LEMMA BackendEffect ==
  ASSUME PoolTypeOK, NEW b \in DOMAIN backends, NEW r \in Backend, backends' = [backends EXCEPT ![b] = r]
  PROVE  /\ backends' \in Seq(Backend) /\ DOMAIN backends' = DOMAIN backends
         /\ backends'[b] = r /\ \A x \in DOMAIN backends \ {b} : backends'[x] = backends[x]
<1>1. backends \in Seq(Backend) /\ DOMAIN backends = 1 .. Len(backends) /\ Len(backends) \in Nat
  BY DEF PoolTypeOK
<1>2. backends \in [1 .. Len(backends) -> Backend]
  BY <1>1
<1>3. backends' \in [1 .. Len(backends) -> Backend]
  BY <1>1, <1>2
<1> QED BY <1>1, <1>2, <1>3

(* What the invariant says of every reference to a provider. *)
LEMMA Referenced ==
  ASSUME PoolTypeOK, PoolInv
  PROVE  /\ \A v \in Workspaces : slots[v].backend \in DOMAIN backends \cup {0}
         /\ \A x \in Lessees : actor[x].pc \in Claiming \cup {"using"} => actor[x].backend \in DOMAIN backends
         /\ \A x \in Lessees : actor[x].pc = "using" => actor[x].ws \in Workspaces
         /\ \A b \in DOMAIN backends : b \in Nat /\ b # 0 /\ backends[b] \in Backend
         /\ Cardinality(owned) \in Nat
BY ActorParts, FS_CardinalityType DEF PoolInv, PointInv, PointOf, WithSlot, PoolTypeOK, OwnedInv

(* Whoever gives reservations up leaves the others and the limit as they were. *)
LEMMA FewerOwned ==
  ASSUME OwnedInv, NEW bs, owned' = owned \ bs
  PROVE  IsFiniteSet(owned') /\ Cardinality(owned') <= MaxProviders
<1>1. IsFiniteSet(owned) /\ owned' \subseteq owned /\ Cardinality(owned) <= MaxProviders
  BY DEF OwnedInv
<1>2. IsFiniteSet(owned') /\ Cardinality(owned') <= Cardinality(owned)
  BY <1>1, FS_Subset
<1>3. Cardinality(owned) \in Nat /\ Cardinality(owned') \in Nat
  BY <1>1, <1>2, FS_CardinalityType
<1> QED BY <1>1, <1>2, <1>3

(* A slot without leases is nobody's. *)
LEMMA NoLease ==
  ASSUME LeaseInv, NEW w \in Workspaces, slots[w].users = 0
  PROVE  \A x \in Lessees : actor[x].pc = "using" => actor[x].ws # w
<1>1. Leases(w) = {}
  BY FS_EmptySet DEF LeaseInv
<1> QED BY <1>1 DEF Leases, At

(* The provider of an unleased slot that its holder closes. *)
LEMMA ShutSafe ==
  ASSUME PoolTypeOK, PoolInv, NEW a \in Actors, NEW w \in Workspaces, NEW unlock \in BOOLEAN, ShutSlot(w, unlock),
         Closable(w), slots[w].lock = a, actor' \in [Actors -> Actor], LockStep(a), PointOf(a)',
         {actor[a].pc, actor'[a].pc} \cap (Claiming \cup {"using"}) = {},
         UNCHANGED <<earlier, admit, pool, given>>
  PROVE  PoolTypeOK' /\ PoolInv'
<1> DEFINE b == slots[w].backend
<1>a. b \in DOMAIN backends /\ b # 0 /\ slots[w].users = 0 /\ Lessees \subseteq Actors
  BY Referenced, ActorParts DEF Closable
<1>1. /\ backends' \in Seq(Backend) /\ DOMAIN backends' = DOMAIN backends
      /\ \A x \in DOMAIN backends : /\ backends'[x].epoch = backends[x].epoch
                                    /\ x # b => backends'[x] = backends[x]
      /\ backends'[b].state = "closed" /\ owned' = owned \ {b}
  <2>1. CloseBackends({b})
    BY <1>a, ShutEffect
  <2> QED BY <1>a, <2>1, ClosedEffect
<1>2. /\ slots' \in [Workspaces -> Slot]
      /\ \A v \in Workspaces \ {w} : slots'[v] = slots[v]
      /\ slots'[w].backend = 0 /\ slots'[w].users = 0
      /\ slots'[w].epoch = backends[b].epoch
  BY <1>a, ShutEffect
<1>b. slots[w].backend = b
  OBVIOUS
<1> HIDE DEF b
<1>3. \A x \in Lessees : SameActor(x) \/ (actor'[x].pc \notin Claiming \cup {"using"} /\ actor[x].pc \notin Claiming \cup {"using"})
  BY <1>a DEF LockStep, OnlyActor
<1>4. PoolTypeOK'
  BY <1>1, <1>2 DEF PoolTypeOK
<1>5. LockInv'
  BY LockFrame DEF PoolInv
<1>6. PointInv'
  <2>1. \A v \in Workspaces : slots'[v].backend \in DOMAIN backends' \cup {0}
    BY <1>1, <1>2, Referenced
  <2>2. \A v \in Workspaces : \/ slots[v].lock \in {a, NoOne}
                              \/ slots'[v].backend = slots[v].backend /\ slots'[v].users = slots[v].users
    BY <1>2
  <2> QED BY <1>1, <2>1, <2>2, PointFrame DEF PoolInv, LockStep
<1>7. LeaseInv'
  <2>1. \A v \in Workspaces : slots'[v].users = slots[v].users
    BY <1>a, <1>2
  <2>2. \A x \in Lessees : \/ actor'[x].pc = actor[x].pc /\ actor'[x].ws = actor[x].ws
                           \/ actor'[x].pc # "using" /\ actor[x].pc # "using"
    BY <1>3 DEF SameActor
  <2> QED BY <2>1, <2>2, LeaseFrame DEF PoolInv
<1>8. OwnedInv'
  <2>1. {x \in DOMAIN backends' : backends'[x].state # "closed"} = owned'
    BY <1>a, <1>1 DEF PoolInv, OwnedInv
  <2>2. \A x \in DOMAIN backends' : backends'[x].state \in {"stuck", "closed", backends[x].state}
    BY <1>a, <1>1
  <2>3. IsFiniteSet(owned') /\ Cardinality(owned') <= MaxProviders
    BY <1>1, FewerOwned DEF PoolInv
  <2> QED BY <1>1, <2>1, <2>2, <2>3 DEF PoolInv, OwnedInv
<1>9. PlaceInv'
  <2> SUFFICES ASSUME ~Emptying, SlotPlaces, CallerPlaces, NoneLost
               PROVE  SlotPlaces' /\ CallerPlaces' /\ NoneLost'
    BY DEF PoolInv, PlaceInv, Emptying
  <2>1. SlotPlaces'
    BY <1>a, <1>b, <1>1, <1>2, Referenced DEF SlotPlaces
  <2>2. CallerPlaces'
    <3> SUFFICES ASSUME NEW x \in Lessees, actor'[x].pc \in Claiming \cup {"using"}
                 PROVE  /\ actor'[x].pc \in Claiming =>
                             /\ backends'[actor'[x].backend].state = IF actor'[x].pc = "open" THEN "opening" ELSE "open"
                             /\ \A v \in Workspaces : slots'[v].backend # actor'[x].backend
                             /\ \A d \in Lessees \ {x} : actor'[d].pc \in Claiming => actor'[d].backend # actor'[x].backend
                        /\ actor'[x].pc = "using" => slots'[actor'[x].ws].backend = actor'[x].backend
      BY DEF CallerPlaces, At
    <3>1. SameActor(x) /\ actor[x].backend \in DOMAIN backends /\ actor[x].backend # 0
      BY <1>3, Referenced DEF SameActor
    <3>2. \A d \in Lessees \ {x} : actor'[d].pc \in Claiming => actor[d].pc \in Claiming /\ actor'[d].backend = actor[d].backend
      BY <1>3 DEF SameActor
    <3>3. ASSUME actor[x].pc \in Claiming
          PROVE  /\ backends'[actor[x].backend].state = IF actor[x].pc = "open" THEN "opening" ELSE "open"
                 /\ \A v \in Workspaces : slots'[v].backend # actor[x].backend
                 /\ \A d \in Lessees \ {x} : actor'[d].pc \in Claiming => actor'[d].backend # actor[x].backend
      BY <1>b, <1>1, <1>2, <3>1, <3>2, <3>3 DEF CallerPlaces, At
    <3>4. ASSUME actor[x].pc = "using" PROVE slots'[actor[x].ws].backend = actor[x].backend
      <4>1. actor[x].ws \in Workspaces \ {w}
        BY <1>a, <3>4, NoLease, Referenced DEF PoolInv
      <4> QED BY <1>2, <3>4, <4>1 DEF CallerPlaces, At
    <3> QED BY <3>1, <3>3, <3>4 DEF SameActor
  <2>3. NoneLost'
    <3> SUFFICES ASSUME NEW p \in DOMAIN backends, backends'[p].state \in {"opening", "open"}
                 PROVE  \/ \E v \in Workspaces : slots'[v].backend = p
                        \/ \E x \in Lessees : actor'[x].pc \in Claiming /\ actor'[x].backend = p
      BY <1>1 DEF NoneLost
    <3>1. p # b /\ backends[p].state \in {"opening", "open"}
      BY <1>1
    <3>2. \A x \in Lessees : actor[x].pc \in Claiming => SameActor(x)
      BY <1>3
    <3>3. CASE \E v \in Workspaces : slots[v].backend = p
      BY <1>b, <1>2, <3>1, <3>3
    <3>4. CASE \E x \in Lessees : actor[x].pc \in Claiming /\ actor[x].backend = p
      BY <3>2, <3>4 DEF SameActor
    <3> QED BY <3>1, <3>3, <3>4 DEF NoneLost
  <2> QED BY <2>1, <2>2, <2>3
<1>10. EpochInv'
  <2>1. ASSUME ~Emptying', NEW v \in Workspaces
        PROVE given'[v] <= IF slots'[v].backend = 0 THEN slots'[v].epoch ELSE backends'[slots'[v].backend].epoch
    <3>1. given[v] <= IF slots[v].backend = 0 THEN slots[v].epoch ELSE backends[slots[v].backend].epoch
      BY <2>1 DEF PoolInv, EpochInv, Emptying
    <3>2. CASE v = w
      BY <1>a, <1>b, <1>2, <3>1, <3>2
    <3>3. CASE v # w
      BY <1>1, <1>2, <3>1, <3>3, Referenced
    <3> QED BY <3>2, <3>3
  <2>2. ASSUME NEW x \in Lessees, actor'[x].pc \in {"open", "install"}, actor'[x].ws # NoOne
        PROVE  backends'[actor'[x].backend].epoch > given'[actor'[x].ws]
    <3>1. SameActor(x)
      BY <1>3, <2>2 DEF Claiming
    <3>2. actor[x].backend \in DOMAIN backends
      BY <2>2, <3>1, Referenced DEF Claiming, SameActor
    <3> QED BY <1>1, <2>2, <3>1, <3>2 DEF PoolInv, EpochInv, SameActor
  <2> QED BY <2>1, <2>2 DEF EpochInv
<1> QED BY <1>4, <1>5, <1>6, <1>7, <1>8, <1>9, <1>10 DEF PoolInv

(* The provider of a slot that its holder cannot close. *)
LEMMA KeepSafe ==
  ASSUME PoolTypeOK, PoolInv, NEW a \in Actors, NEW w \in Workspaces, KeepSlot(w, TRUE),
         Closable(w), slots[w].lock = a, actor' \in [Actors -> Actor], LockStep(a), PointOf(a)',
         {actor[a].pc, actor'[a].pc} \cap (Claiming \cup {"using"}) = {},
         UNCHANGED <<earlier, admit, pool, given>>
  PROVE  PoolTypeOK' /\ PoolInv'
<1>1. slots[w].backend \in DOMAIN backends /\ slots[w].backend # 0
  BY Referenced DEF Closable
<1>2. /\ owned' = owned /\ backends' = backends
      /\ slots' \in [Workspaces -> Slot]
      /\ \A v \in Workspaces \ {w} : slots'[v] = slots[v]
      /\ slots'[w].backend = slots[w].backend /\ slots'[w].users = slots[w].users
  BY <1>1, KeepEffect
<1>3. admit' \in Actors \cup {NoOne}
  BY DEF PoolTypeOK
<1> QED BY <1>1, <1>2, <1>3, QuietMove

(* A Canonical closes the unhealthy provider of its slot, a Restart the provider it
   replaces. *)
LEMMA CloseOldSafe ==
  ASSUME PoolTypeOK, PoolInv, NEW c \in Lessees, CloseOld(c)
  PROVE  PoolTypeOK' /\ PoolInv'
<1> DEFINE w == actor[c].ws
<1>a. c \in Actors /\ actor[c].pc \in {"closeold", "restarting"} /\ NoOne \notin Actors /\ c # Reaper /\ NoOne \notin Workspaces
  BY ActorParts DEF CloseOld
<1>b. w \in Workspaces /\ Closable(w) /\ slots[w].lock = c /\ slots[w].backend \in DOMAIN backends
  <2>1. w \in Workspaces /\ Closable(w)
    BY <1>a DEF PoolInv, PointInv, PointOf, WithSlot
  <2>2. slots[w].lock = c
    BY <1>a, <2>1 DEF PoolInv, LockInv, Locking, Holding
  <2> QED BY <2>1, <2>2, Referenced DEF Closable
<1>c. \A v \in Workspaces : slots[v].lock = c => v = w
  BY <1>a DEF PoolInv, LockInv, Locking, At
<1>0. UNCHANGED <<earlier, admit, pool, given>> /\ admit # c
  BY <1>a, NotAdmitted DEF CloseOld
<1>1. ASSUME NEW unlock \in BOOLEAN, NEW pc \in {"lock", "reserve"}, unlock = (pc = "lock"),
             ShutSlot(w, unlock), Go(c, pc)
      PROVE  PoolTypeOK' /\ PoolInv'
  <2>1. actor' \in [Actors -> Actor] /\ OnlyActor(c) /\ actor'[c].pc = pc /\ actor'[c].ws = w
    BY <1>a, <1>1, PoolGoEffect DEF Pc
  <2>2. /\ slots' \in [Workspaces -> Slot]
        /\ \A v \in Workspaces \ {w} : slots'[v] = slots[v]
        /\ slots'[w].backend = 0 /\ slots'[w].lock = IF unlock THEN NoOne ELSE slots[w].lock
    BY <1>b, <1>1, ShutEffect
  <2>b. actor[c].ws = w
    OBVIOUS
  <2> HIDE DEF w
  <2>3. LockStep(c)
    <3>1. CASE unlock
      <4>1. pc = "lock" /\ slots'[w].lock = NoOne
        BY <1>1, <2>2, <3>1
      <4> QED BY <1>a, <1>b, <1>c, <1>0, <2>1, <2>2, <4>1 DEF LockStep, Locking, At, Holding
    <3>2. CASE ~unlock
      <4>1. pc = "reserve" /\ slots'[w].lock = c
        BY <1>b, <1>1, <2>2, <3>2
      <4> QED BY <1>a, <1>b, <1>c, <1>0, <2>1, <2>2, <4>1 DEF LockStep, Locking, At, Holding
    <3> QED BY <3>1, <3>2
  <2>4. PointOf(c)'
    BY <1>a, <1>b, <1>0, <1>1, <2>1, <2>2 DEF PointOf, At, WithSlot, Starting, Claiming
  <2> QED BY <1>a, <1>b, <1>0, <1>1, <2>1, <2>2, <2>3, <2>4, ShutSafe DEF Claiming
<1>2. CASE ShutSlot(w, At(c, "restarting")) /\ Go(c, IF At(c, "restarting") THEN "lock" ELSE "reserve")
  <2>1. CASE actor[c].pc = "restarting"
    <3>1. ShutSlot(w, TRUE) /\ Go(c, "lock")
      BY <1>2, <2>1 DEF At
    <3> QED BY <1>1, <3>1
  <2>2. CASE actor[c].pc = "closeold"
    <3>1. ShutSlot(w, FALSE) /\ Go(c, "reserve")
      BY <1>2, <2>2 DEF At
    <3> QED BY <1>1, <3>1
  <2> QED BY <1>a, <2>1, <2>2
<1>3. CASE KeepSlot(w, TRUE) /\ actor' = [actor EXCEPT ![c] = Idle]
  <2>1. actor' \in [Actors -> Actor] /\ OnlyActor(c) /\ actor'[c].pc = "idle"
    BY <1>a, <1>3, SetEffect, IdleIsActor DEF Idle
  <2>2. /\ \A v \in Workspaces \ {w} : slots'[v] = slots[v]
        /\ slots'[w].lock = NoOne
    BY <1>b, <1>3, KeepEffect
  <2> HIDE DEF w
  <2>3. LockStep(c)
    BY <1>a, <1>b, <1>c, <1>0, <2>1, <2>2 DEF LockStep, Locking, At, Holding
  <2>4. PointOf(c)'
    BY <1>a, <2>1 DEF PointOf, At, WithSlot, Starting, Claiming
  <2> QED BY <1>a, <1>b, <1>0, <1>3, <2>1, <2>3, <2>4, KeepSafe DEF Claiming
<1> QED BY <1>2, <1>3 DEF CloseOld

(* The evictor closes its candidate, or goes back to its list (evictLRU). *)
LEMMA EvictedSafe ==
  ASSUME PoolTypeOK, PoolInv, NEW c \in Lessees, Evicted(c)
  PROVE  PoolTypeOK' /\ PoolInv'
<1> DEFINE w == actor[c].victim
<1>a. c \in Actors /\ actor[c].pc = "evicting" /\ NoOne \notin Actors /\ c # Reaper /\ NoOne \notin Workspaces
      /\ actor[c] \in Actor
  BY ActorParts DEF Evicted, At, PoolTypeOK
<1>b. w \in Workspaces /\ Closable(w) /\ slots[w].lock = c /\ slots[w].backend \in DOMAIN backends /\ w # actor[c].ws
  <2>1. w \in Workspaces /\ Closable(w) /\ w # actor[c].ws
    BY <1>a DEF PoolInv, PointInv, PointOf, At, Closable
  <2>2. slots[w].lock = c
    BY <1>a, <2>1 DEF PoolInv, LockInv, Locking, At
  <2> QED BY <2>1, <2>2, Referenced DEF Closable
<1>c. \A v \in Workspaces \ {w} : (slots[v].lock = c) <=> (v = actor[c].ws)
  BY <1>a DEF PoolInv, LockInv, Locking, At, Holding
<1>d. actor[c].ws # NoOne => actor[c].ws \in Workspaces /\ slots[actor[c].ws].backend = 0
  BY <1>a DEF PoolInv, PointInv, PointOf, Starting, Actor
<1>0. UNCHANGED <<earlier, admit, pool, given>> /\ admit = c
  BY <1>a DEF Evicted, PoolInv, LockInv
<1>1. CASE ShutSlot(w, TRUE) /\ actor' = [actor EXCEPT ![c] = [actor[c] EXCEPT !.pc = "admit", !.victims = {}, !.victim = NoOne]]
  <2> DEFINE r == [actor[c] EXCEPT !.pc = "admit", !.victims = {}, !.victim = NoOne]
  <2>r. r \in Actor /\ r.pc = "admit" /\ r.ws = actor[c].ws
    BY <1>a DEF Actor, Pc
  <2>s. actor' = [actor EXCEPT ![c] = r]
    BY <1>1
  <2> HIDE DEF r
  <2>1. actor' \in [Actors -> Actor] /\ OnlyActor(c) /\ actor'[c].pc = "admit" /\ actor'[c].ws = actor[c].ws
    BY <1>a, <2>r, <2>s, SetEffect
  <2>2. /\ \A v \in Workspaces \ {w} : slots'[v] = slots[v]
        /\ slots'[w].lock = NoOne
    BY <1>b, <1>1, ShutEffect
  <2> HIDE DEF w
  <2>3. LockStep(c)
    BY <1>a, <1>b, <1>c, <1>0, <2>1, <2>2 DEF LockStep, Locking, At, Holding
  <2>4. PointOf(c)'
    BY <1>a, <1>b, <1>d, <2>1, <2>2 DEF PointOf, At, WithSlot, Starting, Claiming
  <2> QED BY <1>a, <1>b, <1>0, <1>1, <2>1, <2>3, <2>4, ShutSafe DEF Claiming
<1>2. CASE KeepSlot(w, TRUE) /\ actor' = [actor EXCEPT ![c] = [actor[c] EXCEPT !.pc = "evict", !.victim = NoOne]]
  <2> DEFINE r == [actor[c] EXCEPT !.pc = "evict", !.victim = NoOne]
  <2>r. r \in Actor /\ r.pc = "evict" /\ r.ws = actor[c].ws
    BY <1>a DEF Actor, Pc
  <2>s. actor' = [actor EXCEPT ![c] = r]
    BY <1>2
  <2> HIDE DEF r
  <2>1. actor' \in [Actors -> Actor] /\ OnlyActor(c) /\ actor'[c].pc = "evict" /\ actor'[c].ws = actor[c].ws
    BY <1>a, <2>r, <2>s, SetEffect
  <2>2. /\ \A v \in Workspaces \ {w} : slots'[v] = slots[v]
        /\ slots'[w].lock = NoOne
    BY <1>b, <1>2, KeepEffect
  <2> HIDE DEF w
  <2>3. LockStep(c)
    BY <1>a, <1>b, <1>c, <1>0, <2>1, <2>2 DEF LockStep, Locking, At, Holding
  <2>4. PointOf(c)'
    BY <1>a, <1>b, <1>d, <2>1, <2>2 DEF PointOf, At, WithSlot, Starting, Claiming
  <2> QED BY <1>a, <1>b, <1>0, <1>2, <2>1, <2>3, <2>4, KeepSafe DEF Claiming
<1> QED BY <1>1, <1>2 DEF Evicted

(* The reaper closes the provider of its slot, or keeps it (reapSlotLocked). *)
LEMMA ReapedSafe ==
  ASSUME PoolTypeOK, PoolInv, reapSlotLocked
  PROVE  PoolTypeOK' /\ PoolInv'
<1> DEFINE w == actor[Reaper].ws
<1>a. Reaper \in Actors /\ actor[Reaper].pc = "reaping" /\ NoOne \notin Actors /\ NoOne \notin Workspaces
  BY ActorParts DEF reapSlotLocked, At
<1>b. w \in Workspaces /\ Closable(w) /\ slots[w].lock = Reaper /\ slots[w].backend \in DOMAIN backends
  <2>1. w \in Workspaces /\ Closable(w)
    BY <1>a DEF PoolInv, PointInv, PointOf, WithSlot
  <2>2. slots[w].lock = Reaper
    BY <1>a, <2>1 DEF PoolInv, LockInv, Locking, Holding
  <2> QED BY <2>1, <2>2, Referenced DEF Closable
<1>c. \A v \in Workspaces : slots[v].lock = Reaper => v = w
  BY <1>a DEF PoolInv, LockInv, Locking, At
<1>0. UNCHANGED <<earlier, admit, pool, given>> /\ admit # Reaper
  BY <1>a, NotAdmitted DEF reapSlotLocked
<1>1. actor' \in [Actors -> Actor] /\ OnlyActor(Reaper) /\ actor'[Reaper].pc = "idle"
  BY <1>a, SetEffect, IdleIsActor DEF Idle, reapSlotLocked
<1>2. ShutSlot(w, TRUE) \/ KeepSlot(w, TRUE)
  BY DEF reapSlotLocked
<1>3. /\ \A v \in Workspaces \ {w} : slots'[v] = slots[v]
      /\ slots'[w].lock = NoOne
  BY <1>b, <1>2, KeepEffect, ShutEffect
<1> HIDE DEF w
<1>4. LockStep(Reaper)
  BY <1>a, <1>b, <1>c, <1>0, <1>1, <1>3 DEF LockStep, Locking, At, Holding
<1>5. PointOf(Reaper)'
  BY <1>a, <1>1 DEF PointOf, At, WithSlot, Starting, Claiming
<1>6. {actor[Reaper].pc, actor'[Reaper].pc} \cap (Claiming \cup {"using"}) = {}
  BY <1>a, <1>1 DEF Claiming
<1>7. CASE ShutSlot(w, TRUE)
  BY <1>a, <1>b, <1>0, <1>1, <1>4, <1>5, <1>6, <1>7, ShutSafe
<1>8. CASE KeepSlot(w, TRUE)
  BY <1>a, <1>b, <1>0, <1>1, <1>4, <1>5, <1>6, <1>8, KeepSafe
<1> QED BY <1>2, <1>7, <1>8

(* A lease returned: the slot counts one less. *)
LEMMA ReleaseSafe ==
  ASSUME PoolTypeOK, PoolInv, NEW c \in Lessees, Release(c)
  PROVE  PoolTypeOK' /\ PoolInv'
<1> SUFFICES ASSUME NEW w, w = actor[c].ws PROVE PoolTypeOK' /\ PoolInv'
  OBVIOUS
<1> DEFINE s == [slots[w] EXCEPT !.users = slots[w].users - 1]
<1>a. c \in Actors /\ actor[c].pc = "using" /\ NoOne \notin Actors /\ c # Reaper /\ NoOne \notin Workspaces
      /\ Lessees \subseteq Actors
  BY ActorParts DEF Release, At
<1>b. w \in Workspaces /\ slots[w].lock = NoOne /\ slots[w] \in Slot
  BY <1>a DEF Release, PoolInv, PointInv, PointOf, WithSlot, PoolTypeOK
<1>0. UNCHANGED <<owned, backends, admit, pool, given>> /\ Used(w) /\ slots' = [slots EXCEPT ![w] = s] /\ admit # c
  BY <1>a, NotAdmitted DEF Release
<1>1. PICK r \in Actor : /\ actor' = Strike(w, [actor EXCEPT ![c] = r])
                        /\ r.pc \in {"idle", "restart"} /\ (r.pc = "restart" => r.ws = w)
  <2>1. CASE actor' = Strike(w, [actor EXCEPT ![c] = Idle])
    <3>1. Idle.pc = "idle"
      BY DEF Idle
    <3> QED BY <2>1, <3>1, IdleIsActor
  <2>2. CASE actor' = Strike(w, [actor EXCEPT ![c] = [Idle EXCEPT !.pc = "restart", !.ws = w]])
    <3> DEFINE r == [Idle EXCEPT !.pc = "restart", !.ws = w]
    <3>1. r \in Actor /\ r.pc = "restart" /\ r.ws = w
      BY <1>b, RestartIsActor
    <3>2. actor' = Strike(w, [actor EXCEPT ![c] = r])
      BY <2>2
    <3> HIDE DEF r
    <3> QED BY <3>1, <3>2
  <2> QED BY <2>1, <2>2 DEF Release
<1>2. actor' \in [Actors -> Actor] /\ OnlyActor(c) /\ actor'[c].pc \in {"idle", "restart"}
      /\ (actor'[c].pc = "restart" => actor'[c].ws = w)
  <2> DEFINE after == [actor EXCEPT ![c] = r]
  <2>1. after \in [Actors -> Actor] /\ after[c] = r /\ \A x \in Actors \ {c} : after[x] = actor[x]
    BY <1>a DEF PoolTypeOK
  <2>2. actor' = Strike(w, after)
    BY <1>1
  <2> HIDE DEF after
  <2>3. /\ actor' \in [Actors -> Actor]
        /\ \A x \in Actors : /\ actor'[x].pc = after[x].pc /\ actor'[x].ws = after[x].ws
                             /\ actor'[x].backend = after[x].backend /\ actor'[x].victim = after[x].victim
    BY <2>1, <2>2, StrikeEffect
  <2>4. OnlyActor(c)
    BY <2>1, <2>3 DEF OnlyActor, SameActor
  <2>5. actor'[c].pc = r.pc /\ actor'[c].ws = r.ws
    BY <1>a, <2>1, <2>3
  <2> QED BY <1>1, <2>3, <2>4, <2>5
<1>3. IsFiniteSet(Leases(w)) /\ slots[w].users = Cardinality(Leases(w)) /\ c \in Leases(w)
  BY <1>a, <1>b DEF PoolInv, LeaseInv, Leases, At
<1>4. /\ IsFiniteSet(Leases(w) \ {c}) /\ Cardinality(Leases(w) \ {c}) = slots[w].users - 1
      /\ Cardinality(Leases(w) \ {c}) \in Nat
  BY <1>3, FS_RemoveElement, FS_CardinalityType
<1>5. s \in Slot /\ s.users = slots[w].users - 1 /\ s.lock = NoOne /\ s.backend = slots[w].backend /\ s.epoch = slots[w].epoch
  <2>1. slots[w].users - 1 \in Nat
    BY <1>4
  <2> QED BY <1>b, <2>1 DEF Slot
<1> HIDE DEF s
<1>6. slots' \in [Workspaces -> Slot] /\ slots'[w] = s /\ \A v \in Workspaces \ {w} : slots'[v] = slots[v]
  BY <1>b, <1>0, <1>5 DEF PoolTypeOK
<1>7. PoolTypeOK'
  BY <1>b, <1>0, <1>2, <1>6, UsedKeepsType DEF PoolTypeOK
<1>8. LockInv'
  <2>1. \A v \in Workspaces : slots[v].lock # c
    BY <1>a DEF PoolInv, LockInv, Locking, Holding, At
  <2>2. LockStep(c)
    BY <1>a, <1>b, <1>0, <1>2, <1>5, <1>6, <2>1 DEF LockStep, Locking, At, Holding
  <2> QED BY <1>a, <2>2, LockFrame DEF PoolInv
<1>p. \A v \in Workspaces : slots'[v].backend = slots[v].backend /\ slots'[v].epoch = slots[v].epoch
  BY <1>5, <1>6
<1>9. PointInv'
  <2>1. PointOf(c)'
    BY <1>a, <1>b, <1>2 DEF PointOf, At, WithSlot, Starting, Claiming
  <2>2. \A v \in Workspaces : slots'[v].backend \in DOMAIN backends' \cup {0}
    BY <1>0, <1>p, Referenced
  <2>3. \A v \in Workspaces : \/ slots[v].lock \in {c, NoOne}
                              \/ slots'[v].backend = slots[v].backend /\ slots'[v].users = slots[v].users
    BY <1>b, <1>6
  <2> QED BY <1>a, <1>0, <1>2, <2>1, <2>2, <2>3, PointFrame DEF PoolInv
<1>s. \A x \in Lessees : \/ x = c /\ actor'[x].pc \in {"idle", "restart"}
                         \/ x # c /\ SameActor(x)
  BY <1>a, <1>2 DEF OnlyActor
<1>10. LeaseInv'
  <2>1. \A v \in Workspaces \ {w} : Leases(v)' = Leases(v)
    BY <1>a, <1>s DEF Leases, At, SameActor
  <2>2. \A x \in Lessees : x \in Leases(w)' <=> x \in Leases(w) \ {c}
    BY <1>a, <1>s DEF Leases, At, SameActor
  <2>3. Leases(w)' = Leases(w) \ {c}
    BY <2>2 DEF Leases
  <2>4. IsFiniteSet(Leases(w)') /\ slots'[w].users = Cardinality(Leases(w)')
    BY <1>4, <1>5, <1>6, <2>3
  <2>5. ASSUME NEW v \in Workspaces \ {w}
        PROVE  IsFiniteSet(Leases(v)') /\ slots'[v].users = Cardinality(Leases(v)')
    BY <1>6, <2>1 DEF PoolInv, LeaseInv
  <2> QED BY <2>4, <2>5 DEF LeaseInv
<1>11. OwnedInv'
  BY <1>0, OwnedFrame DEF PoolInv
<1>12. PlaceInv'
  <2>1. \A x \in Lessees : SameActor(x) \/ (actor'[x].pc \notin Claiming \cup {"using"} /\ actor[x].pc \notin Claiming)
    BY <1>a, <1>s DEF Claiming
  <2> QED BY <1>0, <1>p, <2>1, PlaceFrame DEF PoolInv, Emptying
<1>13. EpochInv'
  <2>1. \A x \in Lessees : SameActor(x) \/ actor'[x].pc \notin {"open", "install"}
    BY <1>s
  <2> QED BY <1>0, <1>p, <2>1, EpochFrame DEF PoolInv, Emptying
<1> QED BY <1>7, <1>8, <1>9, <1>10, <1>11, <1>12, <1>13 DEF PoolInv

(* A start that ends well: its caller goes on to its slot, or keeps its provider. *)
LEMMA StartedSafe ==
  ASSUME PoolTypeOK, PoolInv, NEW c \in Lessees, NEW b, b = actor[c].backend, actor[c].pc = "open",
         backends' = [backends EXCEPT ![b] = [backends[b] EXCEPT !.state = "open"]],
         Go(c, IF actor[c].ws = NoOne THEN "pinned" ELSE "install"),
         UNCHANGED <<owned, slots, earlier, admit, pool, given>>
  PROVE  PoolTypeOK' /\ PoolInv'
<1> DEFINE pc == IF actor[c].ws = NoOne THEN "pinned" ELSE "install"
           r == [backends[b] EXCEPT !.state = "open"]
<1>a. c \in Actors /\ NoOne \notin Actors /\ c # Reaper /\ NoOne \notin Workspaces /\ Lessees \subseteq Actors
  BY ActorParts
<1>b. b \in DOMAIN backends /\ backends[b] \in Backend /\ b # 0
  BY Referenced DEF Claiming
<1>1. pc \in {"pinned", "install"} /\ (pc = "install" => actor[c].ws \in Workspaces) /\ (pc = "pinned" => actor[c].ws = NoOne)
  BY <1>a DEF PoolTypeOK, Actor
<1>2. /\ actor' \in [Actors -> Actor] /\ OnlyActor(c)
      /\ actor'[c].pc = pc /\ actor'[c].ws = actor[c].ws /\ actor'[c].backend = b
  BY <1>a, <1>1, PoolGoEffect DEF Pc
<1>3. r \in Backend /\ r.state = "open" /\ r.epoch = backends[b].epoch
  BY <1>b DEF Backend
<1> HIDE DEF r, pc
<1>4. /\ backends' \in Seq(Backend) /\ DOMAIN backends' = DOMAIN backends
      /\ backends'[b] = r /\ \A x \in DOMAIN backends \ {b} : backends'[x] = backends[x]
  BY <1>b, <1>3, BackendEffect DEF r
<1>o. ~Emptying /\ backends[b].state = "opening" /\ pool.phase \in {"open", "waiting"}
  <2>1. pool.phase \in {"open", "waiting"}
    BY <1>a DEF PoolInv, PointInv, PointOf, At
  <2> QED BY <2>1 DEF PoolInv, PlaceInv, Emptying, CallerPlaces, Claiming, At
<1>5. PoolTypeOK'
  BY <1>2, <1>4 DEF PoolTypeOK
<1>6. LockInv'
  <2>1. LockStep(c)
    BY <1>a, <1>1, <1>2 DEF PoolInv, LockInv, LockStep, Locking, At, Holding
  <2> QED BY <1>a, <2>1, LockFrame DEF PoolInv
<1>7. PointInv'
  <2>1. PointOf(c)'
    BY <1>a, <1>b, <1>1, <1>2, <1>4 DEF PoolInv, PointInv, PointOf, At, WithSlot, Starting, Claiming
  <2>2. \A v \in Workspaces : slots'[v].backend \in DOMAIN backends' \cup {0}
    BY <1>4, Referenced
  <2> QED BY <1>a, <1>2, <1>4, <2>1, <2>2, PointFrame DEF PoolInv
<1>s. \A x \in Lessees : \/ x = c /\ actor'[x].pc = pc /\ actor'[x].ws = actor[x].ws /\ actor'[x].backend = b
                         \/ x # c /\ SameActor(x)
  BY <1>a, <1>2 DEF OnlyActor
<1>8. LeaseInv'
  BY <1>1, <1>s, LeaseFrame DEF PoolInv, SameActor
<1>9. OwnedInv'
  <2>1. {x \in DOMAIN backends' : backends'[x].state # "closed"} = owned'
    BY <1>b, <1>o, <1>3, <1>4 DEF PoolInv, OwnedInv
  <2> QED BY <1>o, <2>1 DEF PoolInv, OwnedInv
<1>10. PlaceInv'
  <2>0. SlotPlaces /\ CallerPlaces /\ NoneLost
    BY <1>o DEF PoolInv, PlaceInv
  <2>c. /\ \A v \in Workspaces : slots[v].backend # b
        /\ \A d \in Lessees \ {c} : actor[d].pc \in Claiming => actor[d].backend # b
    BY <2>0 DEF CallerPlaces, Claiming
  <2>1. SlotPlaces'
    BY <1>4, <2>0, <2>c, Referenced DEF SlotPlaces
  <2>p. \A d \in Lessees : actor'[d].pc \in Claiming => actor[d].pc \in Claiming /\ actor'[d].backend = actor[d].backend
    BY <1>s DEF SameActor, Claiming
  <2>2. CallerPlaces'
    <3> SUFFICES ASSUME NEW x \in Lessees
                 PROVE  /\ actor'[x].pc \in Claiming =>
                             /\ backends'[actor'[x].backend].state = IF actor'[x].pc = "open" THEN "opening" ELSE "open"
                             /\ \A v \in Workspaces : slots'[v].backend # actor'[x].backend
                             /\ \A d \in Lessees \ {x} : actor'[d].pc \in Claiming => actor'[d].backend # actor'[x].backend
                        /\ actor'[x].pc = "using" => slots'[actor'[x].ws].backend = actor'[x].backend
      BY DEF CallerPlaces, At
    <3>1. CASE x = c
      BY <1>1, <1>3, <1>4, <1>s, <2>c, <2>p, <3>1
    <3>2. CASE x # c
      <4>1. SameActor(x)
        BY <1>s, <3>2
      <4>2. ASSUME actor[x].pc \in Claiming
            PROVE  /\ backends'[actor[x].backend].state = IF actor[x].pc = "open" THEN "opening" ELSE "open"
                   /\ \A v \in Workspaces : slots[v].backend # actor[x].backend
                   /\ \A d \in Lessees \ {x} : actor'[d].pc \in Claiming => actor'[d].backend # actor[x].backend
        <5>1. actor[x].backend \in DOMAIN backends \ {b}
          BY <2>c, <3>2, <4>2, Referenced
        <5>2. /\ backends[actor[x].backend].state = IF actor[x].pc = "open" THEN "opening" ELSE "open"
              /\ \A v \in Workspaces : slots[v].backend # actor[x].backend
              /\ \A d \in Lessees \ {x} : actor[d].pc \in Claiming => actor[d].backend # actor[x].backend
          BY <2>0, <4>2 DEF CallerPlaces, At
        <5> QED BY <1>4, <2>p, <5>1, <5>2
      <4>3. actor[x].pc = "using" => slots[actor[x].ws].backend = actor[x].backend
        BY <2>0 DEF CallerPlaces, At
      <4> QED BY <4>1, <4>2, <4>3 DEF SameActor
    <3> QED BY <3>1, <3>2
  <2>3. NoneLost'
    <3> SUFFICES ASSUME NEW p \in DOMAIN backends, backends'[p].state \in {"opening", "open"}
                 PROVE  \/ \E v \in Workspaces : slots[v].backend = p
                        \/ \E x \in Lessees : actor'[x].pc \in Claiming /\ actor'[x].backend = p
      BY <1>4 DEF NoneLost
    <3>1. backends[p].state \in {"opening", "open"}
      BY <1>o, <1>4
    <3>2. \A x \in Lessees : actor[x].pc \in Claiming => actor'[x].pc \in Claiming /\ actor'[x].backend = actor[x].backend
      BY <1>1, <1>s DEF SameActor, Claiming
    <3> QED BY <2>0, <3>1, <3>2 DEF NoneLost
  <2> QED BY <2>1, <2>2, <2>3 DEF PlaceInv
<1>e. \A x \in DOMAIN backends : backends'[x].epoch = backends[x].epoch
  BY <1>3, <1>4
<1>11. EpochInv'
  <2>1. ASSUME NEW v \in Workspaces
        PROVE given'[v] <= IF slots'[v].backend = 0 THEN slots'[v].epoch ELSE backends'[slots'[v].backend].epoch
    BY <1>o, <1>e, Referenced DEF PoolInv, EpochInv
  <2>2. ASSUME NEW x \in Lessees, actor'[x].pc \in {"open", "install"}, actor'[x].ws # NoOne
        PROVE  backends'[actor'[x].backend].epoch > given'[actor'[x].ws]
    <3>1. actor[x].pc \in {"open", "install"} /\ actor'[x].ws = actor[x].ws /\ actor'[x].backend = actor[x].backend
      BY <1>s, <2>2 DEF SameActor
    <3>2. actor[x].backend \in DOMAIN backends
      BY <3>1, Referenced DEF Claiming
    <3> QED BY <1>e, <2>2, <3>1, <3>2 DEF PoolInv, EpochInv
  <2> QED BY <2>1, <2>2 DEF EpochInv
<1> QED BY <1>5, <1>6, <1>7, <1>8, <1>9, <1>10, <1>11 DEF PoolInv

(* A caller that is done with the provider it alone has, when that is not left open. *)
LEMMA DroppedSafe ==
  ASSUME PoolTypeOK, PoolInv, NEW c \in Lessees, NEW b, b = actor[c].backend, actor[c].pc \in {"open", "pinned"},
         NEW st \in {"closed", "stuck"},
         \/ UNCHANGED <<owned, backends>> /\ b \notin owned
         \/ /\ backends' \in Seq(Backend) /\ DOMAIN backends' = DOMAIN backends
            /\ \A x \in DOMAIN backends : backends'[x].epoch = backends[x].epoch
            /\ \A x \in DOMAIN backends \ {b} : backends'[x] = backends[x]
            /\ backends'[b].state = st
            /\ IF st = "stuck" THEN b \in owned /\ owned' = owned ELSE owned' = owned \ {b},
         actor' \in [Actors -> Actor], OnlyActor(c), actor'[c].pc = "idle",
         slots' \in [Workspaces -> Slot],
         \A w \in Workspaces :
           /\ slots'[w].backend = slots[w].backend /\ slots'[w].users = slots[w].users
           /\ slots'[w].epoch = slots[w].epoch
           /\ slots'[w].lock = IF slots[w].lock = c THEN NoOne ELSE slots[w].lock,
         UNCHANGED <<earlier, admit, pool, given>>
  PROVE  PoolTypeOK' /\ PoolInv'
<1>a. c \in Actors /\ NoOne \notin Actors /\ c # Reaper /\ NoOne \notin Workspaces /\ Lessees \subseteq Actors
  BY ActorParts
<1>b. b \in DOMAIN backends /\ b # 0
  BY Referenced DEF Claiming
<1>1. /\ DOMAIN backends' = DOMAIN backends
      /\ \A x \in DOMAIN backends : backends'[x].epoch = backends[x].epoch
      /\ \A x \in DOMAIN backends \ {b} : backends'[x] = backends[x]
      /\ backends'[b].state \in {"closed", "stuck"}
      /\ {x \in DOMAIN backends' : backends'[x].state # "closed"} = owned'
      /\ backends' \in Seq(Backend)
  <2>0. {x \in DOMAIN backends : backends[x].state # "closed"} = owned /\ backends \in Seq(Backend)
    BY DEF PoolInv, OwnedInv, PoolTypeOK
  <2>1. CASE UNCHANGED <<owned, backends>> /\ b \notin owned
    BY <1>b, <2>0, <2>1
  <2>2. CASE ~(UNCHANGED <<owned, backends>> /\ b \notin owned)
    <3>1. /\ backends' \in Seq(Backend) /\ DOMAIN backends' = DOMAIN backends
          /\ \A x \in DOMAIN backends : backends'[x].epoch = backends[x].epoch
          /\ \A x \in DOMAIN backends \ {b} : backends'[x] = backends[x]
          /\ backends'[b].state = st
          /\ IF st = "stuck" THEN b \in owned /\ owned' = owned ELSE owned' = owned \ {b}
      BY <2>2
    <3> QED BY <1>b, <2>0, <3>1
  <2> QED BY <2>1, <2>2
<1>s. \A x \in Lessees : \/ x = c /\ actor'[x].pc = "idle"
                         \/ x # c /\ SameActor(x)
  BY <1>a DEF OnlyActor
<1>5. PoolTypeOK'
  BY <1>1 DEF PoolTypeOK
<1>6. LockInv'
  <2>1. admit # c
    BY <1>a, NotAdmitted
  <2>2. LockStep(c)
    BY <1>a, <2>1 DEF LockStep, Locking, At, Holding
  <2> QED BY <1>a, <2>2, LockFrame DEF PoolInv
<1>7. PointInv'
  <2>1. PointOf(c)'
    BY <1>a DEF PointOf, At, WithSlot, Starting, Claiming
  <2>2. \A v \in Workspaces : slots'[v].backend \in DOMAIN backends' \cup {0}
    BY <1>1, Referenced
  <2> QED BY <1>a, <1>1, <2>1, <2>2, PointFrame DEF PoolInv
<1>8. LeaseInv'
  BY <1>s, LeaseFrame DEF PoolInv, SameActor
<1>9. OwnedInv'
  <2>1. IsFiniteSet(owned') /\ Cardinality(owned') <= MaxProviders
    <3>1. owned' = owned \ {b} \/ owned' = owned \ {}
      OBVIOUS
    <3> QED BY <3>1, FewerOwned DEF PoolInv
  <2>2. \A x \in DOMAIN backends' : backends'[x].state \in {"stuck", "closed", backends[x].state}
    BY <1>1
  <2> QED BY <1>1, <2>1, <2>2 DEF PoolInv, OwnedInv
<1>10. PlaceInv'
  <2> SUFFICES ASSUME ~Emptying, SlotPlaces, CallerPlaces, NoneLost
               PROVE  SlotPlaces' /\ CallerPlaces' /\ NoneLost'
    BY DEF PoolInv, PlaceInv, Emptying
  <2>c. /\ \A v \in Workspaces : slots[v].backend # b
        /\ \A d \in Lessees \ {c} : actor[d].pc \in Claiming => actor[d].backend # b
    BY DEF CallerPlaces, Claiming
  <2>1. SlotPlaces'
    BY <1>1, <2>c, Referenced DEF SlotPlaces
  <2>p. \A d \in Lessees : actor'[d].pc \in Claiming =>
           d # c /\ actor[d].pc \in Claiming /\ actor'[d].backend = actor[d].backend
    BY <1>s DEF SameActor, Claiming
  <2>2. CallerPlaces'
    <3> SUFFICES ASSUME NEW x \in Lessees, x # c
                 PROVE  /\ actor'[x].pc \in Claiming =>
                             /\ backends'[actor'[x].backend].state = IF actor'[x].pc = "open" THEN "opening" ELSE "open"
                             /\ \A v \in Workspaces : slots'[v].backend # actor'[x].backend
                             /\ \A d \in Lessees \ {x} : actor'[d].pc \in Claiming => actor'[d].backend # actor'[x].backend
                        /\ actor'[x].pc = "using" => slots'[actor'[x].ws].backend = actor'[x].backend
      BY <2>p DEF CallerPlaces, At
    <3>1. SameActor(x)
      BY <1>s
    <3>2. ASSUME actor[x].pc \in Claiming
          PROVE  /\ backends'[actor[x].backend].state = IF actor[x].pc = "open" THEN "opening" ELSE "open"
                 /\ \A v \in Workspaces : slots[v].backend # actor[x].backend
                 /\ \A d \in Lessees \ {x} : actor'[d].pc \in Claiming => actor'[d].backend # actor[x].backend
      <4>1. actor[x].backend \in DOMAIN backends \ {b}
        BY <2>c, <3>2, Referenced
      <4>2. /\ backends[actor[x].backend].state = IF actor[x].pc = "open" THEN "opening" ELSE "open"
            /\ \A v \in Workspaces : slots[v].backend # actor[x].backend
            /\ \A d \in Lessees \ {x} : actor[d].pc \in Claiming => actor[d].backend # actor[x].backend
        BY <3>2 DEF CallerPlaces, At
      <4> QED BY <1>1, <2>p, <4>1, <4>2
    <3>3. actor[x].pc = "using" => slots'[actor[x].ws].backend = actor[x].backend
      BY Referenced DEF CallerPlaces, At
    <3> QED BY <3>1, <3>2, <3>3 DEF SameActor
  <2>3. NoneLost'
    <3> SUFFICES ASSUME NEW p \in DOMAIN backends, backends'[p].state \in {"opening", "open"}
                 PROVE  \/ \E v \in Workspaces : slots'[v].backend = p
                        \/ \E x \in Lessees : actor'[x].pc \in Claiming /\ actor'[x].backend = p
      BY <1>1 DEF NoneLost
    <3>1. p # b /\ backends[p].state \in {"opening", "open"}
      BY <1>1
    <3>2. \A x \in Lessees : actor[x].pc \in Claiming /\ actor[x].backend = p => SameActor(x)
      BY <1>s, <3>1
    <3>3. CASE \E v \in Workspaces : slots[v].backend = p
      BY <3>3
    <3>4. CASE \E x \in Lessees : actor[x].pc \in Claiming /\ actor[x].backend = p
      BY <3>2, <3>4 DEF SameActor
    <3> QED BY <3>1, <3>3, <3>4 DEF NoneLost
  <2> QED BY <2>1, <2>2, <2>3
<1>11. EpochInv'
  <2>1. \A x \in Lessees : SameActor(x) \/ actor'[x].pc \notin {"open", "install"}
    BY <1>s
  <2> QED BY <1>1, <2>1, EpochFrame DEF PoolInv, Emptying
<1> QED BY <1>5, <1>6, <1>7, <1>8, <1>9, <1>10, <1>11 DEF PoolInv

(* A start ends: the provider is open, or its reservation is given back
   (openOwned). *)
LEMMA OpenedSafe ==
  ASSUME PoolTypeOK, PoolInv, NEW c \in Lessees, Opened(c)
  PROVE  PoolTypeOK' /\ PoolInv'
<1> SUFFICES ASSUME NEW b, b = actor[c].backend PROVE PoolTypeOK' /\ PoolInv'
  OBVIOUS
<1>0. actor[c].pc = "open" /\ UNCHANGED <<earlier, admit, pool, given>> /\ c \in Actors
  BY ActorParts DEF Opened, At
<1>b. b \in DOMAIN backends /\ backends[b] \in Backend
  BY <1>0, Referenced DEF Claiming
<1>1. CASE /\ backends' = [backends EXCEPT ![b] = [backends[b] EXCEPT !.state = "open"]]
           /\ Go(c, IF actor[c].ws = NoOne THEN "pinned" ELSE "install")
           /\ UNCHANGED <<owned, slots>>
  BY <1>0, <1>1, StartedSafe
<1>2. CASE /\ backends' = [backends EXCEPT ![b] = [backends[b] EXCEPT !.state = "closed"]]
           /\ owned' = owned \ {b}
           /\ Fail(c)
  <2> DEFINE r == [backends[b] EXCEPT !.state = "closed"]
  <2>1. r \in Backend /\ r.state = "closed" /\ r.epoch = backends[b].epoch
    BY <1>b DEF Backend
  <2>2. backends' = [backends EXCEPT ![b] = r]
    BY <1>2
  <2> HIDE DEF r
  <2>3. /\ backends' \in Seq(Backend) /\ DOMAIN backends' = DOMAIN backends
        /\ \A x \in DOMAIN backends : backends'[x].epoch = backends[x].epoch
        /\ \A x \in DOMAIN backends \ {b} : backends'[x] = backends[x]
        /\ backends'[b].state = "closed"
    BY <1>b, <2>1, <2>2, BackendEffect
  <2>4. /\ actor' \in [Actors -> Actor] /\ OnlyActor(c) /\ actor'[c].pc = "idle"
        /\ slots' \in [Workspaces -> Slot]
        /\ \A w \in Workspaces :
             /\ slots'[w].backend = slots[w].backend /\ slots'[w].users = slots[w].users
             /\ slots'[w].epoch = slots[w].epoch
             /\ slots'[w].lock = IF slots[w].lock = c THEN NoOne ELSE slots[w].lock
    BY <1>0, <1>2, FailEffect DEF Idle
  <2>5. "closed" \in {"closed", "stuck"} /\ "closed" # "stuck"
    OBVIOUS
  <2> QED BY <1>0, <1>2, <2>3, <2>4, <2>5, DroppedSafe
<1> QED BY <1>1, <1>2 DEF Opened

(* A stager closes its provider, or leaves it to Close (stageIntoSandbox). *)
LEMMA ClosePinnedSafe ==
  ASSUME PoolTypeOK, PoolInv, NEW c \in Lessees, ClosePinned(c)
  PROVE  PoolTypeOK' /\ PoolInv'
<1> SUFFICES ASSUME NEW b, b = actor[c].backend PROVE PoolTypeOK' /\ PoolInv'
  OBVIOUS
<1>0. actor[c].pc = "pinned" /\ UNCHANGED <<slots, earlier, admit, pool, given>> /\ c \in Actors /\ NoOne \notin Actors
  BY ActorParts DEF ClosePinned, At
<1>b. b \in DOMAIN backends /\ backends[b] \in Backend
  BY <1>0, Referenced DEF Claiming
<1>1. actor' \in [Actors -> Actor] /\ OnlyActor(c) /\ actor'[c].pc = "idle"
  BY <1>0, SetEffect, IdleIsActor DEF ClosePinned, Idle
<1>2. /\ slots' \in [Workspaces -> Slot]
      /\ \A w \in Workspaces :
           /\ slots'[w].backend = slots[w].backend /\ slots'[w].users = slots[w].users
           /\ slots'[w].epoch = slots[w].epoch
           /\ slots'[w].lock = IF slots[w].lock = c THEN NoOne ELSE slots[w].lock
  <2>1. \A w \in Workspaces : slots[w].lock # c
    BY <1>0 DEF PoolInv, LockInv, Locking, Holding, At
  <2> QED BY <1>0, <2>1 DEF PoolTypeOK
<1>3. CASE b \notin owned /\ UNCHANGED <<owned, backends>>
  <2>1. "closed" \in {"closed", "stuck"}
    OBVIOUS
  <2> QED BY <1>0, <1>1, <1>2, <1>3, <2>1, DroppedSafe
<1>4. CASE CloseBackends({b})
  <2>1. "closed" \in {"closed", "stuck"} /\ "closed" # "stuck"
    OBVIOUS
  <2>2. /\ backends' \in Seq(Backend) /\ DOMAIN backends' = DOMAIN backends
        /\ \A x \in DOMAIN backends : backends'[x].epoch = backends[x].epoch
        /\ \A x \in DOMAIN backends \ {b} : backends'[x] = backends[x]
        /\ backends'[b].state = "closed" /\ owned' = owned \ {b}
    BY <1>b, <1>4, ClosedEffect
  <2> QED BY <1>0, <1>1, <1>2, <2>1, <2>2, DroppedSafe
<1>5. CASE b \in owned /\ backends' = [backends EXCEPT ![b] = [backends[b] EXCEPT !.state = "stuck"]] /\ UNCHANGED owned
  <2> DEFINE r == [backends[b] EXCEPT !.state = "stuck"]
  <2>1. r \in Backend /\ r.state = "stuck" /\ r.epoch = backends[b].epoch
    BY <1>b DEF Backend
  <2>2. backends' = [backends EXCEPT ![b] = r]
    BY <1>5
  <2> HIDE DEF r
  <2>3. /\ backends' \in Seq(Backend) /\ DOMAIN backends' = DOMAIN backends
        /\ \A x \in DOMAIN backends : backends'[x].epoch = backends[x].epoch
        /\ \A x \in DOMAIN backends \ {b} : backends'[x] = backends[x]
        /\ backends'[b].state = "stuck"
    BY <1>b, <2>1, <2>2, BackendEffect
  <2>4. "stuck" \in {"closed", "stuck"}
    OBVIOUS
  <2> QED BY <1>0, <1>1, <1>2, <1>5, <2>3, <2>4, DroppedSafe
<1> QED BY <1>3, <1>4, <1>5 DEF ClosePinned

-----------------------------------------------------------------------------
(* Steps of no caller. *)

(* What no actor does moves no actor. *)
LEMMA Unmoved ==
  ASSUME actor' = actor
  PROVE  /\ \A x \in Actors : SameActor(x)
         /\ \A x \in Lessees : SameActor(x) /\ actor'[x].pc = actor[x].pc /\ actor'[x].ws = actor[x].ws
BY DEF SameActor

(* A provider that loses its health stays where it is. *)
LEMMA SickenSafe ==
  ASSUME PoolTypeOK, PoolInv, NEW b \in DOMAIN backends, Sicken(b)
  PROVE  PoolTypeOK' /\ PoolInv'
<1> DEFINE r == [backends[b] EXCEPT !.healthy = FALSE]
<1>0. UNCHANGED <<owned, slots, earlier, admit, actor, pool, given>> /\ backends' = [backends EXCEPT ![b] = r]
  BY DEF Sicken
<1>1. r \in Backend /\ r.state = backends[b].state /\ r.epoch = backends[b].epoch
  <2>1. backends[b] \in Backend
    BY Referenced
  <2> QED BY <2>1 DEF Backend
<1> HIDE DEF r
<1>2. /\ backends' \in Seq(Backend) /\ DOMAIN backends' = DOMAIN backends
      /\ \A x \in DOMAIN backends : backends'[x].state = backends[x].state /\ backends'[x].epoch = backends[x].epoch
  BY <1>0, <1>1, BackendEffect
<1>3. PoolTypeOK'
  BY <1>0, <1>2 DEF PoolTypeOK
<1>4. LockInv'
  BY <1>0 DEF PoolInv, LockInv, Locking, At
<1>5. PointInv'
  BY <1>0, <1>2 DEF PoolInv, PointInv, PointOf, At, Closable
<1>6. LeaseInv'
  BY <1>0, LeaseFrame DEF PoolInv
<1>7. OwnedInv'
  BY <1>0, <1>2 DEF PoolInv, OwnedInv
<1>8. PlaceInv'
  BY <1>0, <1>2, Unmoved, PlaceFrame DEF PoolInv, Emptying
<1>9. EpochInv'
  BY <1>0, <1>2, Unmoved, EpochFrame DEF PoolInv, Emptying
<1> QED BY <1>3, <1>4, <1>5, <1>6, <1>7, <1>8, <1>9 DEF PoolInv

(* A provider that replaces its generation gives its workspace a later epoch, which
   its own slot knows. *)
LEMMA RegenerateSafe ==
  ASSUME PoolTypeOK, PoolInv, NEW b \in DOMAIN backends, Regenerate(b)
  PROVE  PoolTypeOK' /\ PoolInv'
<1> DEFINE r == [backends[b] EXCEPT !.epoch = backends[b].epoch + 1, !.healthy = TRUE]
<1>0. /\ UNCHANGED <<owned, slots, earlier, admit, actor, pool>> /\ backends' = [backends EXCEPT ![b] = r]
      /\ given' = [w \in Workspaces |-> IF slots[w].backend = b /\ backends'[b].epoch > given[w]
                                        THEN backends'[b].epoch ELSE given[w]]
  BY DEF Regenerate
<1>1. r \in Backend /\ r.state = backends[b].state /\ r.epoch = backends[b].epoch + 1 /\ backends[b].epoch \in Nat
  <2>1. backends[b] \in Backend
    BY Referenced
  <2>2. backends[b].epoch \in Nat /\ backends[b].epoch + 1 \in Nat
    BY <2>1 DEF Backend
  <2> QED BY <2>1, <2>2 DEF Backend
<1> HIDE DEF r
<1>2. /\ backends' \in Seq(Backend) /\ DOMAIN backends' = DOMAIN backends
      /\ backends'[b].epoch = backends[b].epoch + 1
      /\ \A x \in DOMAIN backends : /\ backends'[x].state = backends[x].state
                                    /\ x # b => backends'[x].epoch = backends[x].epoch
  BY <1>0, <1>1, BackendEffect
<1>g. \A w \in Workspaces : given[w] \in Nat
  BY DEF PoolTypeOK
<1>3. PoolTypeOK'
  <2>1. given' \in [Workspaces -> Nat]
    BY <1>0, <1>1, <1>2, <1>g
  <2> QED BY <1>0, <1>2, <2>1 DEF PoolTypeOK
<1>4. LockInv'
  BY <1>0 DEF PoolInv, LockInv, Locking, At
<1>5. PointInv'
  BY <1>0, <1>2 DEF PoolInv, PointInv, PointOf, At, Closable
<1>6. LeaseInv'
  BY <1>0, LeaseFrame DEF PoolInv
<1>7. OwnedInv'
  BY <1>0, <1>2 DEF PoolInv, OwnedInv
<1>8. PlaceInv'
  BY <1>0, <1>2, Unmoved, PlaceFrame DEF PoolInv, Emptying
<1>9. EpochInv'
  <2>1. ASSUME ~Emptying', NEW w \in Workspaces
        PROVE given'[w] <= IF slots'[w].backend = 0 THEN slots'[w].epoch ELSE backends'[slots'[w].backend].epoch
    <3>1. given[w] <= IF slots[w].backend = 0 THEN slots[w].epoch ELSE backends[slots[w].backend].epoch
      BY <1>0, <2>1 DEF PoolInv, EpochInv, Emptying
    <3>2. CASE slots[w].backend = b
      <4>1. b # 0
        BY Referenced
      <4> QED BY <1>0, <1>1, <1>2, <1>g, <3>1, <3>2, <4>1
    <3>3. CASE slots[w].backend # b
      BY <1>0, <1>2, <3>1, <3>3, Referenced
    <3> QED BY <3>2, <3>3
  <2>2. ASSUME NEW c \in Lessees, actor'[c].pc \in {"open", "install"}, actor'[c].ws # NoOne
        PROVE  backends'[actor'[c].backend].epoch > given'[actor'[c].ws]
    <3>1. actor[c].backend \in DOMAIN backends /\ backends[actor[c].backend].epoch > given[actor[c].ws]
      BY <1>0, <2>2, Referenced DEF PoolInv, EpochInv, Claiming
    <3>2. actor[c].ws \in Workspaces /\ slots[actor[c].ws].backend = 0
      BY <1>0, <2>2, ActorParts DEF PoolTypeOK, Actor, PoolInv, PointInv, PointOf, Starting
    <3>3. given'[actor[c].ws] = given[actor[c].ws]
      BY <1>0, <3>2, Referenced
    <3>4. given[actor[c].ws] \in Nat /\ backends[actor[c].backend].epoch \in Nat
      BY <1>g, <3>1, <3>2, Referenced DEF Backend
    <3> QED BY <1>0, <1>2, <3>1, <3>3, <3>4
  <2> QED BY <2>1, <2>2 DEF EpochInv
<1> QED BY <1>3, <1>4, <1>5, <1>6, <1>7, <1>8, <1>9 DEF PoolInv

(* Close up to the emptying of the slots. *)
LEMMA ClosingSafe ==
  ASSUME PoolTypeOK, PoolInv, Close \/ CloseWaited \/ CloseJoined
  PROVE  PoolTypeOK' /\ PoolInv'
<1>0. UNCHANGED <<owned, backends, slots, earlier, admit, actor, given>>
  BY DEF Close, CloseWaited, CloseJoined
<1>1. /\ pool' \in [phase : {"open", "waiting", "joining", "slots", "owned", "closed"}, todo : SUBSET Workspaces]
      /\ pool'.phase # "closed" /\ ~Emptying
  BY DEF Close, CloseWaited, CloseJoined, Emptying
<1>2. \A a \in Actors : At(a, "open") => pool'.phase \in {"open", "waiting"}
  BY ActorParts DEF Close, CloseWaited, CloseJoined, PoolInv, PointInv, PointOf, At
<1>3. PoolTypeOK'
  BY <1>0, <1>1 DEF PoolTypeOK
<1>4. LockInv'
  BY <1>0 DEF PoolInv, LockInv, Locking, At
<1>5. PointInv'
  BY <1>0, <1>2 DEF PoolInv, PointInv, PointOf, At, Closable
<1>6. LeaseInv'
  BY <1>0, LeaseFrame DEF PoolInv
<1>7. OwnedInv'
  BY <1>0, <1>1, OwnedFrame DEF PoolInv
<1>8. PlaceInv'
  BY <1>0, <1>1, Unmoved, PlaceFrame DEF PoolInv
<1>9. EpochInv'
  BY <1>0, <1>1, Unmoved, EpochFrame DEF PoolInv
<1> QED BY <1>3, <1>4, <1>5, <1>6, <1>7, <1>8, <1>9 DEF PoolInv

(* Close empties a slot nobody has locked, leased or not. *)
LEMMA CloseSlotSafe ==
  ASSUME PoolTypeOK, PoolInv, NEW w \in Workspaces, CloseSlot(w)
  PROVE  PoolTypeOK' /\ PoolInv'
<1> SUFFICES ASSUME NEW b, b = slots[w].backend PROVE PoolTypeOK' /\ PoolInv'
  OBVIOUS
<1>0. UNCHANGED <<earlier, admit, actor, given>> /\ slots[w].lock = NoOne /\ pool.phase = "slots"
  BY DEF CloseSlot
<1>b. slots[w] \in Slot /\ b \in DOMAIN backends \cup {0} /\ NoOne \notin Actors /\ Reaper \in Actors
  BY Referenced, ActorParts DEF PoolTypeOK
<1>1. /\ pool' \in [phase : {"open", "waiting", "joining", "slots", "owned", "closed"}, todo : SUBSET Workspaces]
      /\ pool'.phase \in {"slots", "owned"}
  BY DEF CloseSlot, PoolTypeOK
<1>2. /\ slots' \in [Workspaces -> Slot]
      /\ \A v \in Workspaces \ {w} : slots'[v] = slots[v]
      /\ slots'[w].backend = 0 /\ slots'[w].users = slots[w].users /\ slots'[w].lock = slots[w].lock
  <2> DEFINE s == [slots[w] EXCEPT !.backend = 0]
  <2>1. CASE b = 0
    BY <1>b, <2>1 DEF CloseSlot, PoolTypeOK
  <2>2. CASE b # 0
    <3>1. slots' = [slots EXCEPT ![w] = s]
      BY <2>2 DEF CloseSlot
    <3>2. s \in Slot /\ s.backend = 0 /\ s.users = slots[w].users /\ s.lock = slots[w].lock
      BY <1>b DEF Slot
    <3> HIDE DEF s
    <3> QED BY <3>1, <3>2 DEF PoolTypeOK
  <2> QED BY <2>1, <2>2
<1>3. \/ UNCHANGED <<owned, backends>>
      \/ /\ backends' \in Seq(Backend) /\ DOMAIN backends' = DOMAIN backends
         /\ \A x \in DOMAIN backends : /\ backends'[x].epoch = backends[x].epoch
                                       /\ x # b => backends'[x] = backends[x]
                                       /\ x = b => backends'[x].state = "closed"
         /\ owned' = owned \ {b}
  <2>1. CASE UNCHANGED <<owned, backends>>
    BY <2>1
  <2>2. CASE ~UNCHANGED <<owned, backends>>
    <3>1. CloseBackends({b})
      BY <2>2 DEF CloseSlot, Shut
    <3> QED BY <3>1, ClosedEffect
  <2> QED BY <2>1, <2>2
<1>4. /\ backends' \in Seq(Backend) /\ DOMAIN backends' = DOMAIN backends
      /\ \A x \in DOMAIN backends : backends'[x].epoch = backends[x].epoch
      /\ {x \in DOMAIN backends' : backends'[x].state # "closed"} = owned'
  <2>1. {x \in DOMAIN backends : backends[x].state # "closed"} = owned /\ backends \in Seq(Backend)
    BY DEF PoolInv, OwnedInv, PoolTypeOK
  <2> QED BY <1>3, <2>1
<1>5. IsFiniteSet(owned') /\ Cardinality(owned') <= MaxProviders
  <2>1. owned' = owned \ {b} \/ owned' = owned \ {}
    BY <1>3
  <2> QED BY <2>1, FewerOwned DEF PoolInv
<1>6. PoolTypeOK'
  <2>1. owned' \subseteq DOMAIN backends'
    BY <1>4
  <2> QED BY <1>0, <1>1, <1>2, <1>4, <2>1 DEF PoolTypeOK
<1>7. LockInv'
  <2>1. \A v \in Workspaces : slots'[v].lock = slots[v].lock
    BY <1>2
  <2> QED BY <1>0, <2>1 DEF PoolInv, LockInv, Locking, At
<1>8. PointInv'
  <2>0. OnlyActor(Reaper)
    BY <1>0, Unmoved DEF OnlyActor
  <2>1. \A v \in Workspaces : slots'[v].backend \in DOMAIN backends' \cup {0}
    BY <1>2, <1>4, Referenced
  <2>2. \A v \in Workspaces : \/ slots[v].lock \in {Reaper, NoOne}
                              \/ slots'[v].backend = slots[v].backend /\ slots'[v].users = slots[v].users
    BY <1>0, <1>2
  <2>3. PointOf(Reaper)'
    <3>1. actor[Reaper].pc \in {"idle", "reaping"} /\ PointOf(Reaper)
      BY <1>b DEF PoolInv, PointInv, PointOf
    <3>2. CASE actor[Reaper].pc = "idle"
      BY <1>0, <3>2 DEF PointOf, At, WithSlot, Starting, Claiming
    <3>3. CASE actor[Reaper].pc = "reaping"
      <4>1. actor[Reaper].ws \in Workspaces /\ Closable(actor[Reaper].ws)
        BY <3>1, <3>3 DEF PointOf, WithSlot
      <4>2. slots[actor[Reaper].ws].lock = Reaper
        BY <1>b, <3>3, <4>1 DEF PoolInv, LockInv, Locking, Holding
      <4>3. actor[Reaper].ws # w
        BY <1>0, <1>b, <4>2
      <4> QED BY <1>0, <1>2, <3>3, <4>1, <4>3 DEF PointOf, At, WithSlot, Starting, Claiming, Closable
    <3> QED BY <3>1, <3>2, <3>3
  <2>4. DOMAIN backends \subseteq DOMAIN backends' /\ (pool.phase \in {"open", "waiting"} => pool'.phase \in {"open", "waiting"})
    BY <1>0, <1>4
  <2> QED BY <1>b, <2>0, <2>1, <2>2, <2>3, <2>4, PointFrame DEF PoolInv
<1>9. LeaseInv'
  <2>1. \A v \in Workspaces : slots'[v].users = slots[v].users
    BY <1>2
  <2> QED BY <1>0, <2>1, LeaseFrame DEF PoolInv
<1>10. OwnedInv'
  BY <1>1, <1>4, <1>5 DEF OwnedInv
<1>11. PlaceInv'
  BY <1>1 DEF PlaceInv, Emptying
<1>12. EpochInv'
  <2>1. Emptying'
    BY <1>1 DEF Emptying
  <2>2. ASSUME NEW c \in Lessees, actor'[c].pc \in {"open", "install"}, actor'[c].ws # NoOne
        PROVE  backends'[actor'[c].backend].epoch > given'[actor'[c].ws]
    <3>1. actor[c].backend \in DOMAIN backends /\ backends[actor[c].backend].epoch > given[actor[c].ws]
      BY <1>0, <2>2, Referenced DEF PoolInv, EpochInv, Claiming
    <3> QED BY <1>0, <1>4, <3>1
  <2> QED BY <2>1, <2>2 DEF EpochInv
<1> QED BY <1>6, <1>7, <1>8, <1>9, <1>10, <1>11, <1>12 DEF PoolInv

(* Close ends with no provider but one that would not close. *)
LEMMA CloseOwnedSafe ==
  ASSUME PoolTypeOK, PoolInv, CloseOwned
  PROVE  PoolTypeOK' /\ PoolInv'
<1>0. UNCHANGED <<slots, earlier, admit, actor, given>> /\ pool.phase = "owned" /\ pool' = [pool EXCEPT !.phase = "closed"]
  BY DEF CloseOwned
<1>1. /\ pool' \in [phase : {"open", "waiting", "joining", "slots", "owned", "closed"}, todo : SUBSET Workspaces]
      /\ pool'.phase = "closed"
  BY <1>0 DEF PoolTypeOK
<1>b. /\ backends \in Seq(Backend) /\ DOMAIN backends = 1 .. Len(backends) /\ Len(backends) \in Nat
      /\ {x \in DOMAIN backends : backends[x].state # "closed"} = owned
  BY DEF PoolTypeOK, PoolInv, OwnedInv
<1>2. /\ backends' \in Seq(Backend) /\ DOMAIN backends' = DOMAIN backends
      /\ \A x \in DOMAIN backends : backends'[x].epoch = backends[x].epoch /\ backends'[x].state \in {"stuck", "closed"}
      /\ {x \in DOMAIN backends' : backends'[x].state # "closed"} = owned'
      /\ IsFiniteSet(owned') /\ Cardinality(owned') <= MaxProviders
  <2>1. CASE CloseBackends(owned)
    <3>1. /\ backends' \in Seq(Backend) /\ DOMAIN backends' = DOMAIN backends
          /\ \A x \in DOMAIN backends : /\ backends'[x].epoch = backends[x].epoch
                                        /\ x \notin owned => backends'[x] = backends[x]
                                        /\ x \in owned => backends'[x].state = "closed"
          /\ owned' = owned \ owned
      BY <2>1, ClosedEffect
    <3>2. \A x \in DOMAIN backends : backends'[x].state = "closed"
      BY <1>b, <3>1
    <3>3. owned' = {}
      BY <3>1
    <3>4. IsFiniteSet(owned') /\ Cardinality(owned') <= MaxProviders
      BY <3>1, FewerOwned DEF PoolInv
    <3> QED BY <3>1, <3>2, <3>3, <3>4
  <2>2. ASSUME NEW b \in owned, owned' = {b},
               backends' = [x \in DOMAIN backends |->
                              IF x \in owned THEN [backends[x] EXCEPT !.state = IF x = b THEN "stuck" ELSE "closed"]
                              ELSE backends[x]]
        PROVE  /\ backends' \in Seq(Backend) /\ DOMAIN backends' = DOMAIN backends
               /\ \A x \in DOMAIN backends : backends'[x].epoch = backends[x].epoch /\ backends'[x].state \in {"stuck", "closed"}
               /\ {x \in DOMAIN backends' : backends'[x].state # "closed"} = owned'
               /\ IsFiniteSet(owned') /\ Cardinality(owned') <= MaxProviders
    <3>1. \A x \in DOMAIN backends : backends[x] \in Backend
      BY <1>b
    <3>2. backends' \in [1 .. Len(backends) -> Backend]
      BY <1>b, <2>2, <3>1 DEF Backend
    <3>3. backends' \in Seq(Backend) /\ DOMAIN backends' = DOMAIN backends
      BY <1>b, <3>2
    <3>4. \A x \in DOMAIN backends : /\ backends'[x].epoch = backends[x].epoch
                                    /\ backends'[x].state = IF x = b THEN "stuck" ELSE "closed"
      BY <1>b, <2>2, <3>1 DEF Backend
    <3>5. b \in DOMAIN backends
      BY <1>b
    <3>6. IsFiniteSet(owned') /\ Cardinality(owned') = 1
      BY <2>2, FS_Singleton
    <3>7. 1 <= MaxProviders
      OBVIOUS
    <3> QED BY <2>2, <3>3, <3>4, <3>5, <3>6, <3>7
  <2> QED BY <2>1, <2>2 DEF CloseOwned
<1>6. PoolTypeOK'
  <2>1. owned' \subseteq DOMAIN backends'
    BY <1>2
  <2> QED BY <1>0, <1>1, <1>2, <2>1 DEF PoolTypeOK
<1>7. LockInv'
  BY <1>0 DEF PoolInv, LockInv, Locking, At
<1>8. PointInv'
  BY <1>0, <1>2 DEF PoolInv, PointInv, PointOf, At, Closable
<1>9. LeaseInv'
  BY <1>0, LeaseFrame DEF PoolInv
<1>10. OwnedInv'
  BY <1>1, <1>2 DEF OwnedInv
<1>11. PlaceInv'
  BY <1>1 DEF PlaceInv, Emptying
<1>12. EpochInv'
  <2>1. Emptying'
    BY <1>1 DEF Emptying
  <2>2. ASSUME NEW c \in Lessees, actor'[c].pc \in {"open", "install"}, actor'[c].ws # NoOne
        PROVE  backends'[actor'[c].backend].epoch > given'[actor'[c].ws]
    <3>1. actor[c].backend \in DOMAIN backends /\ backends[actor[c].backend].epoch > given[actor[c].ws]
      BY <1>0, <2>2, Referenced DEF PoolInv, EpochInv, Claiming
    <3> QED BY <1>0, <1>2, <3>1
  <2> QED BY <2>1, <2>2 DEF EpochInv
<1> QED BY <1>6, <1>7, <1>8, <1>9, <1>10, <1>11, <1>12 DEF PoolInv

-----------------------------------------------------------------------------
(* The invariant. *)

(* The empty pool satisfies the invariant. *)
LEMMA PoolInitSafe ==
  ASSUME PoolInit
  PROVE  PoolTypeOK /\ PoolInv
<1>1. /\ actor = [a \in Actors |-> Idle] /\ pool = [phase |-> "open", todo |-> {}] /\ admit = NoOne
      /\ slots = [w \in Workspaces |-> [lock |-> NoOne, backend |-> 0, users |-> 0, epoch |-> 0]]
      /\ owned = {} /\ backends = <<>> /\ earlier = {} /\ given = [w \in Workspaces |-> 0]
  BY DEF PoolInit
<1>2. \A a \in Actors : actor[a].pc = "idle"
  BY <1>1 DEF Idle
<1>3. PoolTypeOK
  <2>1. \A w \in Workspaces : slots[w] \in Slot
    BY <1>1 DEF Slot
  <2>2. <<>> \in Seq(Backend) /\ DOMAIN <<>> = {}
    OBVIOUS
  <2> QED BY <1>1, <2>1, <2>2, IdleIsActor DEF PoolTypeOK
<1>4. LockInv
  BY <1>1, <1>2, ActorParts DEF LockInv, Locking, At, Holding
<1>5. PointInv
  BY <1>1, <1>2 DEF PointInv, PointOf, At, WithSlot, Starting, Claiming
<1>6. LeaseInv
  <2>1. \A w \in Workspaces : Leases(w) = {}
    BY <1>2, ActorParts DEF Leases, At
  <2>2. IsFiniteSet({}) /\ Cardinality({}) = 0
    BY FS_EmptySet
  <2> QED BY <1>1, <2>1, <2>2 DEF LeaseInv
<1>7. OwnedInv
  <2>1. IsFiniteSet({}) /\ Cardinality({}) = 0 /\ DOMAIN backends = {}
    BY <1>1, FS_EmptySet
  <2> QED BY <1>1, <2>1 DEF OwnedInv
<1>8. PlaceInv
  <2>1. DOMAIN backends = {}
    BY <1>1
  <2> QED BY <1>1, <1>2, <2>1, ActorParts DEF PlaceInv, SlotPlaces, CallerPlaces, NoneLost, Claiming, At
<1>9. EpochInv
  BY <1>1, <1>2, ActorParts DEF EpochInv
<1> QED BY <1>3, <1>4, <1>5, <1>6, <1>7, <1>8, <1>9 DEF PoolInv

(* Every step of the pool keeps the types and the invariant. *)
LEMMA StepSafe ==
  ASSUME PoolTypeOK, PoolInv, [PoolNext]_poolVars
  PROVE  PoolTypeOK' /\ PoolInv'
<1>1. ASSUME NEW c \in Lessees, CallerStep(c) PROVE PoolTypeOK' /\ PoolInv'
  BY <1>1, LockSlotSafe, CanonicalSafe, ExistingSafe, RestartSafe, CloseOldSafe, LockAdmitSafe, ReserveSafe,
     EvictSafe, EvictedSafe, OpenedSafe, InstallSafe DEF CallerStep
<1>2. ASSUME NEW c \in Lessees, Leave(c) PROVE PoolTypeOK' /\ PoolInv'
  BY <1>2, ReleaseSafe, ClosePinnedSafe DEF Leave
<1>3. ASSUME NEW c \in Lessees, NEW w \in Workspaces, NEW pc \in {"lock", "existing", "restart", "reserve"}, Ask(c, w, pc)
      PROVE  PoolTypeOK' /\ PoolInv'
  BY <1>3, AskSafe
<1>4. ASSUME NEW b \in DOMAIN backends, Sicken(b) \/ Regenerate(b) PROVE PoolTypeOK' /\ PoolInv'
  BY <1>4, SickenSafe, RegenerateSafe
<1>5. ASSUME NEW w \in Workspaces, ReapIdle(w) \/ CloseSlot(w) PROVE PoolTypeOK' /\ PoolInv'
  BY <1>5, ReapIdleSafe, CloseSlotSafe
<1>6. CASE reapSlotLocked
  BY <1>6, ReapedSafe
<1>7. CASE Close \/ CloseWaited \/ CloseJoined
  BY <1>7, ClosingSafe
<1>8. CASE CloseOwned
  BY <1>8, CloseOwnedSafe
<1>9. CASE UNCHANGED poolVars
  <2>1. UNCHANGED <<owned, backends, slots, earlier, admit, actor, pool, given>>
    BY <1>9 DEF poolVars
  <2>2. PoolTypeOK'
    BY <2>1 DEF PoolTypeOK
  <2>3. LockInv' /\ LeaseInv' /\ OwnedInv'
    BY <2>1 DEF PoolInv, LockInv, Locking, At, LeaseInv, Leases, OwnedInv
  <2>4. PointInv'
    BY <2>1 DEF PoolInv, PointInv, PointOf, Closable, At
  <2>5. PlaceInv' /\ EpochInv'
    BY <2>1 DEF PoolInv, PlaceInv, SlotPlaces, CallerPlaces, NoneLost, Emptying, EpochInv, At
  <2> QED BY <2>2, <2>3, <2>4, <2>5 DEF PoolInv
<1> QED BY <1>1, <1>2, <1>3, <1>4, <1>5, <1>6, <1>7, <1>8, <1>9 DEF PoolNext

(* Types and the inductive invariant, in every reachable state of the pool. *)
THEOREM PoolInvariant == PoolSpec => []PoolTypeOK /\ []PoolInv
<1>1. PoolInit => PoolTypeOK /\ PoolInv
  BY PoolInitSafe
<1>2. (PoolTypeOK /\ PoolInv) /\ [PoolNext]_poolVars => (PoolTypeOK /\ PoolInv)'
  BY StepSafe
<1> QED BY <1>1, <1>2, PTL DEF PoolSpec

(* A leased provider stays open and in its slot until the lease is returned or the
   pool closes, whatever other callers evict, reap or restart meanwhile (evictLRU,
   ReapIdle, Restart, Canonical). *)
THEOREM LeasesHold == PoolSpec => []LeasedStaysOpen
<1>1. PoolTypeOK /\ PoolInv => LeasedStaysOpen
  <2> SUFFICES ASSUME PoolTypeOK, PoolInv, NEW c \in Lessees, At(c, "using"), pool.phase \in {"open", "waiting", "joining"}
               PROVE  /\ backends[actor[c].backend].state = "open"
                      /\ slots[actor[c].ws].backend = actor[c].backend
                      /\ Holds(actor[c].ws)
    BY DEF LeasedStaysOpen
  <2>1. SlotPlaces /\ CallerPlaces
    BY DEF PoolInv, PlaceInv, Emptying
  <2>2. slots[actor[c].ws].backend = actor[c].backend
    BY <2>1 DEF CallerPlaces
  <2>3. actor[c].ws \in Workspaces /\ actor[c].backend # 0
    BY Referenced DEF At
  <2> QED BY <2>1, <2>2, <2>3 DEF SlotPlaces, Holds
<1> QED BY <1>1, PoolInvariant, PTL

(* Reservations keep the limit and are exactly those of live providers, each in one
   place: a start, a slot, a stager, or a provider its stager could not close
   (reserve, openOwned, closeSlotLocked, stageIntoSandbox, Close). *)
THEOREM ReservationsHold == PoolSpec => []ReservationsExact
<1>1. PoolTypeOK /\ PoolInv => ReservationsExact
  <2> SUFFICES ASSUME PoolTypeOK, PoolInv PROVE ReservationsExact
    OBVIOUS
  <2> DEFINE InSlots == {slots[w].backend : w \in {v \in Workspaces : slots[v].backend # 0}}
             WithCallers == {actor[c].backend : c \in {a \in Lessees : actor[a].pc \in {"open", "install", "pinned"}}}
             Stuck == {b \in DOMAIN backends : backends[b].state = "stuck"}
  <2>0. {b \in DOMAIN backends : backends[b].state # "closed"} = owned
    BY DEF PoolInv, OwnedInv
  <2>1. ASSUME pool.phase \in {"open", "waiting"} PROVE owned = InSlots \cup WithCallers \cup Stuck
    <3>1. SlotPlaces /\ CallerPlaces /\ NoneLost
      BY <2>1 DEF PoolInv, PlaceInv, Emptying
    <3>2. ASSUME NEW b \in owned PROVE b \in InSlots \cup WithCallers \cup Stuck
      <4>1. b \in DOMAIN backends /\ b # 0 /\ backends[b].state \in {"opening", "open", "stuck"}
        BY <2>0, Referenced DEF Backend
      <4>2. CASE backends[b].state = "stuck"
        BY <4>1, <4>2
      <4>3. CASE \E w \in Workspaces : slots[w].backend = b
        BY <4>1, <4>3
      <4>4. CASE \E c \in Lessees : actor[c].pc \in Claiming /\ actor[c].backend = b
        BY <4>4 DEF Claiming
      <4> QED BY <3>1, <4>1, <4>2, <4>3, <4>4 DEF NoneLost
    <3>3. InSlots \subseteq owned
      <4> SUFFICES ASSUME NEW w \in Workspaces, slots[w].backend # 0 PROVE slots[w].backend \in owned
        OBVIOUS
      <4>1. slots[w].backend \in DOMAIN backends /\ backends[slots[w].backend].state = "open"
        BY <3>1, Referenced DEF SlotPlaces
      <4> QED BY <2>0, <4>1
    <3>4. WithCallers \subseteq owned
      <4> SUFFICES ASSUME NEW c \in Lessees, actor[c].pc \in {"open", "install", "pinned"} PROVE actor[c].backend \in owned
        OBVIOUS
      <4>1. actor[c].backend \in DOMAIN backends /\ backends[actor[c].backend].state \in {"opening", "open"}
        BY <3>1, Referenced DEF CallerPlaces, Claiming
      <4> QED BY <2>0, <4>1
    <3>5. Stuck \subseteq owned
      BY <2>0
    <3> HIDE DEF InSlots, WithCallers, Stuck
    <3> QED BY <3>2, <3>3, <3>4, <3>5
  <2>2. /\ Cardinality(owned) <= MaxProviders
        /\ pool.phase = "closed" => \A b \in DOMAIN backends : backends[b].state \in {"stuck", "closed"}
    BY DEF PoolInv, OwnedInv
  <2> QED BY <2>0, <2>1, <2>2 DEF ReservationsExact
<1> QED BY <1>1, PoolInvariant, PTL

(* No workspace is given an epoch it had before: the provider a caller installs is
   later than every generation of those before it (Canonical, provider.Start). *)
THEOREM EpochsOnlyAdvance == PoolSpec => EpochsAdvance
<1>1. PoolTypeOK /\ PoolInv => \A c \in Lessees : At(c, "install") /\ At(c, "using")' =>
                             backends[actor[c].backend].epoch > given[actor[c].ws]
  <2> SUFFICES ASSUME PoolTypeOK, PoolInv, NEW c \in Lessees, At(c, "install")
               PROVE  backends[actor[c].backend].epoch > given[actor[c].ws]
    OBVIOUS
  <2>1. actor[c].ws # NoOne
    BY ActorParts DEF PoolInv, PointInv, PointOf, WithSlot, At
  <2> QED BY <2>1 DEF PoolInv, EpochInv, At
<1>2. PoolTypeOK /\ PoolInv => [\A c \in Lessees : At(c, "install") /\ At(c, "using")' =>
                             backends[actor[c].backend].epoch > given[actor[c].ws]]_poolVars
  BY <1>1
<1> QED BY <1>2, PoolInvariant, PTL DEF EpochsAdvance

==============================================================================
