-------------------------- MODULE DiagnosticLedger --------------------------
(***************************************************************************)
(* The diagnostic ledger of a workspace and the delivery of its notices:   *)
(* internal/workspace/evidence.go, evidence_prune.go, evidence_proof.go,   *)
(* internal/providerpool/evidence.go, internal/handlers/notices.go and the *)
(* late-evidence slots of lua/huyang/edit.lua.                             *)
(*                                                                         *)
(* A language server analyses versions of one document and publishes       *)
(* through independent streams; the kernel keeps what was published; edits *)
(* and diagnostics calls fetch it and record it in the ledger, which       *)
(* decides what is current, stale and resolved, and tells the clients.     *)
(* Edits take turns; a diagnostics call is a pure read and overlaps        *)
(* everything.                                                             *)
(*                                                                         *)
(* A confidence is its rank: 0 unavailable, 1 provisional, 2 corroborated, *)
(* 3 authoritative.  A version stands for the revision of that content as  *)
(* well; 0 is the version an unstamped publication does not have.          *)
(***************************************************************************)
EXTENDS Integers, SequencesExt

CONSTANTS
  Findings,         \* what can be wrong with the document
  Analyses,         \* what the streams may find in the versions
  Calls, Clients,   \* calls in flight, and the sessions that make them
  Nobody,
  NoticeCap,        \* maxDiagnosticNotices
  RefCap,           \* maxDiagnosticEvidenceReferences
  ClientCap,        \* maxNoticeClients
  MaxVersions,
  MaxEvents         \* publications, calls and mishaps together

ASSUME CapAssumption == {NoticeCap, RefCap, ClientCap} \subseteq Nat \ {0}
ASSUME EventAssumption == MaxVersions \in Nat \ {0} /\ MaxEvents \in Nat
ASSUME FindingsAssumption == IsFiniteSet(Findings)

Streams == {"push", "pull"}   \* lsp_push, lsp_pull
StreamOrder == <<"push", "pull">>

ASSUME NobodyAssumption == Nobody \notin Calls \cup Clients
ASSUME AnalysesAssumption == Analyses \subseteq [1..MaxVersions -> [Streams -> SUBSET Findings]]

VARIABLES
  content,     \* the version on disk
  known,       \* the version the workspace last saw; 0 after a restart
  truth,       \* what the analysis of a version finds, by stream
  kernel,      \* what the kernel holds of the server
  ledger,      \* diagnosticStore.state
  saved,       \* the file it was last saved to
  calls,        \* what the calls are doing
  client,      \* history: what a client holds and was shown
  delivery,    \* noticeDelivery: cursors, and clients in the order they came
  events        \* events so far

ledgerVars == <<content, known, truth, kernel, ledger, saved, calls, client, delivery, events>>

Versions == 1..MaxVersions
Batch == [kind : Streams \cup {"check"}, version : 0..MaxVersions, expected : 0..MaxVersions, complete : BOOLEAN,
          baseline : BOOLEAN, staged : BOOLEAN, revision : 0..MaxVersions, preEdit : 0..MaxVersions,
          findings : SUBSET Findings]
Item == [status : {"none", "current", "stale", "resolved"}, revision : 0..MaxVersions, kinds : SUBSET Streams,
         evidence : Seq(Nat), baselineMissing : BOOLEAN, withdrawn : 0..MaxVersions]
Notice == [seq : Nat, kind : {"new", "stale", "persisting", "resolved"}, id : Findings, baselineMissing : BOOLEAN]
Observation == [version : 0..MaxVersions, expected : Versions, findings : SUBSET Findings, superseded : BOOLEAN,
                delivered : BOOLEAN]
Dimension == [confidence : 0..3, evidence : Seq(Nat)]

Evidence == [id : Nat, batch : Batch]
Ledger == [sequence : Nat, ack : Nat, floor : Nat, items : [Findings -> Item], active : SUBSET Findings,
           stale : SUBSET Findings, evidence : SUBSET Evidence, notices : Seq(Notice), lanes : [Streams -> Dimension],
           dimension : 0..3]
Publication == [version : 0..MaxVersions, complete : BOOLEAN, findings : SUBSET Findings]
KernelView == [buffer : Versions, published : [Streams -> Publication], late : [Streams -> Seq(Observation)],
               pending : 0..MaxVersions]
CallPcs == {"idle", "baseline", "write", "resync", "fetch", "record", "collect", "late", "attach", "page", "query", "acknowledge"}
DiagnosticCall == [pc : CallPcs, by : Clients \cup {Nobody}, batches : Seq(Batch), preEdit : 0..MaxVersions, wrote : Nat,
                   page : Seq(Notice)]

(* Everything has its shape. *)
LedgerTypeOK ==
  /\ content \in Versions /\ known \in 0..MaxVersions /\ truth \in Analyses
  /\ kernel \in KernelView
  /\ ledger \in Ledger /\ saved \in Ledger
  /\ calls \in [Calls -> DiagnosticCall]
  /\ client \in [Clients -> [since : Nat, seen : SUBSET Nat, head : Nat]]
  /\ delivery \in [order : Seq(Clients), cursors : [Clients -> Nat]]
  /\ events \in Nat

Unseen == [status |-> "none", revision |-> 0, kinds |-> {}, evidence |-> <<>>, baselineMissing |-> FALSE, withdrawn |-> 0]
NoLane == [confidence |-> 0, evidence |-> <<>>]
Empty == [sequence |-> 0, ack |-> 0, floor |-> 0, items |-> [f \in Findings |-> Unseen], active |-> {}, stale |-> {},
          evidence |-> {}, notices |-> <<>>, lanes |-> [k \in Streams |-> NoLane], dimension |-> 0]
Unpublished == [version |-> 0, complete |-> FALSE, findings |-> {}]
Quiet(v) == [buffer |-> v, published |-> [k \in Streams |-> Unpublished], late |-> [k \in Streams |-> <<>>], pending |-> 0]
Idle == [pc |-> "idle", by |-> Nobody, batches |-> <<>>, preEdit |-> 0, wrote |-> 0, page |-> <<>>]
Undelivered == [order |-> <<>>, cursors |-> [c \in Clients |-> 0]]

LedgerInit ==
  /\ content = 1 /\ known = 1
  /\ truth \in Analyses
  /\ kernel = Quiet(1)
  /\ ledger = Empty /\ saved = Empty
  /\ calls = [c \in Calls |-> Idle]
  /\ client = [c \in Clients |-> [since |-> 0, seen |-> {}, head |-> 0]]
  /\ delivery = Undelivered
  /\ events = 0

At(c, pc) == calls[c].pc = pc
Event == events < MaxEvents /\ events' = events + 1
Larger(i, j) == IF i > j THEN i ELSE j
Smaller(i, j) == IF i < j THEN i ELSE j

(* The members of s at the positions in I, in order; and its newest ones. *)
Kept(s, I) ==
  LET at == CHOOSE f \in [1..Cardinality(I) -> I] :
              /\ \A i \in I : \E n \in DOMAIN f : f[n] = i
              /\ \A m, n \in DOMAIN f : m < n => f[m] < f[n]
  IN [n \in DOMAIN at |-> s[at[n]]]
Newest(s, cap) == SubSeq(s, Larger(1, Len(s) - cap + 1), Len(s))

-----------------------------------------------------------------------------
(* What a batch proves. *)
currentPublication(b) == b.version # 0 /\ b.expected # 0 /\ b.version >= b.expected
confidenceFor(b) ==
  CASE b.kind = "check" -> IF b.complete THEN 2 ELSE 0
    [] b.kind \in Streams -> IF b.complete /\ currentPublication(b) THEN 3 ELSE 1

(* baselineKnownLocked: proof in the same lane of exactly the preimage. *)
baselineKnownLocked(L, b) ==
  b.baseline \/ \E e \in L.evidence :
                  /\ b.preEdit # 0 /\ e.batch.revision = b.preEdit /\ ~e.batch.staged
                  /\ \E i \in DOMAIN L.lanes[b.kind].evidence : L.lanes[b.kind].evidence[i] = e.id
                  /\ confidenceFor(e.batch) = 3

(* baselineProofKey: equal baseline proof is stored once. *)
baselineProof(L, b) ==
  {e \in L.evidence : b.baseline /\ ~b.staged /\ b.revision # 0 /\ confidenceFor(b) = 3 /\ e.batch = b}

recentEvidenceIDs(ids, id) == Newest(Append(Kept(ids, {i \in DOMAIN ids : ids[i] # id}), id), RefCap)

(* Items change, and some of them are announced, one notice after another. *)
addNotices(L, items, kinds) ==
  LET order == SetToSeq(DOMAIN kinds)
      notice(i) == [seq |-> L.sequence + i, kind |-> kinds[order[i]], id |-> order[i],
                    baselineMissing |-> items[order[i]].baselineMissing]
  IN [L EXCEPT !.items = items, !.sequence = @ + Len(order), !.notices = @ \o [i \in DOMAIN order |-> notice(i)]]

-----------------------------------------------------------------------------
(* aggregateDimensionLocked: the weakest lane, and no better than provisional
   while an item is stale or comes from a stream without a lane. *)
Heard(L) == {k \in Streams : L.lanes[k].evidence # <<>>}
aggregateDimensionLocked(L) ==
  LET weakest == Min({3} \cup {L.lanes[k].confidence : k \in Heard(L)})
      doubt == \E f \in L.active \cup L.stale : \/ L.items[f].kinds = {} \/ L.items[f].status = "stale"
                                                \/ ~(L.items[f].kinds \subseteq Heard(L))
  IN IF doubt THEN Smaller(1, weakest) ELSE weakest
Aggregated(L) == [L EXCEPT !.dimension = aggregateDimensionLocked(L)]

(* storeEvidence, then its lane: recordEvidenceLocked. *)
storeEvidence(L, b) ==
  IF baselineProof(L, b) # {} THEN L
  ELSE [L EXCEPT !.sequence = @ + 1, !.evidence = @ \cup {[id |-> L.sequence + 1, batch |-> b]}]
evidenceID(L, b) == IF baselineProof(L, b) # {} THEN (CHOOSE e \in baselineProof(L, b) : TRUE).id ELSE L.sequence + 1
recordEvidenceLocked(L, b) ==
  IF b.kind = "check" THEN [storeEvidence(L, b) EXCEPT !.dimension = confidenceFor(b)]
  ELSE Aggregated([storeEvidence(L, b) EXCEPT
         !.lanes[b.kind] = [confidence |-> confidenceFor(b),
                            evidence |-> recentEvidenceIDs(@.evidence, evidenceID(L, b))]])

(* The findings of a batch: recordFindingsLocked. *)
Announced(L, b) ==
  {f \in b.findings : L.items[f].status = "resolved" \/ (~b.baseline /\ L.items[f].status = "none")}
Persisting(L, b) ==
  {f \in b.findings \ Announced(L, b) : L.items[f].status = "stale" \/ (b.baseline /\ L.items[f].status = "none")}
recordedItem(L, b, ev, baselineKnown, f) ==
  LET item == L.items[f] IN
  [status |-> "current", revision |-> b.revision, kinds |-> item.kinds \cup {b.kind},
   evidence |-> recentEvidenceIDs(item.evidence, ev), withdrawn |-> 0,
   baselineMissing |-> ~b.baseline /\ (IF f \in Announced(L, b) THEN ~baselineKnown ELSE item.baselineMissing)]
recordFindingsLocked(L, b, ev, baselineKnown) ==
  addNotices(L, [f \in Findings |-> IF f \in b.findings THEN recordedItem(L, b, ev, baselineKnown, f) ELSE L.items[f]],
             [f \in Announced(L, b) \cup Persisting(L, b) |-> IF f \in Announced(L, b) THEN "new" ELSE "persisting"])

(* Mutant: any stream's silence withdraws a finding. *)
streamCoversAnything(item, kind) == item.kinds # {}

(* Silence withdraws a finding only of the one stream that ever reported it. *)
streamCoversItem(item, kind) == item.kinds = {kind}
resolveAbsentLocked(L, b, ids) ==
  LET absent == {f \in ids : streamCoversItem(L.items[f], b.kind)}
      item(f) == [L.items[f] EXCEPT !.status = "resolved", !.withdrawn = b.version]
  IN addNotices(L, [f \in Findings |-> IF f \in absent THEN item(f) ELSE L.items[f]], [f \in absent |-> "resolved"])

(* documentChangedLocked: what was found in other content is stale, and lanes that
   rest on other content prove nothing any more. *)
AggregatedUnless(same, L) == IF same THEN L ELSE Aggregated(L)
Outdated(L, f, v) == L.items[f].revision # v
LaneRests(L, k, v) == \E e \in L.evidence : e.id = Last(L.lanes[k].evidence) /\ e.batch.revision = v
documentChangedLocked(L, v) ==
  LET gone == {f \in L.active : Outdated(L, f, v)}
      item(f) == [L.items[f] EXCEPT !.status = "stale"]
      marked == addNotices(L, [f \in Findings |-> IF f \in gone THEN item(f) ELSE L.items[f]], [f \in gone |-> "stale"])
      weak == {k \in Heard(L) : ~LaneRests(L, k, v)}
      lane(k) == IF k \in weak THEN [L.lanes[k] EXCEPT !.confidence = Smaller(1, @)] ELSE L.lanes[k]
  IN AggregatedUnless(weak = {}, [marked EXCEPT !.active = @ \ gone, !.stale = @ \cup gone,
                                                !.lanes = [k \in Streams |-> lane(k)]])

(* recordStagedLocked: evidence about a proposal, and nothing else. *)
recordStagedLocked(L, b) == storeEvidence(L, b)

(* What stays current: what was, and what the batch says. *)
membership(previous, current, resolved) == (previous \ resolved) \cup current

(* recordLocked.  The workspace's own reading of the disk goes before a baseline;
   findings without a current version to stand for are not taken; a complete batch
   of a confidence that may resolve withdraws what it is silent about. *)
Start(L, b) == IF b.baseline /\ known \notin {0, b.revision} THEN documentChangedLocked(L, b.revision) ELSE L
Seen(b) == IF b.expected = 0 \/ b.version = 0 \/ currentPublication(b) THEN b.findings ELSE {}
Found(start, b) ==
  recordFindingsLocked(recordEvidenceLocked(start, b), [b EXCEPT !.findings = Seen(b)], evidenceID(start, b),
                       baselineKnownLocked(start, b))
Settled(found, start, b) ==
  IF ~b.baseline /\ b.complete /\ confidenceFor(b) >= 2
  THEN resolveAbsentLocked(found, b, (start.active \cup start.stale) \ Seen(b)) ELSE found
Gathered(settled, start, seen, resolved) ==
  [settled EXCEPT !.active = membership(start.active, seen, resolved), !.stale = @ \ (resolved \cup seen)]
Merged(settled, start, b) ==
  Gathered(settled, start, Seen(b), {f \in start.active \cup start.stale : settled.items[f].status = "resolved"})
recordStarted(start, b) ==
  IF b.kind = "check" THEN recordEvidenceLocked(start, b)
  ELSE Aggregated(Merged(Settled(Found(start, b), start, b), start, b))
recordLocked(L, b) == IF b.staged THEN recordStagedLocked(L, b) ELSE recordStarted(Start(L, b), b)
recordEach(L, batches) ==
  LET after[i \in 0..Len(batches)] == IF i = 0 THEN L ELSE recordLocked(after[i - 1], batches[i])
  IN after[Len(batches)]

-----------------------------------------------------------------------------
(* Pruning.  Whether what nothing names has outlived the retention window is the
   clock's choice: aged. *)
pruneNoticesLocked(L) ==
  LET kept == Newest(Kept(L.notices, {i \in DOMAIN L.notices : L.notices[i].seq > L.ack}), NoticeCap)
      dropped == {L.notices[i].seq : i \in DOMAIN L.notices} \ {kept[i].seq : i \in DOMAIN kept}
  IN [L EXCEPT !.notices = kept, !.floor = Max({@} \cup dropped)]
pruneItemsLocked(L, aged) ==
  LET named == L.active \cup L.stale \cup {L.notices[i].id : i \in DOMAIN L.notices} IN
  [L EXCEPT !.items = [f \in Findings |-> IF aged /\ f \notin named THEN Unseen ELSE L.items[f]]]
Referenced(L) ==
  UNION ({ToSet(L.items[f].evidence) : f \in Findings} \cup {ToSet(L.lanes[k].evidence) : k \in Streams})

(* Mutant: only items keep evidence. *)
pruneEvidenceOfLanes(L, aged, keep) ==
  LET held == keep \cup UNION {ToSet(L.items[f].evidence) : f \in Findings} IN
  [L EXCEPT !.evidence = {e \in @ : e.id \in held \/ ~aged}]

pruneEvidenceLocked(L, aged, keep) == [L EXCEPT !.evidence = {e \in @ : e.id \in Referenced(L) \cup keep \/ ~aged}]
pruneLocked(L, aged, keep) ==
  pruneEvidenceLocked(pruneItemsLocked(pruneNoticesLocked(L), aged), aged, keep)
IdsAfter(L, sequence) == {e.id : e \in {x \in L.evidence : x.id > sequence}}
prunedRecord(L, aged) == pruneLocked(L, aged, IdsAfter(L, ledger.sequence))

(* recordBatches: all of it and saved, or none of it. *)
recordBatches(batches) ==
  \/ \E aged \in BOOLEAN :
       /\ ledger' = prunedRecord(recordEach(ledger, batches), aged)
       /\ saved' = ledger' /\ UNCHANGED events
  \/ Event /\ UNCHANGED <<ledger, saved>>

-----------------------------------------------------------------------------
(* The kernel.  A publication is kept with its version; one the kernel calls complete
   (stamped with the buffer's version, quiet, nothing in progress) is taken to list
   all its stream finds. *)
newer(p, v) == v = 0 \/ v >= p.version
publication_complete(k, v, expected, fs) == v >= expected /\ fs = truth[v][k]

(* The late observations of a stream: the latest, after those it superseded before
   they were delivered. *)
Superseded(waiting) ==
  IF waiting = <<>> THEN <<>>
  ELSE IF ~Last(waiting).delivered /\ Last(waiting).findings # {}
  THEN Append(Front(waiting), [Last(waiting) EXCEPT !.superseded = TRUE]) ELSE Front(waiting)
queue_late(waiting, v, fs) ==
  Append(Superseded(waiting), [version |-> v, expected |-> kernel.pending, findings |-> fs,
                               superseded |-> FALSE, delivered |-> FALSE])
capture_late(k, v, fs) ==
  IF kernel.pending # 0 /\ v \in {0, kernel.pending} /\ (v # 0 \/ fs # {} \/ kernel.late[k] # <<>>)
  THEN queue_late(kernel.late[k], v, fs) ELSE kernel.late[k]
Publish(k, v, complete, fs) ==
  /\ Event
  /\ newer(kernel.published[k], v) /\ fs \subseteq truth[IF v = 0 THEN kernel.buffer ELSE v][k]
  /\ complete => publication_complete(k, v, kernel.buffer, fs)
  /\ kernel' = [kernel EXCEPT !.published[k] = [version |-> v, complete |-> complete, findings |-> fs],
                              !.late[k] = capture_late(k, v, fs)]
  /\ UNCHANGED <<content, known, truth, ledger, saved, calls, client, delivery>>

(* late_evidence: an observation of content the buffer or the disk has left behind is
   dropped; one is delivered as it stands, and once more when it has become complete. *)
pending_current(o) == o.expected = kernel.pending /\ kernel.pending = kernel.buffer /\ content = kernel.buffer
MayComplete(k, o) == ~o.superseded /\ k # "pull" /\ publication_complete(k, o.version, o.expected, o.findings)
lateBatch(k, o, quiet) ==
  [kind |-> k, version |-> o.version, expected |-> o.expected, complete |-> quiet /\ MayComplete(k, o), baseline |-> FALSE,
   staged |-> FALSE, revision |-> IF o.version = 0 THEN 0 ELSE o.expected, preEdit |-> 0, findings |-> o.findings]
CurrentLate(k) == {i \in DOMAIN kernel.late[k] : pending_current(kernel.late[k][i])}
Completes(k, o, quiet) == quiet /\ MayComplete(k, o)
DueLate(k, quiet) ==
  Kept(kernel.late[k], {i \in CurrentLate(k) : ~kernel.late[k][i].delivered \/ Completes(k, kernel.late[k][i], quiet)})
lateBatches(k, quiet) ==
  LET due == DueLate(k, quiet) IN [i \in DOMAIN due |-> lateBatch(k, due[i], quiet)]
late_evidence(quiet) == lateBatches("push", quiet) \o lateBatches("pull", quiet)
leftLate(k, quiet) ==
  LET left == Kept(kernel.late[k], {i \in CurrentLate(k) : /\ ~kernel.late[k][i].superseded
                                                          /\ ~Completes(k, kernel.late[k][i], quiet)})
  IN [i \in DOMAIN left |-> [left[i] EXCEPT !.delivered = TRUE]]

(* coalesceLateDiagnosticBatches *)
publicationProven(b) == b.complete /\ currentPublication(b)
coalesced(out, b) ==
  IF out = <<>> \/ Last(out).kind # b.kind THEN Append(out, b)
  ELSE IF b.version # 0 /\ b.version < Last(out).version THEN out
  ELSE IF Last(out).findings # {} /\ ~publicationProven(b)
  THEN Front(out) \o <<[Last(out) EXCEPT !.complete = FALSE], b>>
  ELSE Append(Front(out), b)
coalesce(batches) ==
  LET out[i \in 0..Len(batches)] == IF i = 0 THEN <<>> ELSE coalesced(out[i - 1], batches[i])
  IN out[Len(batches)]

-----------------------------------------------------------------------------
(* Delivery.  Register starts an unknown client at the newest notice; track evicts
   the oldest client of a full table. *)
Registered(s) == \E i \in DOMAIN delivery.order : delivery.order[i] = s
noticeHead == IF ledger.notices = <<>> THEN ledger.floor ELSE Last(ledger.notices).seq
track(s) ==
  IF Registered(s) THEN delivery
  ELSE LET order == Append(delivery.order, s)
           kept == Newest(order, ClientCap)
       IN [order |-> kept, cursors |-> [c \in Clients |-> IF c \in ToSet(kept) THEN delivery.cursors[c] ELSE 0]]
recordCursor(s, cursor) == delivery' = [track(s) EXCEPT !.cursors[s] = Larger(@, cursor)]
Register(s) ==
  IF Registered(s) THEN UNCHANGED <<delivery, client>>
  ELSE /\ delivery' = [track(s) EXCEPT !.cursors[s] = noticeHead]
       /\ client' = [client EXCEPT ![s].head = noticeHead]

(* A call begins: an edit when no other holds the lane, or a diagnostics call. *)
Begin(c, s, pc) ==
  /\ At(c, "idle") /\ Event
  /\ pc = "baseline" => \A d \in Calls : calls[d].pc \notin {"baseline", "write", "resync", "fetch", "record"}
  /\ calls' = [calls EXCEPT ![c] = [Idle EXCEPT !.pc = pc, !.by = s]]
  /\ Register(s)
  /\ UNCHANGED <<content, known, truth, kernel, ledger, saved>>
Become(c, pc) == calls' = [calls EXCEPT ![c].pc = pc]

(* What the streams in K give, in their order. *)
BatchesOf(batch(_), K) ==
  LET streams == Kept(StreamOrder, {i \in DOMAIN StreamOrder : StreamOrder[i] \in K}) IN
  [i \in DOMAIN streams |-> batch(streams[i])]

(* RecordDiagnosticBaseline, with the disk's revision as it is then. *)
baselineBatch(k) ==
  [kind |-> k, version |-> kernel.published[k].version, expected |-> kernel.buffer, complete |-> TRUE, baseline |-> TRUE,
   staged |-> FALSE, revision |-> content, preEdit |-> 0, findings |-> kernel.published[k].findings]
RecordDiagnosticBaseline(c) ==
  LET proven == {k \in Streams : kernel.published[k].complete /\ kernel.published[k].version >= kernel.buffer} IN
  /\ At(c, "baseline") /\ Become(c, "write")
  /\ IF proven = {} THEN UNCHANGED <<ledger, saved, events>>
     ELSE recordBatches(BatchesOf(baselineBatch, proven))
  /\ UNCHANGED <<content, known, truth, kernel, client, delivery>>

(* documentChanged: memory moves on even when the save fails.  No change is noted of
   a document first seen after a restart. *)
documentChanged(v) ==
  IF known = 0 \/ known = v \/ documentChangedLocked(ledger, v) = ledger THEN UNCHANGED <<ledger, saved, events>>
  ELSE /\ ledger' = documentChangedLocked(ledger, v)
       /\ \/ saved' = ledger' /\ UNCHANGED events
          \/ Event /\ UNCHANGED saved

Write(c) ==
  /\ At(c, "write") /\ content < MaxVersions
  /\ content' = content + 1 /\ known' = content + 1
  /\ documentChanged(content + 1)
  /\ calls' = [calls EXCEPT ![c].pc = "resync", ![c].preEdit = content, ![c].wrote = content + 1]
  /\ UNCHANGED <<truth, kernel, client, delivery>>

(* The provider's buffer is read again from the disk. *)
Resync(c) ==
  /\ At(c, "resync") /\ Become(c, "fetch")
  /\ kernel' = [kernel EXCEPT !.buffer = content]
  /\ UNCHANGED <<content, known, truth, ledger, saved, client, delivery, events>>

(* RecordAppliedDiagnostics: the kernel's answer, bound to the edit's postimage; a
   document nothing was published for gets an empty unproven batch. *)
appliedBatch(c, k) ==
  [kind |-> k, version |-> kernel.published[k].version, expected |-> kernel.buffer,
   complete |-> kernel.published[k].complete /\ kernel.published[k].version >= kernel.buffer,
   baseline |-> FALSE, staged |-> FALSE, revision |-> calls[c].wrote, preEdit |-> calls[c].preEdit,
   findings |-> kernel.published[k].findings]
Spoken == {k \in Streams : kernel.published[k] # Unpublished}
(* note_pending_late: publications about this buffer are kept for a later call. *)
RecordPending == kernel' = [kernel EXCEPT !.pending = kernel.buffer]
Fetch(c) ==
  LET answer == BatchesOf(LAMBDA k : appliedBatch(c, k), Spoken)
      uncovered == [appliedBatch(c, "push") EXCEPT !.expected = 0] IN
  /\ At(c, "fetch")
  /\ calls' = [calls EXCEPT ![c].pc = "record", ![c].batches = IF answer = <<>> THEN <<uncovered>> ELSE answer]
  /\ RecordPending
  /\ UNCHANGED <<content, known, truth, ledger, saved, client, delivery, events>>

(* CollectLateEvidence, of a diagnostics call. *)
CollectLateEvidence(c) ==
  /\ At(c, "collect")
  /\ \E quiet \in BOOLEAN :
       /\ calls' = [calls EXCEPT ![c].pc = "late", ![c].batches = coalesce(late_evidence(quiet))]
       /\ kernel' = [kernel EXCEPT !.late = [k \in Streams |-> leftLate(k, quiet)]]
  /\ UNCHANGED <<content, known, truth, ledger, saved, client, delivery, events>>

(* Fetched batches are recorded one at a time, each in its own transaction; after a
   failed one the rest is given up. *)
RecordNext(c) ==
  LET rest == IF events' = events /\ calls[c].batches # <<>> THEN Tail(calls[c].batches) ELSE <<>>
      next == IF At(c, "record") THEN "attach" ELSE "query" IN
  /\ calls[c].pc \in {"record", "late"}
  /\ IF calls[c].batches = <<>> THEN UNCHANGED <<ledger, saved, events>> ELSE recordBatches(<<Head(calls[c].batches)>>)
  /\ calls' = [calls EXCEPT ![c].batches = rest, ![c].pc = IF rest = <<>> THEN next ELSE @]
  /\ UNCHANGED <<content, known, truth, kernel, client, delivery>>

(* A prepared plan's diagnostics, and a project check that corroborates. *)
RecordStagedDiagnostics ==
  /\ Event
  /\ LET b == [kind |-> "push", version |-> 0, expected |-> 0, complete |-> FALSE, baseline |-> FALSE, staged |-> TRUE,
               revision |-> content, preEdit |-> 0, findings |-> Findings]
     IN ledger' = pruneLocked(recordLocked(ledger, b), FALSE, {}) /\ saved' = ledger'
  /\ UNCHANGED <<content, known, truth, kernel, calls, client, delivery>>
corroborateWithProjectCheck(c) ==
  /\ At(c, "attach") /\ ledger.dimension <= 1
  /\ recordBatches(<<[kind |-> "check", version |-> 0, expected |-> 0, complete |-> TRUE, baseline |-> FALSE,
                      staged |-> FALSE, revision |-> calls[c].wrote, preEdit |-> 0, findings |-> {}]>>)
  /\ UNCHANGED <<content, known, truth, kernel, calls, client, delivery>>

-----------------------------------------------------------------------------
(* query(since): acknowledge, answer what is after it, prune and save; only a saved
   answer is given. *)
After(L, cursor) == Kept(L.notices, {i \in DOMAIN L.notices : L.notices[i].seq > cursor})
Seqs(ns) == {ns[i].seq : i \in DOMAIN ns}
Answered(L, s, since) ==
  client' = [client EXCEPT ![s].since = L.sequence, ![s].seen = @ \cup Seqs(After(ledger, since))]

query(c, since) ==
  /\ \E aged \in BOOLEAN : ledger' = pruneLocked([ledger EXCEPT !.ack = Larger(@, since)], aged, {})
  /\ \/ /\ saved' = ledger' /\ UNCHANGED events
        /\ Answered(ledger, calls[c].by, since)
        /\ calls' = [calls EXCEPT ![c].pc = "acknowledge", ![c].wrote = since]
     \/ /\ Event /\ UNCHANGED <<saved, client>>
        /\ calls' = [calls EXCEPT ![c] = Idle]
  /\ UNCHANGED <<content, known, truth, kernel, delivery>>

(* Mutant: up to the newest notice. *)
AcknowledgeHead(c) ==
  /\ At(c, "acknowledge")
  /\ recordCursor(calls[c].by, noticeHead)
  /\ calls' = [calls EXCEPT ![c] = Idle]
  /\ UNCHANGED <<content, known, truth, kernel, ledger, saved, client, events>>

(* RecordDiagnosticAcknowledgment: up to the cursor the client named, not to the
   newest notice. *)
Acknowledge(c) ==
  /\ At(c, "acknowledge")
  /\ recordCursor(calls[c].by, calls[c].wrote)
  /\ calls' = [calls EXCEPT ![c] = Idle]
  /\ UNCHANGED <<content, known, truth, kernel, ledger, saved, client, events>>

(* AttachDiagnosticUpdates: the page after the client's cursor is read, then the
   cursor moves to its end.  An evicted client starts at the newest notice again. *)
Attach(c) ==
  LET s == calls[c].by IN
  /\ At(c, "attach")
  /\ IF Registered(s)
     THEN /\ calls' = [calls EXCEPT ![c].pc = "page", ![c].page = After(ledger, delivery.cursors[s])]
          /\ UNCHANGED <<delivery, client>>
     ELSE /\ recordCursor(s, noticeHead)
          /\ client' = [client EXCEPT ![s].head = noticeHead]
          /\ calls' = [calls EXCEPT ![c] = Idle]
  /\ UNCHANGED <<content, known, truth, kernel, ledger, saved, events>>
DeliverPage(c) ==
  LET s == calls[c].by
      page == calls[c].page IN
  /\ At(c, "page")
  /\ IF page = <<>> THEN UNCHANGED <<delivery, client>>
     ELSE /\ recordCursor(s, Last(page).seq)
          /\ client' = [client EXCEPT ![s].seen = @ \cup Seqs(page)]
  /\ calls' = [calls EXCEPT ![c] = Idle]
  /\ UNCHANGED <<content, known, truth, kernel, ledger, saved, events>>

(* Somebody else writes the document; a snapshot notices. *)
ExternalWrite ==
  /\ content < MaxVersions /\ Event
  /\ content' = content + 1
  /\ UNCHANGED <<known, truth, kernel, ledger, saved, calls, client, delivery>>
Snapshot ==
  /\ known # content /\ known' = content
  /\ documentChanged(content)
  /\ UNCHANGED <<content, truth, kernel, calls, client, delivery>>

(* The service restarts: newDiagnosticStore reads the file. *)
Restart ==
  /\ Event
  /\ ledger' = saved /\ known' = 0
  /\ kernel' = Quiet(content)
  /\ calls' = [c \in Calls |-> Idle]
  /\ client' = [c \in Clients |-> [client[c] EXCEPT !.seen = {}, !.head = 0]]
  /\ delivery' = Undelivered
  /\ UNCHANGED <<content, truth, saved>>

-----------------------------------------------------------------------------
Step(c) ==
  \/ RecordDiagnosticBaseline(c) \/ Write(c) \/ Resync(c) \/ Fetch(c) \/ CollectLateEvidence(c) \/ RecordNext(c)
  \/ corroborateWithProjectCheck(c) \/ Acknowledge(c) \/ Attach(c) \/ DeliverPage(c)
  \/ At(c, "query") /\ \E since \in {0, client[calls[c].by].since} : query(c, since)
LedgerNext ==
  \/ \E c \in Calls : Step(c)
  \/ \E c \in Calls, s \in Clients, pc \in {"baseline", "collect"} : Begin(c, s, pc)
  \/ \E k \in Streams, v \in 0..kernel.buffer, complete \in BOOLEAN, fs \in SUBSET Findings : Publish(k, v, complete, fs)
  \/ RecordStagedDiagnostics \/ ExternalWrite \/ Snapshot \/ Restart
LedgerSpec == LedgerInit /\ [][LedgerNext]_ledgerVars

-----------------------------------------------------------------------------
(* Membership follows status through every order of changes, publications and
   failures; whatever an item or a lane names as evidence is there; an
   authoritative dimension beside stale findings rests, in every lane, on one content
   that is not theirs; and no cursor a client may acknowledge is ahead of the ledger,
   now or after a restart, or notices yet to come would be pruned as acknowledged
   (recordLocked, documentChangedLocked, pruneEvidenceLocked, query, save). *)
MembershipFollowsStatus(L) ==
  /\ L.active = {f \in Findings : L.items[f].status = "current"}
  /\ L.stale = {f \in Findings : L.items[f].status = "stale"}
EvidenceThere(L) == Referenced(L) \subseteq {e.id : e \in L.evidence}
DimensionRests(L) ==
  L.dimension = 3 /\ L.stale # {} =>
    \E v \in 0..MaxVersions : /\ \A k \in Heard(L) : LaneRests(L, k, v)
                             /\ \A f \in L.stale : Outdated(L, f, v)
LedgerConsistent ==
  /\ MembershipFollowsStatus(ledger) /\ EvidenceThere(ledger) /\ DimensionRests(ledger)
  /\ ledger.ack <= ledger.sequence
  /\ \A s \in Clients : client[s].since <= saved.sequence

(* A finding is resolved only by an analysis of some content in which no stream that
   ever reported it finds it (resolveAbsentLocked, streamCoversItem). *)
ResolvedWasWithdrawn ==
  \A f \in Findings : LET item == ledger.items[f] IN
    item.status = "resolved" => \A k \in item.kinds : f \notin truth[item.withdrawn][k]

(* No notice that is still kept is behind a client's cursor unless that client was
   shown it: not by another client's acknowledgement, an overlapping reply or an
   eviction (Register, record, AttachDiagnosticUpdates). *)
NoticesReachClients ==
  \A s \in ToSet(delivery.order) : \A i \in DOMAIN ledger.notices :
    LET n == ledger.notices[i].seq IN
    client[s].head < n /\ n <= delivery.cursors[s] => n \in client[s].seen

=============================================================================
