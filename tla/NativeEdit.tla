----------------------------- MODULE NativeEdit -----------------------------
(***************************************************************************)
(* edit_apply without a plan: internal/handlers/edit*.go over              *)
(* internal/workspace text.go, lifecycle.go, literal_replace.go and        *)
(* native_recovery.go.                                                     *)
(*                                                                         *)
(* One call at a time edits (the canonical lane); it runs a list of        *)
(* operations, each through the journal of mutateFile, then the formatter. *)
(* Readers publish what they inspected beside it, another program writes   *)
(* where it likes, and the service may die between any two steps.  A file  *)
(* is a sequence of cells; a range is a slice of it.  Paths are those the  *)
(* workspace confines, sources of a copy outside it are left out, and a    *)
(* preview is a read.                                                      *)
(***************************************************************************)
EXTENDS Revisions

CONSTANTS
  GoPaths,        \* the paths a formatter understands
  Formatted,      \* what it makes of each image, or Broken
  Broken,
  Writes,         \* the contents a client sends
  Old, New,       \* the literal of replace_literal, and its replacement
  Foreign,        \* what another program leaves in a file
  Kinds,          \* the operations clients ask for
  MaxCells,       \* the longest image
  AnchorCells,    \* AnchorBytes of a range handle
  NoOne,
  MaxCalls, MaxOperations,
  MaxDisturbances  \* readers, foreign writes, epochs, crashes and I/O errors

ASSUME PathAssumption == Paths # {} /\ GoPaths \subseteq Paths /\ NoOne \notin Paths
ASSUME WritesAssumption == <<>> \in Images /\ Writes \subseteq Images /\ Foreign \subseteq OnDisk
ASSUME FormattedAssumption == Formatted \in [Images -> Images \cup {Broken}]
ASSUME BoundAssumption ==
  {MaxCells, AnchorCells, MaxCalls, MaxOperations, MaxDisturbances} \subseteq Nat

VARIABLES
  tree,       \* the files
  journals,   \* native-*.json
  mem,        \* what the workspace remembers
  serving,    \* the service answers; otherwise it resolves journals
  scanned,    \* the journals this startup has looked at
  call,       \* the edit in flight
  reader,     \* the snapshot in flight beside it
  acked,      \* history: the last write to a path was answered as applied
  carried,    \* history: the file a move carries, until someone else writes it
  count       \* the bounds used up

vars == <<tree, journals, mem, serving, scanned, call, reader, acked, carried, count>>

Kind == {"range", "literal", "create", "replace", "delete", "move", "copy", "format"}
Phase == {"idle", "operation", "validate", "inspect", "hit", "destination", "journal", "ensure",
          "write", "clear", "refresh", "format"}
Journal == [path : Paths, pre : OnDisk, post : OnDisk, whole : BOOLEAN, left : BOOLEAN]
NoRevision == [epoch |-> 0, image |-> Missing]

(* at is the path the current mutateFile writes, hits are the occurrences still to
   replace, and files the images the call has produced. *)
Call == [phase : Phase, kind : Kind, path : Paths, to : Paths, expected : Revision,
         lo : Nat, hi : Nat, new : OnDisk, at : Paths,
         pre : OnDisk, post : OnDisk, hits : SUBSET (Paths \X Nat),
         files : [Paths -> OnDisk \cup {Unseen}], fixed : SUBSET Paths, operations : Nat]
Idle ==
  LET p == CHOOSE q \in Paths : TRUE IN
  [phase |-> "idle", kind |-> "create", path |-> p, to |-> p, expected |-> NoRevision,
   lo |-> 0, hi |-> 0, new |-> Missing, at |-> p, pre |-> Missing,
   post |-> Missing, hits |-> {}, files |-> [q \in Paths |-> Unseen], fixed |-> {}, operations |-> 0]
Reader == [todo : SUBSET Paths, at : Paths \cup {NoOne}, image : OnDisk]
NoReader == [todo |-> {}, at |-> NoOne, image |-> Missing]
Carried == [from : Paths, to : Paths, image : OnDisk, live : BOOLEAN]
NotCarried == [from |-> Idle.path, to |-> Idle.path, image |-> Missing, live |-> FALSE]
Bounds == [calls : 0..MaxCalls, disturbances : 0..MaxDisturbances]

(* Every file, journal, memory and call has its shape, and the bounds are kept. *)
TypeOK ==
  /\ tree \in [Paths -> OnDisk]
  /\ journals \subseteq Journal /\ scanned \subseteq journals
  /\ mem \in Memory
  /\ serving \in BOOLEAN
  /\ call \in Call /\ reader \in Reader
  /\ acked \in [Paths -> BOOLEAN]
  /\ carried \in Carried
  /\ count \in Bounds

Init ==
  /\ tree \in [Paths -> Writes \cup {Missing}]
  /\ journals = {} /\ scanned = {}
  /\ mem = NewMemory
  /\ serving = TRUE
  /\ call = Idle /\ reader = NoReader
  /\ acked = [p \in Paths |-> FALSE]
  /\ carried = NotCarried
  /\ count = [calls |-> 0, disturbances |-> 0]

-----------------------------------------------------------------------------
(* Ranges. *)
Lesser(a, b) == IF a < b THEN a ELSE b
Greater(a, b) == IF a > b THEN a ELSE b
Splice(c, lo, hi, new) == SubSeq(c, 1, lo) \o new \o SubSeq(c, hi + 1, Len(c))

(* rangeHandle and validateRange: the range and its anchors hash alike in the
   content the handle was made of and in the content found now. *)
SameAnchors(c, d, lo, hi) ==
  /\ hi <= Len(d)
  /\ SubSeq(c, lo + 1, hi) = SubSeq(d, lo + 1, hi)
  /\ SubSeq(c, Greater(lo - AnchorCells, 0) + 1, lo) = SubSeq(d, Greater(lo - AnchorCells, 0) + 1, lo)
  /\ SubSeq(c, hi + 1, Lesser(hi + AnchorCells, Len(c))) = SubSeq(d, hi + 1, Lesser(hi + AnchorCells, Len(d)))

(* matchRanges, for a literal of one cell: where it occurs. *)
Occurrences(c) == {i \in 0..(Len(c) - 1) : c[i + 1] = Old}

At(phase) == serving /\ call.phase = phase
Goto(phase) == call' = [call EXCEPT !.phase = phase]
Disturb ==
  /\ count.disturbances < MaxDisturbances
  /\ count' = [count EXCEPT !.disturbances = @ + 1]
OwnJournal == [path |-> call.at, pre |-> call.pre, post |-> call.post, whole |-> TRUE, left |-> FALSE]

(* A refusal or an error ends the call: the operations before it stay applied
   and the reply says so.  A formatter that fails only skips its file.  Whatever
   journal mutateFile has not removed by then stays behind. *)
Ended(c) == IF c.kind = "format" THEN [c EXCEPT !.phase = "format", !.kind = "create",
                                                !.fixed = @ \cup {c.path}]
            ELSE Idle
LeftBehind(J) == {[j EXCEPT !.left = TRUE] : j \in J}
Refuse(J) ==
  /\ call' = Ended(call)
  /\ journals' = LeftBehind(J)
  /\ acked' = IF call.kind = "format" THEN acked
              ELSE [p \in Paths |-> acked[p] \/ call.files[p] = tree[p]]

-----------------------------------------------------------------------------
(* Operations of the list. *)
Ready == \/ At("operation") /\ call.operations < MaxOperations
         \/ At("idle") /\ count.calls < MaxCalls
Begin(record) ==
  /\ call' = [record EXCEPT !.operations = call.operations + 1, !.files = call.files, !.fixed = call.fixed]
  /\ count' = IF call.phase = "idle" THEN [count EXCEPT !.calls = @ + 1] ELSE count
Tokens(p) == [epoch : {mem.epoch}, image : Writes] \cup {e[2] : e \in {f \in mem.retained : f[1] = p}}

(* applyCreateFile: a snapshot has to show that nothing is there. *)
applyCreateFile(p) ==
  /\ Ready /\ "create" \in Kinds
  /\ mem' = Publish(mem, p, tree[p])
  /\ IF tree[p] # Missing
     THEN Refuse(journals) /\ UNCHANGED count
     ELSE /\ \E w \in Writes :
               Begin([Idle EXCEPT !.phase = "validate", !.kind = "create", !.path = p, !.at = p, !.new = w,
                                  !.expected = revisionFor(mem, Missing)])
          /\ UNCHANGED <<journals, acked>>
  /\ UNCHANGED <<tree, serving, scanned, reader, carried>>

(* applyReplaceFile: the client names the revision it overwrites. *)
applyReplaceFile(p) ==
  /\ Ready /\ "replace" \in Kinds
  /\ mem' = Publish(mem, p, tree[p])
  /\ \E w \in Writes, r \in Tokens(p) :
       Begin([Idle EXCEPT !.phase = "validate", !.kind = "replace", !.path = p, !.at = p, !.new = w,
                          !.expected = r])
  /\ UNCHANGED <<tree, journals, serving, scanned, reader, acked, carried>>

(* applyDeleteFile: a revision, or the hash of what the snapshot shows. *)
applyDeleteFile(p) ==
  /\ Ready /\ "delete" \in Kinds
  /\ mem' = Publish(mem, p, tree[p])
  /\ IF tree[p] = Missing
     THEN Refuse(journals) /\ UNCHANGED count
     ELSE /\ \E r \in Tokens(p) \cup {revisionFor(mem, tree[p])} :
               Begin([Idle EXCEPT !.phase = "validate", !.kind = "delete", !.path = p, !.at = p, !.expected = r])
          /\ UNCHANGED <<journals, acked>>
  /\ UNCHANGED <<tree, serving, scanned, reader, carried>>

(* applyMoveFile: without a revision the current one is taken. *)
applyMoveFile(p, q) ==
  /\ Ready /\ "move" \in Kinds /\ p # q
  /\ \/ /\ mem' = Publish(mem, p, tree[p])
        /\ Begin([Idle EXCEPT !.phase = "validate", !.kind = "move", !.path = p, !.to = q, !.at = p,
                              !.expected = revisionFor(mem, tree[p])])
     \/ /\ \E r \in Tokens(p) :
             Begin([Idle EXCEPT !.phase = "validate", !.kind = "move", !.path = p, !.to = q, !.at = p,
                                !.expected = r])
        /\ UNCHANGED mem
  /\ UNCHANGED <<tree, journals, serving, scanned, reader, acked, carried>>

(* TransferSource reads the bytes once; transferableKind has to find a file. *)
transferableKind(image) == image # Missing

applyCopyFile(p, q) ==
  /\ Ready /\ "copy" \in Kinds /\ p # q
  /\ IF ~transferableKind(tree[p])
     THEN Refuse(journals) /\ UNCHANGED <<mem, count>>
     ELSE /\ mem' = Publish(mem, p, tree[p])
          /\ Begin([Idle EXCEPT !.phase = "destination", !.kind = "copy", !.path = p, !.to = q, !.at = q,
                                !.new = tree[p]])
          /\ UNCHANGED <<journals, acked>>
  /\ UNCHANGED <<tree, serving, scanned, reader, carried>>

(* resolveEditTarget: a handle names a slice of the content of its revision. *)
Handles(p) ==
  {h \in [revision : {t \in Tokens(p) : t.image # Missing}, lo : 0..MaxCells, hi : 0..MaxCells] :
     h.lo <= h.hi /\ h.hi <= Len(h.revision.image)}

(* editRange is a call of its own, never one operation of a list. *)
editRange(p) ==
  /\ Ready /\ "range" \in Kinds /\ call.operations = 0
  /\ \E w \in Writes, h \in Handles(p) :
       /\ Splice(h.revision.image, h.lo, h.hi, w) \in Images
       /\ Begin([Idle EXCEPT !.phase = "validate", !.kind = "range", !.path = p, !.at = p, !.new = w,
                             !.expected = h.revision, !.lo = h.lo, !.hi = h.hi])
  /\ UNCHANGED <<tree, journals, mem, serving, scanned, reader, acked, carried>>

(* LocateLiteral: the occurrences in the candidates, one file or every file. *)
literalCandidates(S) == Cardinality(S) = 1 \/ S = {p \in Paths : tree[p] # Missing}
LocateLiteral(S) == UNION {{p} \X Occurrences(tree[p]) : p \in {q \in S : tree[q] # Missing}}

(* literalRefusal: nothing found, or not as often as expected. *)
literalRefusal(hits, expected) == hits = {} \/ Cardinality(hits) # expected

applyLiteral(S, expected) ==
  LET hits == LocateLiteral(S) IN
  /\ Ready /\ "literal" \in Kinds /\ literalCandidates(S)
  /\ IF literalRefusal(hits, expected)
     THEN Refuse(journals) /\ UNCHANGED count
     ELSE /\ \E h \in hits :
               Begin([Idle EXCEPT !.phase = "hit", !.kind = "literal", !.path = h[1], !.new = New, !.hits = hits])
          /\ UNCHANGED <<journals, acked>>
  /\ UNCHANGED <<tree, mem, serving, scanned, reader, carried>>

(* ReplaceLiteral: file by file, the later occurrences first. *)
NextHits ==
  LET here == {h \in call.hits : h[1] = call.path} IN
  {h \in (IF here = {} THEN call.hits ELSE here) : \A g \in call.hits : g[1] = h[1] => g[2] <= h[2]}

(* replaceInFile: NewRange reads the file again and hashes whatever lies at the
   offsets of the next occurrence. *)
NextHit ==
  /\ At("hit")
  /\ \E h \in NextHits :
       LET p == h[1]
           i == h[2] IN
       /\ mem' = Publish(mem, p, tree[p])
       /\ IF tree[p] = Missing \/ i + 1 > Len(tree[p])
          THEN Refuse(journals)
          ELSE /\ call' = [call EXCEPT !.phase = "validate", !.path = p, !.at = p, !.lo = i, !.hi = i + 1,
                                       !.hits = @ \ {h}, !.expected = revisionFor(mem, tree[p])]
               /\ UNCHANGED <<journals, acked>>
  /\ UNCHANGED <<tree, serving, scanned, reader, carried, count>>

-----------------------------------------------------------------------------
(* ValidateMutation, and what the operation asks of the object it found. *)
Validate ==
  LET image == tree[call.path]
      fits == (image = Missing) <=> (call.kind = "create") IN
  /\ At("validate")
  /\ mem' = Publish(mem, call.path, image)
  /\ IF Valid(mem, call.path, call.expected, image) /\ fits
     THEN Goto("inspect") /\ UNCHANGED <<journals, acked>>
     ELSE Refuse(journals)
  /\ UNCHANGED <<tree, serving, scanned, reader, carried, count>>

(* ApplyReplace through validateRange: the range and its anchors are compared. *)
ApplyReplace(image) ==
  IF image = Missing \/ ~SameAnchors(call.expected.image, image, call.lo, call.hi) THEN {}
  ELSE {[call EXCEPT !.phase = "journal", !.pre = image,
                     !.post = Splice(image, call.lo, call.hi, call.new)]}

(* ApplyFile takes what it finds now as the preimage of a file that existed, and
   compares it with nothing. *)
ApplyFile(image) ==
  {[call EXCEPT !.phase = "journal",
                !.pre = IF call.kind = "create" THEN Missing ELSE IF image = Missing THEN <<>> ELSE image,
                !.post = IF call.kind = "delete" THEN Missing ELSE call.new]}

(* ApplyMove compares the whole content. *)
ApplyMove(image) ==
  IF image # call.expected.image THEN {} ELSE {[call EXCEPT !.phase = "destination", !.new = image]}

(* The second inspection, after ValidateMutation; no image longer than MaxCells
   arises. *)
Inspect ==
  LET image == tree[call.path]
      next == IF call.kind \in {"range", "literal", "format"} THEN ApplyReplace(image)
              ELSE IF call.kind = "move" THEN ApplyMove(image) ELSE ApplyFile(image) IN
  /\ At("inspect")
  /\ \A c \in next : c.post \in OnDisk
  /\ IF next = {} THEN Refuse(journals) ELSE call' \in next /\ UNCHANGED <<journals, acked>>
  /\ UNCHANGED <<tree, mem, serving, scanned, reader, carried, count>>

(* A journal an earlier call could not remove may undo what a move writes. *)
NothingToUndo(p, q) == \A j \in journals : j.path \in {p, q} => ~j.whole

(* Mutant: the source of a move is removed before the destination is written. *)
DestinationLast ==
  LET q == call.to IN
  /\ At("destination")
  /\ tree[q] = Missing
  /\ mem' = Publish(mem, q, tree[q])
  /\ call' = [call EXCEPT !.phase = "journal", !.at = call.path, !.pre = call.new, !.post = Missing]
  /\ carried' = [from |-> call.path, to |-> q, image |-> call.new,
                 live |-> tree[call.path] = call.new /\ NothingToUndo(call.path, q)]
  /\ UNCHANGED <<tree, journals, serving, scanned, reader, acked, count>>

(* transferDestination: nothing may be there. *)
transferDestination(q) == tree[q] = Missing

(* ApplyCopy, and the first half of ApplyMove. *)
Destination ==
  LET q == call.to IN
  /\ At("destination")
  /\ mem' = Publish(mem, q, tree[q])
  /\ IF ~transferDestination(q)
     THEN Refuse(journals) /\ UNCHANGED carried
     ELSE /\ call' = [call EXCEPT !.phase = "journal", !.at = q, !.pre = Missing, !.post = call.new]
          /\ carried' = IF call.kind # "move" THEN carried
                        ELSE [from |-> call.path, to |-> q, image |-> call.new,
                              live |-> tree[call.path] = call.new /\ NothingToUndo(call.path, q)]
          /\ UNCHANGED <<journals, acked>>
  /\ UNCHANGED <<tree, serving, scanned, reader, count>>

(* mutateFile, its journal: written whole, or an error before, in or after it. *)
WriteJournal ==
  /\ At("journal")
  /\ \/ /\ journals' = journals \cup {OwnJournal}
        /\ Goto("ensure")
        /\ UNCHANGED <<acked, count>>
     \/ /\ Disturb
        /\ \E J \in {{}, {OwnJournal}, {[OwnJournal EXCEPT !.whole = FALSE]}} : Refuse(journals \cup J)
  /\ UNCHANGED <<tree, mem, serving, scanned, reader, carried>>

(* stateMatches: the file is the image, or is not there. *)
stateMatches(files, p, image) == files[p] = image

(* ensureCurrent *)
EnsureCurrent ==
  /\ At("ensure")
  /\ IF stateMatches(tree, call.at, call.pre)
     THEN Goto("write") /\ UNCHANGED <<journals, acked>>
     ELSE Refuse(journals \ {OwnJournal})
  /\ UNCHANGED <<tree, mem, serving, scanned, reader, carried, count>>

(* The write, which may fail before or after its effect; the journal of a failed
   one is kept unless the preimage is in place. *)
CarriedAfter(p) == IF call.kind # "move" /\ p \in {carried.from, carried.to} THEN [carried EXCEPT !.live = FALSE] ELSE carried
Write ==
  LET p == call.at
      written == [tree EXCEPT ![p] = call.post] IN
  /\ At("write")
  /\ \/ /\ tree' = written
        /\ call' = [call EXCEPT !.phase = "clear"]
        /\ acked' = [acked EXCEPT ![p] = FALSE]
        /\ UNCHANGED <<journals, count>>
     \/ /\ Disturb
        /\ tree' \in {tree, written}
        /\ call' = Ended(call)
        /\ LET J == IF stateMatches(tree', p, call.pre) THEN journals \ {OwnJournal} ELSE journals IN
             journals' = LeftBehind(J)
        /\ acked' = [q \in Paths |-> IF q = p /\ tree' # tree THEN FALSE
                                     ELSE acked[q] \/ (call.kind # "format" /\ call.files[q] = tree[q])]
  /\ carried' = CarriedAfter(p)
  /\ UNCHANGED <<mem, serving, scanned, reader>>

(* Mutant: the journal outlives the edit. *)
ClearLater ==
  /\ At("clear")
  /\ call' = IF call.kind = "move" /\ call.at = call.to
             THEN [call EXCEPT !.phase = "journal", !.at = call.path, !.pre = call.new, !.post = Missing]
             ELSE [call EXCEPT !.phase = "refresh"]
  /\ UNCHANGED <<tree, journals, mem, serving, scanned, reader, acked, carried, count>>

(* The journal goes before the edit is answered; its removal may fail, or only the
   sync after it.  A move then writes its other end. *)
ClearJournal ==
  /\ At("clear")
  /\ \/ /\ journals' = journals \ {OwnJournal}
        /\ call' = IF call.kind = "move" /\ call.at = call.to
                   THEN [call EXCEPT !.phase = "journal", !.at = call.path, !.pre = call.new, !.post = Missing]
                   ELSE [call EXCEPT !.phase = "refresh"]
        /\ UNCHANGED <<acked, count>>
     \/ /\ Disturb
        /\ \E J \in {journals, journals \ {OwnJournal}} : Refuse(J)
  /\ UNCHANGED <<tree, mem, serving, scanned, reader, carried>>

(* The Refresh that ends an operation, and what mergeApplied keeps of it. *)
RefreshEdited ==
  LET moved == call.kind = "move"
      kept == moved \/ call.kind = "copy"
      seen == IF moved THEN Publish(mem, call.to, tree[call.to]) ELSE mem
      files == IF moved THEN [call.files EXCEPT ![call.to] = call.new, ![call.path] = Missing]
               ELSE [call.files EXCEPT ![call.at] = call.post]
      more == call.kind = "literal" /\ call.hits # {} IN
  /\ At("refresh")
  /\ mem' = Publish(seen, call.at, tree[call.at])
  /\ call' = IF more THEN [call EXCEPT !.phase = "hit", !.files = files]
             ELSE [Idle EXCEPT !.phase = IF call.kind = "format" THEN "format" ELSE "operation",
                               !.operations = call.operations, !.files = files,
                               !.fixed = IF kept THEN call.fixed \cup {call.to, call.path}
                                         ELSE IF call.kind = "format" THEN call.fixed \cup {call.path}
                                         ELSE call.fixed]
  /\ UNCHANGED <<tree, journals, serving, scanned, reader, acked, carried, count>>

(* finishEdit starts the formatter. *)
FinishOperations ==
  /\ At("operation") /\ Goto("format")
  /\ UNCHANGED <<tree, journals, mem, serving, scanned, reader, acked, carried, count>>

(* formatEdited: the files it may rewrite and would change. *)
Unformatted ==
  {p \in GoPaths \ call.fixed : /\ call.files[p] \in Images
                                /\ Formatted[call.files[p]] \notin {Broken, call.files[p]}}

(* applyFormatted: a handle over as many cells of the file as the edit left. *)
FormatFile(p) ==
  /\ At("format") /\ p \in Unformatted
  /\ mem' = Publish(mem, p, tree[p])
  /\ call' = IF tree[p] = Missing \/ Len(call.files[p]) > Len(tree[p])
             THEN [call EXCEPT !.fixed = @ \cup {p}]
             ELSE [call EXCEPT !.phase = "validate", !.kind = "format", !.path = p, !.at = p, !.lo = 0,
                               !.hi = Len(call.files[p]), !.new = Formatted[call.files[p]],
                               !.expected = revisionFor(mem, tree[p])]
  /\ UNCHANGED <<tree, journals, serving, scanned, reader, acked, carried, count>>

(* The call is answered. *)
Answer ==
  /\ At("format") /\ Unformatted = {}
  /\ acked' = [p \in Paths |-> acked[p] \/ call.files[p] = tree[p]]
  /\ call' = Idle
  /\ UNCHANGED <<tree, journals, mem, serving, scanned, reader, carried, count>>

-----------------------------------------------------------------------------
(* Readers: a snapshot of one path, of every cached one, or of the inventory. *)
StartReader(todo) ==
  /\ serving /\ reader = NoReader /\ Disturb
  /\ reader' = [NoReader EXCEPT !.todo = todo]
  /\ UNCHANGED <<tree, journals, serving, scanned, call, acked, carried>>
Snapshot(p) == StartReader({p}) /\ UNCHANGED mem
RefreshKnownDocuments ==
  StartReader({p \in Paths : mem.cache[p] # Unseen}) /\ UNCHANGED mem
PrimeDocuments ==
  LET current == {p \in Paths : tree[p] # Missing} IN
  StartReader(current) /\ mem' = Inventory(mem, current)

(* inspectPath, outside the lock *)
InspectPath(p) ==
  /\ serving /\ reader.at = NoOne /\ p \in reader.todo
  /\ reader' = [todo |-> reader.todo \ {p}, at |-> p, image |-> tree[p]]
  /\ UNCHANGED <<tree, journals, mem, serving, scanned, call, acked, carried, count>>

(* Mutant: the observation is compared with the record before the inspection,
   which it equals when nothing was recorded meanwhile. *)
PublishUncounted ==
  /\ serving /\ reader.at # NoOne
  /\ mem' = [Publish(mem, reader.at, reader.image) EXCEPT !.seq = mem.seq]
  /\ reader' = [reader EXCEPT !.at = NoOne, !.image = Missing]
  /\ UNCHANGED <<tree, journals, serving, scanned, call, acked, carried, count>>

(* and publication under it. *)
PublishSnapshot ==
  /\ serving /\ reader.at # NoOne
  /\ mem' = Publish(mem, reader.at, reader.image)
  /\ reader' = [reader EXCEPT !.at = NoOne, !.image = Missing]
  /\ UNCHANGED <<tree, journals, serving, scanned, call, acked, carried, count>>

SyncEpoch ==
  /\ serving /\ mem.epoch < MaxEpoch /\ Disturb
  /\ mem' = SyncProviderEpoch(mem)
  /\ UNCHANGED <<tree, journals, serving, scanned, call, reader, acked, carried>>

(* Another program. *)
External(p, image) ==
  /\ Disturb /\ image # tree[p]
  /\ tree' = [tree EXCEPT ![p] = image]
  /\ acked' = [acked EXCEPT ![p] = FALSE]
  /\ carried' = IF p \in {carried.from, carried.to} THEN [carried EXCEPT !.live = FALSE] ELSE carried
  /\ UNCHANGED <<journals, mem, serving, scanned, call, reader>>

-----------------------------------------------------------------------------
(* The service dies; a journal it was writing may be cut short. *)
Crash ==
  /\ serving /\ Disturb
  /\ serving' = FALSE /\ scanned' = {}
  /\ journals' \in {journals} \cup
       (IF call.phase = "journal" THEN {journals \cup {[OwnJournal EXCEPT !.whole = FALSE]}} ELSE {})
  /\ call' = Idle /\ reader' = NoReader
  /\ mem' = [NewMemory EXCEPT !.seq = mem.seq]
  /\ UNCHANGED <<tree, acked, carried>>

(* recoverNativeJournal: discarded, cleared, put back, or left as a conflict. *)
Recover(j) ==
  LET now == tree[j.path] IN
  /\ ~serving /\ j \in journals \ scanned
  /\ \/ /\ ~j.whole \/ now = j.pre
        /\ journals' = journals \ {j}
        /\ UNCHANGED <<tree, scanned, count>>
     \/ /\ j.whole /\ now \notin {j.pre, j.post}
        /\ scanned' = scanned \cup {j}
        /\ UNCHANGED <<tree, journals, count>>
     \/ /\ j.whole /\ now # j.pre /\ now = j.post
        /\ \/ /\ tree' = [tree EXCEPT ![j.path] = j.pre]
              /\ journals' = journals \ {j}
              /\ UNCHANGED <<scanned, count>>
           \/ /\ Disturb
              /\ tree' \in {tree, [tree EXCEPT ![j.path] = j.pre]}
              /\ scanned' = scanned \cup {j}
              /\ UNCHANGED journals
  /\ acked' = [p \in Paths |-> acked[p] /\ tree'[p] = tree[p]]
  /\ UNCHANGED <<mem, serving, call, reader, carried>>

Serve ==
  /\ ~serving /\ scanned = journals
  /\ serving' = TRUE /\ scanned' = {}
  /\ journals' = LeftBehind(journals)
  /\ UNCHANGED <<tree, mem, call, reader, acked, carried, count>>

-----------------------------------------------------------------------------
Operation ==
  \E p \in Paths :
    \/ applyCreateFile(p) \/ applyReplaceFile(p) \/ applyDeleteFile(p) \/ editRange(p)
    \/ \E q \in Paths : applyMoveFile(p, q) \/ applyCopyFile(p, q)
Literal == \E S \in SUBSET Paths, n \in 1..2 : applyLiteral(S, n)
Step ==
  \/ NextHit \/ Validate \/ Inspect \/ Destination \/ WriteJournal \/ EnsureCurrent \/ Write
  \/ ClearJournal \/ RefreshEdited \/ FinishOperations \/ Answer
  \/ \E p \in Paths : FormatFile(p)
Observe ==
  \/ PublishSnapshot \/ PrimeDocuments \/ RefreshKnownDocuments \/ SyncEpoch
  \/ \E p \in Paths : Snapshot(p) \/ InspectPath(p)
Environment == Crash \/ Serve \/ (\E j \in journals : Recover(j)) \/ (\E p \in Paths, i \in Foreign : External(p, i))

Next == Operation \/ Literal \/ Step \/ Observe \/ Environment
Spec == Init /\ [][Next]_vars

-----------------------------------------------------------------------------
(* An edit that was answered as applied is not taken back by a later startup:
   recovery only undoes bytes nobody was told of, or follows a journal an earlier
   write failed to remove (mutateFile removes its journal before it returns). *)
AckedStays ==
  [][\A p \in Paths : ~serving /\ acked[p] /\ (\A j \in journals : j.path = p => ~j.left) =>
       (tree'[p] = tree[p] \/ \E i \in Foreign : External(p, i))]_vars

(* A move never loses the file: until somebody else writes either end, the bytes
   are at one of them, in every crash and on every error path (ApplyMove). A move
   over a path that an unremovable journal of an earlier write still names is not
   followed: the next startup may undo it. *)
MoveKeepsContent ==
  carried.live => carried.image \in {tree[carried.from], tree[carried.to]}

(* The three structures that hold revisions agree, within the budget. *)
RevisionsAccounted == Accounted(mem)

(* A workspace revision names one content: what is recorded of a path changes only
   with the state sequence, whatever order overlapping snapshots publish in. *)
SeqNamesContent ==
  [][\A p \in Paths : mem.cache[p] # Unseen /\ mem'.cache[p] \notin {Unseen, mem.cache[p]}
                        => mem'.seq > mem.seq]_vars

-----------------------------------------------------------------------------
(* The inductive strengthening of MoveKeepsContent and AckedStays. *)

(* A path whose bytes somebody relies on. *)
Watched(p) == acked[p] \/ (carried.live /\ p \in {carried.from, carried.to})

Writing == call.phase \in {"journal", "ensure", "write", "clear"}

(* Nothing is in flight while journals are resolved, and a step is where its
   operation brought it: a move writes its destination, then its source. *)
PlaceInv ==
  /\ ~serving => call.phase = "idle"
  /\ call.phase \in {"idle", "operation", "format"} => call.kind = "create"
  /\ call.phase = "hit" => call.kind = "literal"
  /\ call.phase \in {"validate", "inspect"} => call.at = call.path
  /\ call.phase = "destination" => call.kind \in {"move", "copy"}
  /\ call.kind = "move" => call.path # call.to
  /\ call.kind = "move" /\ (Writing \/ call.phase = "refresh") =>
       \/ call.at = call.to /\ call.pre = Missing /\ call.post = call.new
       \/ call.at = call.path /\ call.pre = call.new /\ call.post = Missing

(* What the call found is still there where somebody relies on it, since another
   program's write ends that. *)
StillInv ==
  /\ call.phase = "inspect" /\ Watched(call.path) => (tree[call.path] = Missing <=> call.kind = "create")
  /\ call.phase \in {"journal", "ensure", "write"} /\ Watched(call.at) => tree[call.at] = call.pre
  /\ call.phase = "clear" => ~acked[call.at]
  /\ (call.phase = "destination" \/ (Writing /\ call.at = call.to)) /\ call.kind = "move" /\ Watched(call.path) =>
       tree[call.path] = call.new

(* A whole journal is of the write in flight or was left behind; one that a crash
   left would not touch an answered edit. *)
JournalInv ==
  \A j \in journals : j.whole /\ ~j.left =>
    IF serving THEN call.phase \in {"ensure", "write", "clear"} /\ j = OwnJournal
    ELSE acked[j.path] => tree[j.path] = j.pre \/ tree[j.path] # j.post

(* The carried file is at p, and no journal would take it away. *)
KeptAt(p) ==
  /\ tree[p] = carried.image
  /\ \A j \in journals : j.path = p /\ j.whole => j.pre = carried.image

(* Until the destination is complete the source is kept, and from then on the
   destination. *)
CarriedInv == carried.live => KeptAt(carried.from) \/ KeptAt(carried.to)
FlightInv ==
  carried.live /\ call.kind = "move" /\ (Writing \/ call.phase = "refresh") =>
    /\ carried.from = call.path /\ carried.to = call.to /\ carried.image = call.new
    /\ call.at = call.path => KeptAt(call.to)
    /\ call.at = call.to =>
         /\ KeptAt(call.path)
         /\ \A j \in journals : j.path = call.to /\ j.whole =>
              j = OwnJournal /\ call.phase \in {"ensure", "write", "clear"}
         /\ call.phase = "clear" => tree[call.to] = call.new

IInv == PlaceInv /\ StillInv /\ JournalInv /\ CarriedInv /\ FlightInv
=============================================================================
