------------------------------ MODULE Handles ------------------------------
(***************************************************************************)
(* Handles and result sets, internal/workspace/handles.go, and the search  *)
(* and listing of text.go that issue them: a caller finds text or          *)
(* declarations, keeps opaque handles to them, and comes back later, when  *)
(* other programs may have written the tree, other sessions may have       *)
(* filled the store, and time may have passed.                             *)
(*                                                                         *)
(* A document is a sequence of tokens.  A token stands for one declaration *)
(* and also for the text a query matches; Name is its name path, Node and  *)
(* Sig its normalized fingerprints.  Hashes are the text they hash, and a  *)
(* revision is the epoch and the image.  Offsets count tokens, half open.  *)
(*                                                                         *)
(* Reads of one document are one step each: a change between the snapshot  *)
(* and the second look of Read is refused there, which is the torn read.   *)
(* Identifiers count up in the order of expiry, since every entry gets the *)
(* same TTL.  Only project workspaces, and always with a sectioner, as the *)
(* service opens them.                                                     *)
(***************************************************************************)
EXTENDS Integers, Sequences, FiniteSets

CONSTANTS
  PathSeq,         \* the paths of the tree, in path order
  Tokens, Name, Node, Sig,
  Long,            \* tokens longer than maxRetainedMatchBytes
  Query,           \* the tokens the query matches
  Texts,           \* the documents other programs write
  Binary, Link, Missing,
  Unseen,
  Tracked,         \* paths git lists even when they are deleted
  Anchor,          \* defaultAnchorBytes
  MaxHandles, MaxSets, MaxMatches, MaxFiles,
  Start,           \* the trees the model starts from
  MaxCalls,        \* calls of the session that look something up
  MaxFaults,       \* what others do, in all: writes, expiry, crowding
  MaxEvents        \* both together

Paths == {PathSeq[i] : i \in DOMAIN PathSeq}
Images == {Binary, Link, Missing} \cup Seq(Tokens)
None == [kind |-> "none"]

ASSUME PathsAssumption ==
  /\ PathSeq \in Seq(Paths) /\ Paths # {}
  /\ \A i, j \in DOMAIN PathSeq : PathSeq[i] = PathSeq[j] => i = j
ASSUME TokensAssumption == Tokens # {} /\ Long \cup Query \subseteq Tokens /\ Texts \subseteq Seq(Tokens)
ASSUME ImagesAssumption == Binary \notin {Link, Missing} /\ Unseen \notin Images /\ Start \subseteq [Paths -> Images]
ASSUME CapsAssumption == {MaxHandles, MaxSets, MaxMatches, MaxFiles} \subseteq Nat \ {0} /\ Anchor \in Nat

VARIABLES
  disk,            \* path -> image
  ws,              \* what Workspace records: cache, seq, epoch
  store,           \* handleStore, shared by all sessions
  call,            \* the call of the session followed here
  look,            \* the lookup it is waiting for
  held,            \* the handles and the set its last answers gave it
  during,          \* history: the images each path had since the lookup began
  faults

vars == <<disk, ws, store, call, look, held, during, faults>>

IsText(i) == i \notin {Binary, Link, Missing}
Rev(i) == <<ws.epoch, i>>
Span(text, s, e) == SubSeq(text, s + 1, e)
Elems(s) == {s[i] : i \in DOMAIN s}
Narrow(f, keep) == [x \in DOMAIN f \cap keep |-> f[x]]
(* The members of s at the positions in I, in order. *)
Kept(s, I) ==
  LET at == CHOOSE f \in [1..Cardinality(I) -> I] :
              /\ \A i \in I : \E n \in DOMAIN f : f[n] = i
              /\ \A m, n \in DOMAIN f : m < n => f[m] < f[n]
  IN [n \in DOMAIN at |-> s[at[n]]]
Put(f, x, y) == [z \in DOMAIN f \cup {x} |-> IF z = x THEN y ELSE f[z]]

(* The locked half of a snapshot, as Revisions has it: a document that differs
   from its last observation advances the sequence. *)
Refresh(m, p) ==
  [m EXCEPT !.seq = IF m.cache[p] \notin {Unseen, disk[p]} THEN @ + 1 ELSE @,
            !.cache[p] = disk[p]]
RefreshAll(m, ps) ==
  [m EXCEPT !.seq = @ + Cardinality({p \in Paths : p \in ps /\ m.cache[p] \notin {Unseen, disk[p]}}),
            !.cache = [p \in Paths |-> IF p \in ps THEN disk[p] ELSE @[p]]]

-----------------------------------------------------------------------------
(* The store. *)
NewStore ==
  [handles |-> <<>>, sets |-> <<>>, next |-> 1, expired |-> 0, due |-> FALSE, pending |-> 0]

Newest(f, n) == Narrow(f, {x \in DOMAIN f : Cardinality({y \in DOMAIN f : y >= x}) <= n})

(* sweepLocked: the expired go, then those closest to expiry until the store is
   within its caps. *)
sweepLocked(s) ==
  LET live(f) == Narrow(f, {x \in DOMAIN f : x > s.expired}) IN
  [s EXCEPT !.due = FALSE, !.handles = Newest(live(s.handles), MaxHandles),
            !.sets = Newest(live(s.sets), MaxSets)]

(* noteInsertLocked: due stands for the sweep interval having passed; the count
   of inserts that also forces a sweep is far above the caps modelled here. *)
noteInsertLocked(s) ==
  IF s.due \/ Cardinality(DOMAIN s.handles) > MaxHandles \/ Cardinality(DOMAIN s.sets) > MaxSets
  THEN sweepLocked(s) ELSE s

putHandleLocked(s, record) ==
  noteInsertLocked([s EXCEPT !.handles = Put(s.handles, s.next, record), !.next = s.next + 1])
putSetLocked(s, set) ==
  noteInsertLocked([s EXCEPT !.sets = Put(s.sets, s.next, set), !.next = s.next + 1])

(* One after the other.  A sweep that leaves the newest in the middle leaves what
   one sweep at the end does, and one is due at the end if it was before. *)
PutHandles(s, records) ==
  IF records = <<>> THEN s
  ELSE LET n == s.next + Len(records) IN
       noteInsertLocked([s EXCEPT !.next = n,
         !.handles = [id \in DOMAIN s.handles \cup (s.next..(n - 1)) |->
                        IF id < s.next THEN s.handles[id] ELSE records[id - s.next + 1]]])

-----------------------------------------------------------------------------
(* Ranges and locators. *)
Before(text, s) == Span(text, IF s > Anchor THEN s - Anchor ELSE 0, s)
After(text, e) == Span(text, e, IF e + Anchor < Len(text) THEN e + Anchor ELSE Len(text))

rangeHandle(p, text, s, e) ==
  [path |-> p, start |-> s, end |-> e, text |-> Span(text, s, e),
   before |-> Before(text, s), after |-> After(text, e), rev |-> Rev(text)]

Fingerprint(text) == [i \in DOMAIN text |-> <<Node[text[i]], Sig[text[i]]>>]

RangeRecord(p, text, s) == [kind |-> "range", epoch |-> ws.epoch, loc |-> rangeHandle(p, text, s, s + 1)]

(* registerSymbol: a declaration is one token. *)
SymbolRecord(p, text, s) ==
  [kind |-> "symbol", epoch |-> ws.epoch, loc |-> rangeHandle(p, text, s, s + 1)]
NameOf(record) == Name[record.loc.text[1]]
Offsets(text, I) == Kept([i \in 1..Len(text) |-> i - 1], I)
Declared(text, name) == Offsets(text, {i \in DOMAIN text : Name[text[i]] = name})

(* matchRanges, for a query that matches single tokens *)
matchRanges(text) == Offsets(text, {i \in DOMAIN text : text[i] \in Query})

Hit(p, text, s, id) == [path |-> p, start |-> s, text |-> text[s + 1], handle |-> id]

nonOverlapping(hits) ==
  \A i, j \in DOMAIN hits : (i # j /\ hits[i].path = hits[j].path) => hits[i].start # hits[j].start

-----------------------------------------------------------------------------
(* collectInScope: git's listing, or the walk where git cannot list; the cap
   comes after the scope, and a listing it cut is not complete. *)
There(p) == disk[p] # Missing \/ p \in Tracked
Listed(scope) == Kept(PathSeq, {i \in DOMAIN PathSeq : PathSeq[i] \in scope /\ There(PathSeq[i])})
collectScopedFiles(scope) ==
  SubSeq(Listed(scope), 1, IF Len(Listed(scope)) > MaxFiles THEN MaxFiles ELSE Len(Listed(scope)))
CompleteListing(scope) == Len(Listed(scope)) <= MaxFiles

-----------------------------------------------------------------------------
(* locatorMatches *)
locatorMatches(text, l, s) ==
  /\ s + (l.end - l.start) <= Len(text)
  /\ Span(text, s, s + l.end - l.start) = l.text
  /\ Before(text, s) = l.before
  /\ After(text, s + l.end - l.start) = l.after

(* locateRanges: every equal span, or the single one whose anchors agree too. *)
locateRanges(p, text, l) ==
  LET length == l.end - l.start
      all == {rangeHandle(p, text, s, s + length) :
                s \in {s \in 0..(Len(text) - length) : Span(text, s, s + length) = l.text}}
      anchored == {c \in all : c.before = l.before /\ c.after = l.after}
  IN IF Cardinality(anchored) = 1 THEN anchored ELSE all

Conflicted == [status |-> "conflicted", loc |-> None]
Resolution(status, l) == [status |-> status, loc |-> l]

(* resolveRange *)
resolveRange(record) ==
  LET l == record.loc
      image == disk[l.path]
      candidates == locateRanges(l.path, image, l)
      inPlace == {c \in candidates : c.start = l.start /\ c.before = l.before}
  IN IF ~IsText(image) THEN Conflicted
     ELSE IF Rev(image) = l.rev /\ locatorMatches(image, l, l.start) THEN Resolution("exact", l)
     ELSE IF Cardinality(candidates) = 1 THEN Resolution("relocated", CHOOSE c \in candidates : TRUE)
     ELSE IF inPlace # {} THEN Resolution("relocated", CHOOSE c \in inPlace : TRUE)
     ELSE Conflicted

(* resolveSymbolInPlace *)
resolveSymbolInPlace(l) ==
  /\ IsText(disk[l.path]) /\ Rev(disk[l.path]) = l.rev
  /\ l.end <= Len(disk[l.path]) /\ Span(disk[l.path], l.start, l.end) = l.text

(* Mutant: any declaration of that name will do. *)
CandidatesByName(p, l) ==
  IF ~IsText(disk[p]) THEN {}
  ELSE {rangeHandle(p, disk[p], s, s + 1) : s \in Elems(Declared(disk[p], Name[l.text[1]]))}

(* sectionCandidates, for one file: the declarations of that name whose
   fingerprints match. *)
sectionCandidates(p, l) ==
  IF ~IsText(disk[p]) THEN {}
  ELSE {c \in {rangeHandle(p, disk[p], s, s + 1) : s \in Elems(Declared(disk[p], Name[l.text[1]]))} :
          Fingerprint(c.text) = Fingerprint(l.text)}

(* resolveSymbol, once every file has been parsed *)
FoundSymbol(l, found) ==
  IF Cardinality(found) # 1 THEN Conflicted
  ELSE LET c == CHOOSE c \in found : TRUE IN
       Resolution(IF <<c.path, c.start, c.rev>> = <<l.path, l.start, l.rev>>
                  THEN "exact" ELSE "relocated", c)

(* InspectHandle *)
Known(id) ==
  /\ id \in DOMAIN store.handles
  /\ id > store.expired
  /\ store.handles[id].epoch = ws.epoch
(* An expired handle is dropped when it is touched. *)
Touched(s, id) ==
  IF id <= s.expired THEN [s EXCEPT !.handles = Narrow(@, DOMAIN @ \ {id})] ELSE s
-----------------------------------------------------------------------------
(* A lookup is one call of ResolveHandle, ResolveSymbolLocator, InspectResultSet
   or ResolveAllMatches: at says what it does next, todo the documents it has
   still to read, rest the handles it has still to resolve. *)
NoLook ==
  [kind |-> "none", at |-> "idle", id |-> 0, todo |-> <<>>, rest |-> <<>>, found |-> {}, record |-> None, path |-> None, name |-> None,
   unique |-> {}, set |-> None, hits |-> <<>>, ok |-> FALSE, out |-> Conflicted]

Failed(l) == [l EXCEPT !.at = "done", !.ok = FALSE]
Answered(l) == [l EXCEPT !.at = "done", !.ok = TRUE]
Marked == [p \in Paths |-> {disk[p]}]
Unmarked == [p \in Paths |-> {}]

NextHandle(l) ==
  IF l.rest # <<>> THEN [l EXCEPT !.at = "resolve", !.id = Head(l.rest), !.rest = Tail(@)]
  ELSE IF l.kind = "all" THEN [l EXCEPT !.at = "hydrate"]
  ELSE [l EXCEPT !.at = "select"]

(* What a resolution means to the lookup that asked for it. *)
Resolved(l, r) ==
  CASE l.kind = "handle" -> [l EXCEPT !.at = "done", !.out = r, !.ok = r.status # "conflicted"]
    [] l.kind = "all" -> IF r.status = "exact" THEN NextHandle(l) ELSE Failed(l)
    [] l.kind = "locator" ->
         NextHandle(IF r.status = "conflicted" THEN l
                    ELSE [l EXCEPT !.unique = @ \cup {[id |-> l.id, loc |-> r.loc]}])

StartResolve(id) == [NoLook EXCEPT !.kind = "handle", !.at = "resolve", !.id = id]
StartSet(kind, id) == [NoLook EXCEPT !.kind = kind, !.at = "inspect", !.id = id]

(* Another program writes between the two looks of a Read: it is refused, and
   the bytes may be back by the next read. *)
Room == faults < MaxFaults /\ call.asked + faults < MaxEvents
Torn == IF Room THEN BOOLEAN ELSE {FALSE}
Tear(torn) == faults' = IF torn THEN faults + 1 ELSE faults

(* ResolveHandle: InspectHandle, then the document the handle names. *)
ResolveHandle ==
  /\ look.at = "resolve"
  /\ IF ~Known(look.id)
     THEN /\ store' = Touched(store, look.id)
          /\ look' = Resolved(look, Conflicted)
          /\ UNCHANGED <<ws, faults>>
     ELSE \E torn \in Torn : LET record == store.handles[look.id] IN
       /\ Tear(torn)
       /\ ws' = Refresh(ws, record.loc.path)
       /\ look' = CASE record.kind = "range" ->
                      Resolved(look, IF torn THEN Conflicted ELSE resolveRange(record))
                  [] record.kind = "symbol" /\ ~torn /\ resolveSymbolInPlace(record.loc) ->
                      Resolved(look, Resolution("exact", record.loc))
                  [] OTHER -> [look EXCEPT !.at = "scan", !.todo = collectScopedFiles(Paths),
                                            !.found = {}, !.record = record]
       /\ UNCHANGED store
  /\ UNCHANGED <<disk, call, held, during>>

(* sectionCandidates, one document of the tree; after the last, resolveSymbol
   decides. *)
ScanFile ==
  /\ look.at = "scan"
  /\ look.todo # <<>>
  /\ \E torn \in Torn : LET p == Head(look.todo) IN
       /\ Tear(torn)
       /\ ws' = Refresh(ws, p)
       /\ look' = [look EXCEPT !.todo = Tail(@),
                               !.found = IF torn THEN @ ELSE @ \cup sectionCandidates(p, look.record.loc)]
  /\ UNCHANGED <<disk, store, call, held, during>>

resolveSymbol ==
  /\ look.at = "scan"
  /\ look.todo = <<>>
  /\ look' = Resolved(look, FoundSymbol(look.record.loc, look.found))
  /\ UNCHANGED <<disk, ws, store, call, held, during, faults>>

(* FindSymbolsInFile registers what the file declares now; ResolveSymbolLocator
   then resolves those and every live symbol handle of that path and name. *)
ResolveSymbolLocator ==
  /\ look.at = "find"
  /\ \E torn \in Torn :
       LET p == look.path
           name == look.name
           image == disk[p]
           found == IF torn \/ ~IsText(image) THEN <<>> ELSE Declared(image, name)
           stored == PutHandles(store, [i \in DOMAIN found |-> SymbolRecord(p, image, found[i])])
           named == {id \in DOMAIN stored.handles :
                       /\ stored.handles[id].kind = "symbol" /\ id > stored.expired
                       /\ stored.handles[id].loc.path = p /\ NameOf(stored.handles[id]) = name}
       IN /\ Tear(torn)
          /\ ws' = Refresh(ws, p)
          /\ store' = stored
          /\ look' = NextHandle([look EXCEPT !.kind = "locator",
               !.rest = Kept([i \in 1..(stored.next - 1) |-> i], named)])
  /\ UNCHANGED <<disk, call, held, during>>

(* One declaration, under one or more handles, and any of them may be taken. *)
SelectSymbol ==
  /\ look.at = "select"
  /\ LET places == {<<u.loc.path, u.loc.start, u.loc.end, u.loc.text>> : u \in look.unique} IN
     IF Cardinality(places) # 1 THEN look' = Failed(look)
     ELSE \E u \in look.unique : look' = [Answered(look) EXCEPT !.id = u.id]
  /\ UNCHANGED <<disk, ws, store, call, held, during, faults>>

LiveSet(id) == id \in DOMAIN store.sets /\ id > store.expired /\ store.sets[id].epoch = ws.epoch

(* Mutant: a result set does not look at the listing again. *)
SameListing(set) == TRUE

(* The files in the set's scope are those the search was given. *)
SourceFiles(set) == collectScopedFiles(set.scope) = set.files

(* InspectResultSet: the entry, then the listing. *)
InspectResultSet ==
  /\ look.at = "inspect"
  /\ LET id == look.id
         live == LiveSet(id)
         set == store.sets[id] IN
     /\ store' = IF live THEN store
                 ELSE [store EXCEPT !.sets = IF id <= store.expired THEN Narrow(@, DOMAIN @ \ {id}) ELSE @]
     /\ look' = CASE ~live -> Failed(look)
                  [] live /\ set.kind = "historical" -> [look EXCEPT !.at = "seq", !.set = set]
                  [] live /\ set.kind = "current" /\ ~SourceFiles(set) -> Failed(look)
                  [] OTHER -> [look EXCEPT !.at = "revisions", !.set = set,
                                           !.todo = Kept(PathSeq, {i \in DOMAIN PathSeq : PathSeq[i] \in DOMAIN set.revs})]
  /\ UNCHANGED <<disk, ws, call, held, during, faults>>

(* its documents, one at a time *)
InspectRevision ==
  /\ look.at = "revisions"
  /\ look.todo # <<>>
  /\ \E torn \in Torn : LET p == Head(look.todo) IN
       /\ Tear(torn)
       /\ ws' = Refresh(ws, p)
       /\ look' = IF torn \/ ~IsText(disk[p]) \/ Rev(disk[p]) # look.set.revs[p] THEN Failed(look)
                  ELSE [look EXCEPT !.todo = Tail(@), !.at = IF Tail(look.todo) = <<>> THEN "seq" ELSE @]
  /\ UNCHANGED <<disk, store, call, held, during>>

(* and the sequence last; ResolveAllMatches goes on to the handles. *)
InspectSequence ==
  /\ look.at = "seq" \/ (look.at = "revisions" /\ look.todo = <<>>)
  /\ look' = IF look.set.seq # ws.seq \/ look.set.kind = "historical" THEN Failed(look)
             ELSE IF look.kind = "set" THEN [look EXCEPT !.at = "hydrate"]
             ELSE IF ~look.set.complete \/ ~nonOverlapping(look.set.hits) THEN Failed(look)
             ELSE NextHandle([look EXCEPT !.rest = [i \in DOMAIN look.set.hits |-> look.set.hits[i].handle]])
  /\ UNCHANGED <<disk, ws, store, call, held, during, faults>>

(* hydrateHits: the text of a long match is read back from the document as it
   is now, whatever its revision. *)
hydrateHits ==
  /\ look.at = "hydrate"
  /\ LET hits == look.set.hits
         long == {i \in DOMAIN hits : hits[i].text \in Long}
         there(i) == IsText(disk[hits[i].path]) /\ hits[i].start < Len(disk[hits[i].path]) IN
     /\ ws' = RefreshAll(ws, {hits[i].path : i \in long})
     /\ look' = IF \E i \in long : ~there(i) THEN Failed(look)
                ELSE [Answered(look) EXCEPT !.hits =
                        [i \in DOMAIN hits |-> IF i \in long
                           THEN [hits[i] EXCEPT !.text = disk[hits[i].path][hits[i].start + 1]] ELSE hits[i]]]
  /\ UNCHANGED <<disk, store, call, held, during, faults>>
-----------------------------------------------------------------------------
(* The calls of the session.  A plan's calls are PlanPreview's. *)
NoCall ==
  [kind |-> "none", asked |-> 0, scope |-> {}, files |-> <<>>, todo |-> <<>>, hits |-> <<>>, revs |-> <<>>,
   complete |-> TRUE, links |-> {}, ids |-> <<>>, paths |-> {}, toks |-> {}, name |-> None]

Free == call.kind = "none" /\ call.asked < MaxCalls /\ call.asked + faults < MaxEvents
Ask(kind) == [NoCall EXCEPT !.kind = kind, !.asked = call.asked + 1]
Return == [NoCall EXCEPT !.asked = call.asked]

(* Search, and FindSymbols over the whole tree, begin with the listing. *)
BeginSearch(scope) ==
  /\ Free
  /\ call' = [Ask("search") EXCEPT !.scope = scope, !.files = collectScopedFiles(scope),
                                   !.todo = collectScopedFiles(scope), !.complete = CompleteListing(scope)]
  /\ UNCHANGED <<disk, ws, store, look, held, during, faults>>
FindSymbols(name) ==
  /\ Free
  /\ call' = [Ask("find") EXCEPT !.name = name, !.todo = collectScopedFiles(Paths)]
  /\ UNCHANGED <<disk, ws, store, look, held, during, faults>>

(* FindSymbols: the declarations of one document *)
FindInFile ==
  /\ call.kind = "find"
  /\ call.todo # <<>>
  /\ \E torn \in Torn :
       LET p == Head(call.todo)
           image == disk[p]
           found == IF torn \/ ~IsText(image) THEN <<>> ELSE Declared(image, call.name)
       IN /\ Tear(torn)
          /\ ws' = Refresh(ws, p)
          /\ store' = PutHandles(store, [i \in DOMAIN found |-> SymbolRecord(p, image, found[i])])
          /\ call' = [call EXCEPT !.todo = Tail(@), !.ids = @ \o [i \in DOMAIN found |-> store.next + i - 1]]
  /\ UNCHANGED <<disk, look, held, during>>
symbolFind ==
  /\ call.kind = "find"
  /\ call.todo = <<>>
  /\ held' = [held EXCEPT !.handles = call.ids]
  /\ call' = Return
  /\ UNCHANGED <<disk, ws, store, look, during, faults>>

(* readSearchable: a symlink is no gap, every other document that is not read
   is; git may list a file that is not there. *)
readSearchable ==
  /\ call.kind = "search"
  /\ call.todo # <<>>
  /\ Len(call.hits) < MaxMatches
  /\ LET p == Head(call.todo)
         next == [call EXCEPT !.todo = Tail(@)] IN
     \/ /\ disk[p] \in {Link, Binary}
        /\ call' = [next EXCEPT !.complete = @ /\ disk[p] = Link,
                                !.links = IF disk[p] = Link THEN @ \cup {p} ELSE @]
        /\ UNCHANGED <<ws, faults>>
     \/ /\ disk[p] = Missing \/ (IsText(disk[p]) /\ Room)
        /\ Tear(disk[p] # Missing)
        /\ ws' = Refresh(ws, p)
        /\ call' = [next EXCEPT !.complete = FALSE]
  /\ UNCHANGED <<disk, store, look, held, during>>

(* matchHits: a handle for every match, up to the cap.  RegisterRangeHandle
   reads the document again and refuses the search if it has changed. *)
matchHits ==
  /\ call.kind = "search"
  /\ call.todo # <<>>
  /\ Len(call.hits) < MaxMatches
  /\ LET p == Head(call.todo)
         text == disk[p]
         found == matchRanges(text)
         room == MaxMatches - Len(call.hits)
         taken == SubSeq(found, 1, IF Len(found) > room THEN room ELSE Len(found)) IN
     /\ IsText(text)
     /\ ws' = Refresh(ws, p)
     /\ \/ /\ store' = PutHandles(store, [i \in DOMAIN taken |-> RangeRecord(p, text, taken[i])])
           /\ call' = [call EXCEPT
                !.todo = Tail(@), !.revs = Put(@, p, Rev(text)), !.complete = @ /\ Len(found) <= room,
                !.hits = @ \o [i \in DOMAIN taken |-> Hit(p, text, taken[i], store.next + i - 1)]]
           /\ UNCHANGED faults
        \/ /\ found # <<>>
           /\ Room
           /\ faults' = faults + 1
           /\ call' = Return
           /\ UNCHANGED store
  /\ UNCHANGED <<disk, look, held, during>>

CurrentSet(scope, files, revs, hits, complete, links, paths, toks) ==
  [kind |-> "current", epoch |-> ws.epoch, seq |-> ws.seq, scope |-> scope, files |-> files, revs |-> revs,
   hits |-> hits, complete |-> complete, links |-> links, paths |-> paths, toks |-> toks]

(* FreezeSearch: the set carries the sequence of now, and the revisions of when
   each document was read. *)
FreezeSearch ==
  /\ call.kind = "search"
  /\ call.todo = <<>> \/ Len(call.hits) >= MaxMatches
  /\ store' = putSetLocked(store, CurrentSet(call.scope, call.files, call.revs, call.hits,
                             call.complete /\ call.todo = <<>>, call.links, Paths, Tokens))
  /\ held' = [handles |-> [i \in DOMAIN call.hits |-> call.hits[i].handle], set |-> store.next]
  /\ call' = Return
  /\ UNCHANGED <<disk, ws, look, during, faults>>

(* RefineResultSet *)
refineSearch(paths, toks) ==
  /\ Free
  /\ held.set # 0
  /\ call' = [Ask("refine") EXCEPT !.paths = paths, !.toks = toks]
  /\ look' = StartSet("set", held.set)
  /\ during' = Marked
  /\ UNCHANGED <<disk, ws, store, held, faults>>
RefineResultSet ==
  /\ call.kind = "refine"
  /\ look.at = "done"
  /\ IF ~look.ok THEN UNCHANGED <<store, held>>
     ELSE LET parent == look.set
              hits == Kept(look.hits, {i \in DOMAIN look.hits : look.hits[i].path \in call.paths /\ look.hits[i].text \in call.toks}) IN
          /\ store' = putSetLocked(store, CurrentSet(parent.scope, parent.files, parent.revs, hits,
                         parent.complete, parent.links, parent.paths \cap call.paths, parent.toks \cap call.toks))
          /\ held' = [handles |-> [i \in DOMAIN hits |-> hits[i].handle], set |-> store.next]
  /\ call' = Return
  /\ look' = NoLook
  /\ during' = Unmarked
  /\ UNCHANGED <<disk, ws, faults>>

(* readHandle: the handle is resolved, and then its document is read again. *)
readHandle(id) ==
  /\ Free
  /\ call' = Ask("read")
  /\ look' = StartResolve(id)
  /\ during' = Marked
  /\ UNCHANGED <<disk, ws, store, held, faults>>

(* readSymbol: the one declaration the file has of that name, or else what the
   stored handles say; the handle is then resolved again. *)
readSymbol(p, name) ==
  /\ Free
  /\ LET found == IF IsText(disk[p]) THEN Declared(disk[p], name) ELSE <<>> IN
     /\ ws' = Refresh(ws, p)
     /\ store' = PutHandles(store, [i \in DOMAIN found |-> SymbolRecord(p, disk[p], found[i])])
     /\ look' = IF Len(found) = 1 THEN StartResolve(store.next)
                ELSE IF disk[p] = Missing THEN Failed(NoLook)
                ELSE [NoLook EXCEPT !.kind = "locator", !.at = "find", !.path = p, !.name = name]
  /\ call' = [Ask("read") EXCEPT !.paths = {p}]
  /\ during' = Marked
  /\ UNCHANGED <<disk, held, faults>>
ReadSelected ==
  /\ call.kind = "read"
  /\ look.at = "done" /\ look.kind = "locator" /\ look.ok
  /\ look' = StartResolve(look.id)
  /\ during' = Marked
  /\ UNCHANGED <<disk, ws, store, call, held, faults>>
(* A symbol is read from the path that was asked for, a handle where it resolved. *)
ReadResolved ==
  /\ call.kind = "read"
  /\ look.at = "done" /\ (look.kind # "locator" \/ ~look.ok)
  /\ LET read == IF call.paths = {} THEN {look.out.loc.path} ELSE call.paths IN
     ws' = IF look.ok THEN RefreshAll(ws, read) ELSE ws
  /\ call' = Return
  /\ look' = NoLook
  /\ during' = Unmarked
  /\ UNCHANGED <<disk, store, held, faults>>

-----------------------------------------------------------------------------
(* Everyone else. *)
Disturb == Room /\ faults' = faults + 1

External(p, image) ==
  /\ Disturb
  /\ image # disk[p]
  /\ disk' = [disk EXCEPT ![p] = image]
  /\ during' = IF look.at = "idle" THEN during ELSE [during EXCEPT ![p] = @ \cup {image}]
  /\ UNCHANGED <<ws, store, call, look, held>>

SyncProviderEpoch ==
  /\ Disturb
  /\ ws' = [ws EXCEPT !.epoch = @ + 1, !.seq = @ + 1]
  /\ UNCHANGED <<disk, store, call, look, held, during>>

(* The TTL of everything issued so far runs out, and the sweep is due. *)
Expire ==
  /\ Disturb
  /\ store.expired < store.next - 1
  /\ store' = [store EXCEPT !.expired = store.next - 1, !.due = TRUE]
  /\ UNCHANGED <<disk, ws, call, look, held, during>>

(* Another session searches: a handle and a set in the shared store. *)
OtherSearch ==
  /\ Disturb
  /\ store' = putSetLocked(putHandleLocked(store,        \* bound: a handle to one text of one path
                   RangeRecord(CHOOSE p \in Paths : TRUE, <<CHOOSE t \in Tokens : TRUE>>, 0)),
                 CurrentSet(Paths, <<>>, <<>>, <<>>, TRUE, {}, Paths, Tokens))
  /\ UNCHANGED <<disk, ws, call, look, held, during>>

(* FreezeHistoricalResultSet freezes a current set, and stores it again as a
   historical one under a second lock, without counting an insert. *)
FreezeHistoricalResultSet ==
  \/ /\ Disturb
     /\ store.pending = 0
     /\ store' = [putSetLocked(store, CurrentSet(Paths, <<>>, <<>>, <<>>, TRUE, {}, Paths, Tokens))
                  EXCEPT !.pending = store.next]
     /\ UNCHANGED <<disk, ws, call, look, held, during>>
  \/ /\ store.pending # 0
     /\ store' = [store EXCEPT !.pending = 0, !.sets = Put(@, store.pending,
                    [CurrentSet(Paths, <<>>, <<>>, <<>>, FALSE, {}, Paths, Tokens) EXCEPT !.kind = "historical"])]
     /\ UNCHANGED <<disk, ws, call, look, held, during, faults>>

-----------------------------------------------------------------------------
HandlesInit ==
  /\ disk \in Start
  /\ ws = [cache |-> [p \in Paths |-> Unseen], seq |-> 1, epoch |-> 0]
  /\ store = NewStore
  /\ call = NoCall
  /\ look = NoLook
  /\ held = [handles |-> <<>>, set |-> 0]
  /\ during = Unmarked
  /\ faults = 0

Lookup ==
  \/ ResolveHandle \/ ScanFile \/ resolveSymbol \/ ResolveSymbolLocator \/ SelectSymbol
  \/ InspectResultSet \/ InspectRevision \/ InspectSequence \/ hydrateHits

Session ==
  \/ \E scope \in SUBSET Paths \ {{}} : BeginSearch(scope)
  \/ \E name \in {Name[t] : t \in Tokens} : FindSymbols(name)
  \/ FindInFile \/ symbolFind \/ readSearchable \/ matchHits \/ FreezeSearch
  \/ \E p \in Paths : refineSearch({p}, Tokens)
  \/ \E toks \in SUBSET Query \ {{}} : refineSearch(Paths, toks)
  \/ RefineResultSet
  \/ \E id \in Elems(held.handles) : readHandle(id)
  \/ \E p \in Paths, name \in {Name[t] : t \in Tokens} : readSymbol(p, name)
  \/ ReadSelected \/ ReadResolved

Others ==
  \/ \E p \in Paths, image \in Texts \cup {Missing, Binary, Link} : External(p, image)
  \/ SyncProviderEpoch \/ Expire \/ OtherSearch \/ FreezeHistoricalResultSet

-----------------------------------------------------------------------------
(* The matches a document has for a set: the query's, as the refinements keep
   them. *)
Wanted(set, image) ==
  IF ~IsText(image) THEN {}
  ELSE {<<s, image[s + 1]>> : s \in {s \in Elems(matchRanges(image)) : image[s + 1] \in set.toks}}
HitsAt(hits, p) == {<<hits[i].start, hits[i].text>> : i \in {i \in DOMAIN hits : hits[i].path = p}}

(* ResolveAllMatches answers for a whole scope, some files of which were read
   when the set was frozen, some when it was inspected and some only listed:
   every file of the scope had, at a moment of the call, exactly the matches
   the answer gives it (handles.go:901, :944, text.go:832).  The listing a set is
   checked against is cut at the cap unseen (handles.go:922), so a scope that was
   listed up to the cap answers for the files it listed. *)
AllMatchesComplete ==
  (look.kind = "all" /\ look.at = "done" /\ look.ok) =>
    \A p \in look.set.scope \ look.set.links :
      (p \in Elems(look.set.files) \/ Len(look.set.files) < MaxFiles) =>
        \E image \in during[p] :
          /\ image # Binary
          /\ HitsAt(look.set.hits, p) = IF p \in look.set.paths THEN Wanted(look.set, image) ELSE {}

(* A handle that resolves names bytes that stood at that place of that file at
   a moment of the call: the very bytes of a range, a declaration of the same
   name and fingerprints for a symbol, though the tree was parsed file by file
   while it changed (handles.go:541-735). *)
ResolvedStood ==
  (look.kind = "handle" /\ look.at = "done" /\ look.ok) =>
    LET l == look.out.loc IN
    /\ \E image \in during[l.path] : IsText(image) /\ l.end <= Len(image) /\ Span(image, l.start, l.end) = l.text
    /\ look.id \in DOMAIN store.handles =>
         LET r == store.handles[look.id] IN
         IF r.kind = "range" THEN l.text = r.loc.text
         ELSE Name[l.text[1]] = NameOf(r) /\ Fingerprint(l.text) = Fingerprint(r.loc.text)

=============================================================================
