---------------------------- MODULE PlanPreview ----------------------------
(***************************************************************************)
(* A plan made of what a session found: internal/workspace plan.go binds   *)
(* every operation to an exact range or revision and orders them, and      *)
(* plan_preview.go simulates them on copies of the documents, while other  *)
(* programs write the tree.  PlanLifecycle follows the plan from there.    *)
(*                                                                         *)
(* An operation names its target by the n-th handle of the last answer, by *)
(* a path and a name, by the session's result set, or by a path.           *)
(***************************************************************************)
EXTENDS Handles

CONSTANTS
  Plans,           \* the operation lists the session may ask for
  Edits            \* the edits it may make of one, once

OnPaths(list) == list \in Seq(Elems(list)) /\ \A b \in Elems(list) : b.op.path \in Paths
ASSUME PlansAssumption ==
  /\ \A ops \in Plans : ops \in Seq(Elems(ops)) /\ \A op \in Elems(ops) : op.path \in Paths
  /\ \A edit \in Edits :
       /\ edit.mode \in {"add", "update", "remove", "reorder", "replace_all"}
       /\ OnPaths(edit.ops) /\ edit.ids \in Seq(Elems(edit.ids))

VARIABLES plan, preview

planVars == <<vars, plan, preview>>

EditKinds == {"replace", "delete", "before", "after"}
NoPlan == [at |-> "none", template |-> <<>>, ops |-> <<>>, kept |-> <<>>, edited |-> FALSE]
NoPreview ==
  [at |-> "idle", todo |-> <<>>, contents |-> <<>>, before |-> <<>>, touched |-> {},
   hunks |-> <<>>, hits |-> <<>>, conflict |-> FALSE]

-----------------------------------------------------------------------------
(* Binding: normalizeOperations, one operation after the other. *)
Bound(op, loc, rev, toRev) == [op |-> op, loc |-> loc, rev |-> rev, toRev |-> toRev, bound |-> TRUE]
Unbound(op) == [Bound(op, None, None, None) EXCEPT !.bound = FALSE]
Unbounds(ops) == [i \in DOMAIN ops |-> Unbound(ops[i])]
IdsOf(list) == {b.op.id : b \in Elems(list)}

Entry == plan.template[Len(plan.ops) + 1]
Operation == Entry.op
Unnormalized == call.kind \in {"create", "edit"} /\ Len(plan.ops) < Len(plan.template)
Normalizing == Unnormalized /\ Operation.id \notin IdsOf(plan.ops)
Fresh == Normalizing /\ ~Entry.bound
Bind(b) == plan' = [plan EXCEPT !.ops = Append(@, b)]

(* A refused edit leaves the plan as it was; a refused creation, no plan. *)
Refused == IF call.kind = "edit" THEN [plan EXCEPT !.ops = plan.kept]
           ELSE [NoPlan EXCEPT !.at = "refused"]      \* bound: one plan a session
Refuse == plan' = Refused /\ call' = Return

CreatePlan(ops) ==
  /\ call.kind = "none"
  /\ plan.at = "none"
  /\ plan' = [NoPlan EXCEPT !.at = "open", !.template = Unbounds(ops)]
  /\ call' = [call EXCEPT !.kind = "create"]
  /\ UNCHANGED <<disk, ws, store, look, held, during, faults, preview>>

(* applyPlanEdit: what it refuses, and what it makes of the operations the plan
   has, bound as they are. *)
EditRefused(ops, edit) ==
  \/ edit.mode = "update" /\ ~(IdsOf(edit.ops) \subseteq IdsOf(ops))
  \/ edit.mode = "reorder" /\ (Len(edit.ids) # Len(ops) \/ Elems(edit.ids) # IdsOf(ops))
applyPlanEdit(ops, edit) ==
  LET named(list, id) == CHOOSE b \in Elems(list) : b.op.id = id IN
  CASE edit.mode = "add" -> ops \o edit.ops
    [] edit.mode = "update" ->
         [i \in DOMAIN ops |-> IF ops[i].op.id \in IdsOf(edit.ops) THEN named(edit.ops, ops[i].op.id) ELSE ops[i]]
    [] edit.mode = "remove" -> Kept(ops, {i \in DOMAIN ops : ops[i].op.id \notin Elems(edit.ids)})
    [] edit.mode = "reorder" -> [i \in DOMAIN edit.ids |-> named(ops, edit.ids[i])]
    [] edit.mode = "replace_all" -> edit.ops

(* EditPlan, up to the normalization. *)
EditPlan(edit) ==
  /\ call.kind = "none"
  /\ Disturb        \* bound: an edit counts among the events
  /\ plan.at = "open" /\ ~plan.edited /\ preview.at = "idle"
  /\ IF EditRefused(plan.ops, edit) THEN plan' = [plan EXCEPT !.edited = TRUE] /\ UNCHANGED call
     ELSE /\ plan' = [plan EXCEPT !.template = applyPlanEdit(plan.ops, edit), !.ops = <<>>,
                                  !.kept = plan.ops, !.edited = TRUE]
          /\ call' = [call EXCEPT !.kind = "edit"]
  /\ UNCHANGED <<disk, ws, store, look, held, during, preview>>

(* Two operations of one name. *)
RefuseDuplicate ==
  /\ Unnormalized /\ ~Normalizing
  /\ Refuse
  /\ UNCHANGED <<disk, ws, store, look, held, during, faults, preview>>
(* What an earlier normalization bound stays bound, but for the two kinds that
   are looked at again. *)
KeepBound ==
  /\ Normalizing /\ Entry.bound /\ Operation.kind \notin {"matches", "copy"}
  /\ Bind(Entry)
  /\ UNCHANGED <<disk, ws, store, call, look, held, during, faults, preview>>

(* normalizeEditTarget, editRangeFromHandle, editRangeFromLocator: ask, *)
editRangeFromHandle ==
  /\ Fresh /\ Operation.kind \in EditKinds /\ Operation.by = "handle"
  /\ look.at = "idle"
  /\ IF Operation.nth \in DOMAIN held.handles
     THEN look' = StartResolve(held.handles[Operation.nth]) /\ UNCHANGED <<plan, call>>
     ELSE Refuse /\ UNCHANGED look
  /\ during' = IF Operation.nth \in DOMAIN held.handles THEN Marked ELSE during
  /\ UNCHANGED <<disk, ws, store, held, faults, preview>>
editRangeFromLocator ==
  /\ Fresh /\ Operation.kind \in EditKinds /\ Operation.by = "locator"
  /\ \/ /\ look.at = "idle"
        /\ look' = [NoLook EXCEPT !.kind = "locator", !.at = "find",
                                  !.path = Operation.path, !.name = Operation.name]
     \/ /\ look.at = "done" /\ look.kind = "locator" /\ look.ok
        /\ look' = StartResolve(look.id)
  /\ during' = Marked
  /\ UNCHANGED <<disk, ws, store, call, held, faults, plan, preview>>
(* and bind what the lookup answers. *)
normalizeEditTarget ==
  /\ Fresh /\ Operation.kind \in EditKinds
  /\ look.at = "done" /\ (look.kind = "handle" \/ ~look.ok)
  /\ IF look.ok THEN Bind(Bound(Operation, look.out.loc, None, None)) /\ UNCHANGED call ELSE Refuse
  /\ look' = NoLook
  /\ during' = Unmarked
  /\ UNCHANGED <<disk, ws, store, held, faults, preview>>

(* normalizeReplaceMatches: the set has to be whole now; it is resolved again
   when it is used. *)
normalizeReplaceMatches ==
  /\ Normalizing /\ Operation.kind = "matches"
  /\ \/ /\ look.at = "idle"
        /\ look' = StartSet("all", IF Entry.bound THEN Entry.loc.set ELSE held.set)
        /\ during' = Marked
        /\ UNCHANGED <<plan, call>>
     \/ /\ look.at = "done"
        /\ IF look.ok THEN Bind(Bound(Operation, [set |-> look.id], None, None)) /\ UNCHANGED call ELSE Refuse
        /\ look' = NoLook
        /\ during' = Unmarked
  /\ UNCHANGED <<disk, ws, store, held, faults, preview>>

(* snapshotRevision: a path bound to what is there now. *)
Present(p) == disk[p] # Missing
Snapshots(ps) == ws' = RefreshAll(ws, ps)
BindFile(ps, legal, b) ==
  /\ Snapshots(ps)
  /\ IF legal THEN Bind(b) /\ UNCHANGED call ELSE Refuse
  /\ UNCHANGED <<disk, store, look, held, during, faults, preview>>

normalizeCreateFile ==
  /\ Fresh /\ Operation.kind = "create"
  /\ BindFile({Operation.path}, ~Present(Operation.path), Bound(Operation, None, Rev(Missing), None))
normalizeDeleteFile ==
  /\ Fresh /\ Operation.kind = "remove"
  /\ BindFile({Operation.path}, Present(Operation.path), Bound(Operation, None, Rev(disk[Operation.path]), None))
normalizeMoveFile ==
  /\ Fresh /\ Operation.kind = "move"
  /\ BindFile({Operation.path, Operation.to}, Present(Operation.path) /\ ~Present(Operation.to),
              Bound(Operation, None, Rev(disk[Operation.path]), Rev(Missing)))
(* A copy binds its source by its bytes, here without the epoch, and compares
   them when they are bound already. *)
normalizeCopyFile ==
  /\ Normalizing /\ Operation.kind = "copy"
  /\ LET source == disk[Operation.path] IN
     IF Entry.bound THEN BindFile({}, source = Entry.rev, Entry)
     ELSE BindFile({Operation.to}, IsText(source) /\ ~Present(Operation.to),
                   Bound(Operation, None, source, Rev(Missing)))

-----------------------------------------------------------------------------
(* Ordering. *)
IsEdit(b) == b.op.kind \in EditKinds

(* Mutant: a copy does not wait for the edits of its source. *)
EdgePastCopy(l, r) ==
  \/ IsEdit(l) /\ IsEdit(r) /\ l.loc.path = r.loc.path /\ l.loc.start > r.loc.start
  \/ l.op.kind = "create" /\ IsEdit(r) /\ r.loc.path = l.op.path
  \/ IsEdit(l) /\ r.op.kind \in {"remove", "move"} /\ l.loc.path = r.op.path
  \/ l.op.kind = "copy" /\ IsEdit(r) /\ r.loc.path = l.op.to

(* implicitEdge: l goes before r. *)
implicitEdge(l, r) ==
  \/ IsEdit(l) /\ IsEdit(r) /\ l.loc.path = r.loc.path /\ l.loc.start > r.loc.start
  \/ l.op.kind = "create" /\ IsEdit(r) /\ r.loc.path = l.op.path
  \/ IsEdit(l) /\ r.op.kind \in {"remove", "move", "copy"} /\ l.loc.path = r.op.path
  \/ l.op.kind = "copy" /\ IsEdit(r) /\ r.loc.path = l.op.to

(* A dependency between edits of one file at different places does not count. *)
Depends(l, r) == ~(IsEdit(l) /\ IsEdit(r) /\ l.loc.path = r.loc.path /\ l.loc.start # r.loc.start)

(* orderOperations: whatever is ready, first listed first; shorter than the
   plan if there is a cycle. *)
orderOperations(ops) ==
  LET edge(i, j) == i # j /\ ((ops[i].op.id \in ops[j].op.deps /\ Depends(ops[i], ops[j])) \/ implicitEdge(ops[i], ops[j]))
      ready(done) == {j \in DOMAIN ops \ Elems(done) : \A i \in DOMAIN ops : edge(i, j) => i \in Elems(done)}
      first(S) == CHOOSE i \in S : \A j \in S : i <= j
      order[n \in 0..Len(ops)] ==
        IF n = 0 THEN <<>>
        ELSE IF ready(order[n - 1]) = {} THEN order[n - 1]
        ELSE Append(order[n - 1], first(ready(order[n - 1])))
  IN [n \in DOMAIN order[Len(ops)] |-> ops[order[Len(ops)][n]]]

(* The last of normalizeOperations: a dependency on itself or on nothing, or a
   cycle, is refused. *)
normalizeOperations ==
  LET ops == plan.ops
      legal == /\ \A b \in Elems(ops) : b.op.deps \subseteq IdsOf(ops) \ {b.op.id}
               /\ Len(orderOperations(ops)) = Len(ops) IN
  /\ call.kind \in {"create", "edit"} /\ Len(ops) = Len(plan.template)
  /\ plan' = IF legal THEN plan ELSE Refused
  /\ call' = Return
  /\ UNCHANGED <<disk, ws, store, look, held, during, faults, preview>>

-----------------------------------------------------------------------------
(* Simulating. *)
buildPreview ==
  /\ call.kind = "none"
  /\ plan.at = "open" /\ preview.at = "idle"
  /\ call' = [call EXCEPT !.kind = "preview"]
  /\ preview' = [NoPreview EXCEPT !.at = "validate", !.todo = orderOperations(plan.ops)]
  /\ UNCHANGED <<disk, ws, store, look, held, during, faults, plan>>

Next1(v) == [v EXCEPT !.todo = Tail(@), !.at = "validate"]
conflict(v) == [Next1(v) EXCEPT !.conflict = TRUE]
Current == Head(preview.todo)
Simulating(at) == call.kind = "preview" /\ preview.at = at /\ preview.todo # <<>>

(* load: what earlier operations left, or what is on disk now. *)
load(v, p) ==
  IF p \in DOMAIN v.contents THEN v
  ELSE [v EXCEPT !.contents = Put(@, p, disk[p]), !.before = Put(@, p, disk[p])]
set(v, p, content) == [v EXCEPT !.contents = Put(@, p, content), !.touched = @ \cup {p}]
splice(text, s, e, r) == SubSeq(text, 1, s) \o r \o SubSeq(text, e + 1, Len(text))
rangeMatches(text, s, e, expected) == IsText(text) /\ e <= Len(text) /\ Span(text, s, e) = expected

(* Mutant: the region ends where the replaced text ended. *)
RecordOldEnd(v, b, s, e, r) ==
  [v EXCEPT !.hunks = Append(@,
     [op |-> b.op.id, path |-> b.loc.path, start |-> s, end |-> e, text |-> r, superseded |-> FALSE])]

(* record: the regions written before move by what this splice adds, and one it
   reaches into is superseded. *)
record(v, b, s, e, r) ==
  LET delta == Len(r) - (e - s)
      moved(h) == IF h.path # b.loc.path THEN h
                  ELSE IF h.start >= e THEN [h EXCEPT !.start = @ + delta, !.end = @ + delta]
                  ELSE [h EXCEPT !.superseded = @ \/ h.end > s]
  IN [v EXCEPT !.hunks = Append([i \in DOMAIN v.hunks |-> moved(v.hunks[i])],
        [op |-> b.op.id, path |-> b.loc.path, start |-> s, end |-> s + Len(r), text |-> r, superseded |-> FALSE])]

(* ValidateMutation, for every path the operation is bound to. *)
validateOperation ==
  /\ Simulating("validate")
  /\ Current.op.kind # "matches"
  /\ LET b == Current
         bound == CASE IsEdit(b) -> {<<b.loc.path, b.loc.rev>>}
                    [] b.op.kind \in {"create", "remove"} -> {<<b.op.path, b.rev>>}
                    [] b.op.kind = "move" -> {<<b.op.path, b.rev>>, <<b.op.to, b.toRev>>}
                    [] b.op.kind = "copy" -> {<<b.op.to, b.toRev>>}
         current == \A x \in bound : Rev(disk[x[1]]) = x[2] IN
     /\ Snapshots({x[1] : x \in bound})
     /\ preview' = IF current THEN [preview EXCEPT !.at = "apply"] ELSE conflict(preview)
  /\ UNCHANGED <<disk, store, call, look, held, during, faults, plan>>

Applied(kinds, ps, v) ==
  /\ Simulating("apply") /\ Current.op.kind \in kinds
  /\ Snapshots(ps \ DOMAIN preview.contents)
  /\ preview' = v
  /\ UNCHANGED <<disk, store, call, look, held, during, faults, plan>>

applyEdit ==
  LET b == Current
      p == b.loc.path
      v == load(preview, p)
      s == IF b.op.kind = "after" THEN b.loc.end ELSE b.loc.start
      e == IF b.op.kind = "before" THEN b.loc.start ELSE b.loc.end
      r == IF b.op.kind = "delete" THEN <<>> ELSE b.op.content
  IN Applied(EditKinds, {p},
       IF ~rangeMatches(v.contents[p], b.loc.start, b.loc.end, b.loc.text) THEN conflict(v)
       ELSE Next1(set(record(v, b, s, e, r), p, splice(v.contents[p], s, e, r))))
applyCreate ==
  LET p == Current.op.path IN
  Applied({"create"}, {p}, Next1(set(load(preview, p), p, Current.op.content)))
applyDelete ==
  LET p == Current.op.path
      v == load(preview, p) IN
  Applied({"remove"}, {p}, IF v.contents[p] = Missing THEN conflict(v) ELSE Next1(set(v, p, Missing)))
applyMove ==
  LET p == Current.op.path
      q == Current.op.to
      v == load(load(preview, p), q) IN
  Applied({"move"}, {p, q},
    IF v.contents[p] = Missing THEN conflict(v)
    ELSE Next1(set(set(v, q, v.contents[p]), p, Missing)))
applyCopy ==
  LET p == Current.op.path
      q == Current.op.to
      v == load(load(preview, p), q) IN
  Applied({"copy"}, {p, q},
    IF v.contents[p] = Missing \/ (p \notin v.touched /\ v.contents[p] # Current.rev) THEN conflict(v)
    ELSE Next1(set(v, q, v.contents[p])))

(* applyReplaceMatches: every match, from the end of each file, in what the
   simulation has by now. *)
SpliceMatches(v, hits, r) ==
  LET after[i \in 0..Len(hits)] ==
        IF i = 0 THEN v
        ELSE LET u == after[i - 1]
                 h == hits[Len(hits) + 1 - i]
                 w == load(u, h.path) IN
             IF rangeMatches(w.contents[h.path], h.start, h.start + 1, <<h.text>>)
             THEN set(w, h.path, splice(w.contents[h.path], h.start, h.start + 1, r))
             ELSE [w EXCEPT !.conflict = TRUE]
  IN after[Len(hits)]
applyReplaceMatches ==
  /\ Simulating("validate")
  /\ Current.op.kind = "matches"
  /\ \/ /\ look.at = "idle"
        /\ look' = StartSet("all", Current.loc.set)
        /\ during' = Marked
        /\ UNCHANGED <<ws, preview>>
     \/ /\ look.at = "done"
        /\ ws' = IF look.ok THEN RefreshAll(ws, {h.path : h \in Elems(look.set.hits)} \ DOMAIN preview.contents) ELSE ws
        /\ preview' = IF look.ok THEN Next1(SpliceMatches([preview EXCEPT !.hits = look.set.hits],
                                                     look.set.hits, Current.op.content))
                      ELSE conflict(preview)
        /\ look' = NoLook
        /\ during' = Unmarked
  /\ UNCHANGED <<disk, store, call, held, faults, plan>>

(* finish *)
finish ==
  /\ call.kind = "preview" /\ preview.at = "validate" /\ preview.todo = <<>>
  /\ preview' = [preview EXCEPT !.at = "done"]
  /\ call' = Return
  /\ UNCHANGED <<disk, ws, store, look, held, during, faults, plan>>

-----------------------------------------------------------------------------
Init == HandlesInit /\ plan = NoPlan /\ preview = NoPreview

Planning ==
  \/ \E ops \in Plans : CreatePlan(ops)
  \/ \E edit \in Edits : EditPlan(edit)
  \/ RefuseDuplicate \/ KeepBound
  \/ editRangeFromHandle \/ editRangeFromLocator \/ normalizeEditTarget \/ normalizeReplaceMatches
  \/ normalizeCreateFile \/ normalizeDeleteFile \/ normalizeMoveFile \/ normalizeCopyFile
  \/ normalizeOperations \/ buildPreview \/ validateOperation
  \/ applyEdit \/ applyCreate \/ applyDelete \/ applyMove \/ applyCopy \/ applyReplaceMatches \/ finish

Next ==
  \/ Planning
  \/ /\ preview.at # "done"        \* bound: a session ends with its preview
     /\ Lookup \/ Session \/ Others
     /\ UNCHANGED <<plan, preview>>

Spec == Init /\ [][Next]_planVars

-----------------------------------------------------------------------------
(* What a preview promises. *)
Reviewable == preview.at = "done" /\ ~preview.conflict
Ops == Elems(plan.ops)
EditsOf(p) == {b \in Ops : IsEdit(b) /\ b.loc.path = p}
HitsOf(p) == {[start |-> h.start, op |-> b.op] :
                h \in {h \in Elems(preview.hits) : h.path = p}, b \in {b \in Ops : b.op.kind = "matches"}}

(* What the edits say of a text, read all at once. *)
Concat(parts) ==
  LET sum[i \in 0..Len(parts)] == IF i = 0 THEN <<>> ELSE sum[i - 1] \o parts[i] IN sum[Len(parts)]
Only(S, f(_)) == IF S = {} THEN <<>> ELSE f(CHOOSE x \in S : TRUE)
Edited(text, edits, hits) ==
  LET new(b) == b.op.content
      over(i) == {b \in edits : b.op.kind \in {"replace", "delete"} /\ b.loc.start <= i /\ i < b.loc.end}
      body(i) ==
        IF \E h \in hits : h.start = i THEN (CHOOSE h \in hits : h.start = i).op.content
        ELSE IF over(i) = {} THEN <<text[i + 1]>>
        ELSE LET b == CHOOSE b \in over(i) : TRUE IN
             IF b.op.kind = "replace" /\ b.loc.start = i THEN b.op.content ELSE <<>>
  IN Concat([n \in 1..Len(text) |->
       Only({b \in edits : b.op.kind = "before" /\ b.loc.start = n - 1}, new)
       \o body(n - 1)
       \o Only({b \in edits : b.op.kind = "after" /\ b.loc.end = n}, new)])

FileOps(p) == {b \in Ops : b.op.kind \in {"create", "remove", "move", "copy"} /\ p \in {b.op.path, b.op.to}}
(* The operations of a file that do not get in each other's way: ranges apart,
   at most one file operation, and no edit of what a result set replaces. *)
Apart(p) ==
  /\ \A a, b \in EditsOf(p) : a # b => (a.loc.end <= b.loc.start \/ b.loc.end <= a.loc.start)
  /\ Cardinality(FileOps(p)) <= 1
  /\ EditsOf(p) # {} => \A b \in Ops : b.op.kind # "matches"
  /\ FileOps(p) # {} => \A b \in Ops : b.op.kind # "matches"
  /\ Cardinality({b \in Ops : b.op.kind = "matches"}) <= 1

(* A preview without a conflict is the plan: each file is its first reading
   with every operation done at once, in whatever order they were listed or
   depend on each other, an edited file is moved or copied edited, and nothing
   else is touched, while other programs write the tree between any two steps
   (plan.go:1089, plan_preview.go:50-350). *)
PreviewIsThePlan ==
  Reviewable => \A p \in preview.touched : Apart(p) =>
    LET before == preview.before[p]
        now == preview.contents[p]
        edited(q) == Edited(preview.before[q], EditsOf(q), {})
    IN \/ EditsOf(p) # {} /\ FileOps(p) = {} /\ now = edited(p)
       \/ FileOps(p) = {} /\ IsText(before) /\ now = Edited(before, {}, HitsOf(p))
       \/ \E b \in FileOps(p) :
            \/ b.op.kind = "create" /\ now = b.op.content
            \/ b.op.kind \in {"remove", "move"} /\ b.op.path = p /\ now = Missing
            \/ b.op.kind = "copy" /\ b.op.path = p /\ now = edited(p)
            \/ /\ b.op.kind \in {"move", "copy"} /\ b.op.to = p
               /\ Apart(b.op.path) =>
                    now = IF IsText(preview.before[b.op.path]) THEN edited(b.op.path) ELSE preview.before[b.op.path]

(* The regions a preview names are where the operations' bytes are: diagnostics
   are attributed by them (plan_preview.go:104-128).  A result set records no
   regions and shifts none. *)
HunksOwnTheirBytes ==
  Reviewable => \A i \in DOMAIN preview.hunks : LET h == preview.hunks[i] IN
    (~h.superseded /\ IsText(preview.contents[h.path]) /\ (\A b \in Ops : b.op.kind # "matches")) =>
      Span(preview.contents[h.path], h.start, h.end) = h.text
=============================================================================
