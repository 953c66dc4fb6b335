--------------------------- MODULE NativeEditProofs ---------------------------
(***************************************************************************)
(* Proofs about NativeEdit, for every set of paths, contents and bounds.   *)
(***************************************************************************)
EXTENDS NativeEdit, TLAPS

USE PathAssumption

-----------------------------------------------------------------------------
(* Shapes, as far as the proofs read them. *)
CallFields == {"phase", "kind", "path", "to", "expected", "lo", "hi", "new", "at", "pre", "post",
               "hits", "files", "fixed", "operations"}
CallShape(c) ==
  /\ DOMAIN c = CallFields
  /\ c.path \in Paths /\ c.to \in Paths /\ c.at \in Paths
  /\ \A h \in c.hits : h[1] \in Paths
CarriedShape ==
  /\ DOMAIN carried = {"from", "to", "image", "live"}
  /\ carried.from \in Paths /\ carried.to \in Paths
JournalShape(J) == \A j \in J : DOMAIN j = {"path", "pre", "post", "whole", "left"} /\ j.path \in Paths
FileShape == DOMAIN tree = Paths /\ DOMAIN acked = Paths
Shape == CallShape(call) /\ CarriedShape /\ JournalShape(journals) /\ FileShape

(* No call: every field is there, and the paths are some path. *)
LEMMA IdleShape ==
  /\ CallShape(Idle) /\ Idle.phase = "idle" /\ Idle.kind = "create"
<1> DEFINE p == CHOOSE q \in Paths : TRUE
<1>1. p \in Paths
  OBVIOUS
<1>2. Idle = [phase |-> "idle", kind |-> "create", path |-> p, to |-> p, expected |-> NoRevision,
              lo |-> 0, hi |-> 0, new |-> Missing, at |-> p, pre |-> Missing, post |-> Missing,
              hits |-> {}, files |-> [q \in Paths |-> Unseen], fixed |-> {}, operations |-> 0]
  BY DEF Idle
<1> HIDE DEF p
<1> QED BY <1>1, <1>2 DEF CallShape, CallFields

(* The journal of the write in flight. *)
LEMMA OwnShape ==
  ASSUME CallShape(call)
  PROVE  JournalShape({OwnJournal})
BY DEF CallShape, JournalShape, OwnJournal

(* A journal left behind is the same but for the mark. *)
LEMMA LeftShape ==
  ASSUME NEW J, JournalShape(J)
  PROVE  /\ JournalShape(LeftBehind(J))
         /\ \A j \in LeftBehind(J) : /\ j.left
                                     /\ \E k \in J : j.path = k.path /\ j.pre = k.pre /\ j.whole = k.whole
BY DEF JournalShape, LeftBehind

-----------------------------------------------------------------------------
(* What a step leaves alone. *)

(* No whole journal is new. *)
NoNewJournal ==
  \A j \in journals' : j.whole => \E k \in journals : k.whole /\ k.path = j.path /\ k.pre = j.pre

(* A path keeps what it kept when neither it nor what is carried changes, and no
   other journal could take it away. *)
LEMMA KeptFrame ==
  ASSUME NEW p, KeptAt(p), carried'.image = carried.image, tree'[p] = tree[p],
         \A j \in journals' : j.path = p /\ j.whole =>
            j.pre = tree[p] \/ \E k \in journals : k.whole /\ k.path = p /\ k.pre = j.pre
  PROVE  KeptAt(p)'
BY DEF KeptAt

(* What is carried stays where files and journals stay. *)
LEMMA CarriedFrame ==
  ASSUME CarriedInv, NoNewJournal, UNCHANGED <<tree, carried>>
  PROVE  CarriedInv'
<1> SUFFICES ASSUME carried.live PROVE KeptAt(carried.from)' \/ KeptAt(carried.to)'
  BY DEF CarriedInv
<1>1. ASSUME NEW p, KeptAt(p) PROVE KeptAt(p)'
  BY <1>1, KeptFrame DEF NoNewJournal
<1> QED BY <1>1 DEF CarriedInv

(* The call has ended or has yet to look at what it changes. *)
Calm ==
  /\ call'.phase \notin {"inspect", "journal", "ensure", "write", "clear", "refresh"}
  /\ call'.phase = "destination" => call'.kind = "copy"

(* Then nothing is expected of the files, once every whole journal is left behind. *)
LEMMA CalmSafe ==
  ASSUME Shape, IInv, CallShape(call'), JournalShape(journals'), FileShape', CarriedShape', Calm,
         \A j \in journals' : j.whole => j.left,
         serving',
         call'.phase \in {"idle", "operation", "format"} => call'.kind = "create",
         call'.phase = "hit" => call'.kind = "literal",
         call'.phase = "validate" => call'.at = call'.path,
         call'.kind = "move" => call'.path # call'.to,
         CarriedInv'
  PROVE  Shape' /\ IInv'
<1>1. PlaceInv'
  BY DEF PlaceInv, Calm, Writing
<1>2. StillInv'
  BY DEF StillInv, Calm, Writing
<1>3. JournalInv'
  BY DEF JournalInv
<1>4. FlightInv'
  BY DEF FlightInv, Calm, Writing
<1> QED BY <1>1, <1>2, <1>3, <1>4 DEF Shape, IInv

(* What is carried also survives the journal of the write in flight: it holds what
   is there. *)
LEMMA CarriedJournal ==
  ASSUME Shape, StillInv, CarriedInv, UNCHANGED <<tree, carried>>,
         \A j \in journals' : j.whole =>
            \/ \E k \in journals : k.whole /\ k.path = j.path /\ k.pre = j.pre
            \/ call.phase = "journal" /\ j.path = call.at /\ j.pre = call.pre
  PROVE  CarriedInv'
<1> SUFFICES ASSUME carried.live PROVE KeptAt(carried.from)' \/ KeptAt(carried.to)'
  BY DEF CarriedInv
<1>1. ASSUME NEW p \in {carried.from, carried.to}, KeptAt(p) PROVE KeptAt(p)'
  <2>1. call.phase = "journal" /\ call.at = p => tree[p] = call.pre
    BY <1>1 DEF StillInv, Watched
  <2> QED BY <1>1, <2>1, KeptFrame
<1> QED BY <1>1 DEF CarriedInv

(* The call after a refusal. *)
LEMMA EndedShape ==
  ASSUME CallShape(call)
  PROVE  CallShape(Ended(call)) /\ Ended(call).phase \in {"idle", "format"} /\ Ended(call).kind = "create"
<1>1. CASE call.kind = "format"
  <2> DEFINE c == [call EXCEPT !.phase = "format", !.kind = "create", !.fixed = @ \cup {call.path}]
  <2>1. DOMAIN c = CallFields /\ c.path = call.path /\ c.to = call.to /\ c.at = call.at /\ c.hits = call.hits
        /\ c.phase = "format" /\ c.kind = "create"
    BY DEF CallShape, CallFields
  <2>2. Ended(call) = c
    BY <1>1 DEF Ended
  <2> HIDE DEF c
  <2> QED BY <2>1, <2>2 DEF CallShape
<1>2. CASE call.kind # "format"
  BY <1>2, IdleShape DEF Ended
<1> QED BY <1>1, <1>2

(* A refusal leaves its journals behind and touches no file. *)
LEMMA RefuseSafe ==
  ASSUME Shape, IInv, serving, NEW J, JournalShape(J), Refuse(J), UNCHANGED <<tree, serving, carried>>,
         \A j \in J : j.whole => j \in journals \/ (j = OwnJournal /\ call.phase = "journal")
  PROVE  Shape' /\ IInv'
<1>1. CallShape(call') /\ call'.phase \in {"idle", "format"} /\ call'.kind = "create"
  BY EndedShape DEF Refuse, Shape
<1>2. /\ JournalShape(journals')
      /\ \A j \in journals' : /\ j.left
                              /\ \E k \in J : j.path = k.path /\ j.pre = k.pre /\ j.whole = k.whole
  BY LeftShape DEF Refuse
<1>3. FileShape' /\ CarriedShape'
  BY DEF Shape, FileShape, CarriedShape, Refuse
<1>4. OwnJournal.path = call.at /\ OwnJournal.pre = call.pre
  BY DEF OwnJournal
<1>5. CarriedInv'
  <2>1. \A j \in journals' : j.whole =>
          \/ \E k \in journals : k.whole /\ k.path = j.path /\ k.pre = j.pre
          \/ call.phase = "journal" /\ j.path = call.at /\ j.pre = call.pre
    BY <1>2, <1>4
  <2> QED BY <2>1, CarriedJournal DEF IInv
<1>6. Calm
  BY <1>1 DEF Calm
<1> QED BY <1>1, <1>2, <1>3, <1>5, <1>6, CalmSafe

(* A refusal with the journals as they are. *)
LEMMA PlainRefusal ==
  ASSUME Shape, IInv, serving, Refuse(journals), UNCHANGED <<tree, serving, carried>>
  PROVE  Shape' /\ IInv'
BY RefuseSafe DEF Shape

(* A refusal that takes the call's own journal away. *)
LEMMA ClearedRefusal ==
  ASSUME Shape, IInv, serving, Refuse(journals \ {OwnJournal}), UNCHANGED <<tree, serving, carried>>
  PROVE  Shape' /\ IInv'
BY RefuseSafe DEF Shape, JournalShape

(* Outside a write every whole journal was left behind. *)
LEMMA AllLeft ==
  ASSUME IInv, serving, call.phase \notin {"ensure", "write", "clear"}
  PROVE  \A j \in journals : j.whole => j.left
BY DEF IInv, JournalInv

-----------------------------------------------------------------------------
(* Operations begin. *)

(* A call that goes on calmly, with files and journals as they are. *)
LEMMA CalmCall ==
  ASSUME Shape, IInv, serving, call.phase \notin {"ensure", "write", "clear"},
         UNCHANGED <<tree, journals, serving, carried>>, DOMAIN acked' = Paths,
         CallShape(call'), Calm,
         call'.phase \in {"idle", "operation", "format"} => call'.kind = "create",
         call'.phase = "hit" => call'.kind = "literal",
         call'.phase = "validate" => call'.at = call'.path,
         call'.kind = "move" => call'.path # call'.to
  PROVE  Shape' /\ IInv'
<1>1. \A j \in journals' : j.whole => j.left
  BY AllLeft
<1>2. CarriedInv'
  BY CarriedFrame DEF NoNewJournal, IInv
<1>3. JournalShape(journals') /\ FileShape' /\ CarriedShape'
  BY DEF Shape, FileShape, CarriedShape
<1> QED BY <1>1, <1>2, <1>3, CalmSafe

(* The record an operation begins with (Begin). *)
Beginning(r) ==
  /\ CallShape(r)
  /\ \/ r.phase = "validate" /\ r.at = r.path /\ (r.kind = "move" => r.path # r.to)
     \/ r.phase = "hit" /\ r.kind = "literal"
     \/ r.phase = "destination" /\ r.kind = "copy"

LEMMA BeginSafe ==
  ASSUME Shape, IInv, Ready, NEW r, Beginning(r), Begin(r),
         UNCHANGED <<tree, journals, serving, acked, carried>>
  PROVE  Shape' /\ IInv'
<1>1. serving /\ call.phase \in {"operation", "idle"}
  BY DEF Ready, At
<1>2. /\ DOMAIN call' = CallFields /\ call'.phase = r.phase /\ call'.kind = r.kind /\ call'.path = r.path
      /\ call'.to = r.to /\ call'.at = r.at /\ call'.hits = r.hits
  BY DEF Beginning, Begin, CallShape, CallFields
<1>3. CallShape(call') /\ Calm
  BY <1>2 DEF Beginning, CallShape, Calm
<1>4. DOMAIN acked' = Paths
  BY DEF Shape, FileShape
<1>5. /\ call'.phase \in {"idle", "operation", "format"} => call'.kind = "create"
      /\ call'.phase = "hit" => call'.kind = "literal"
      /\ call'.phase = "validate" => call'.at = call'.path
      /\ call'.kind = "move" => call'.path # call'.to
  BY <1>2 DEF Beginning
<1>6. call.phase \notin {"ensure", "write", "clear"}
  BY <1>1
<1> QED BY <1>1, <1>3, <1>4, <1>5, <1>6, CalmCall

(* Every operation that names a path begins at it and validates. *)
LEMMA NamedBeginning ==
  ASSUME NEW p \in Paths, NEW k \in Kind \ {"move"}, NEW w, NEW e
  PROVE  /\ Beginning([Idle EXCEPT !.phase = "validate", !.kind = k, !.path = p, !.at = p, !.new = w, !.expected = e])
         /\ Beginning([Idle EXCEPT !.phase = "validate", !.kind = k, !.path = p, !.at = p, !.expected = e])
<1>1. DEFINE r == [Idle EXCEPT !.phase = "validate", !.kind = k, !.path = p, !.at = p, !.new = w, !.expected = e]
<1>2. DEFINE s == [Idle EXCEPT !.phase = "validate", !.kind = k, !.path = p, !.at = p, !.expected = e]
<1>3. /\ DOMAIN r = CallFields /\ r.phase = "validate" /\ r.kind = k /\ r.path = p /\ r.at = p /\ r.to = Idle.to
      /\ r.hits = Idle.hits
  BY IdleShape DEF CallShape, CallFields
<1>4. /\ DOMAIN s = CallFields /\ s.phase = "validate" /\ s.kind = k /\ s.path = p /\ s.at = p /\ s.to = Idle.to
      /\ s.hits = Idle.hits
  BY IdleShape DEF CallShape, CallFields
<1> HIDE DEF r, s
<1>5. Beginning(r) /\ Beginning(s)
  BY <1>3, <1>4, IdleShape DEF Beginning, CallShape
<1> QED BY <1>5 DEF r, s

(* create_file (applyCreateFile) *)
LEMMA CreateSafe ==
  ASSUME Shape, IInv, NEW p \in Paths, applyCreateFile(p)
  PROVE  Shape' /\ IInv'
<1>1. UNCHANGED <<tree, serving, carried>> /\ serving /\ Ready
  BY DEF applyCreateFile, Ready, At
<1>2. CASE Refuse(journals)
  BY <1>1, <1>2, PlainRefusal
<1>3. CASE /\ UNCHANGED <<journals, acked>>
           /\ \E w \in Writes :
               Begin([Idle EXCEPT !.phase = "validate", !.kind = "create", !.path = p, !.at = p, !.new = w,
                                  !.expected = revisionFor(mem, Missing)])
  <2>1. PICK w \in Writes :
               Begin([Idle EXCEPT !.phase = "validate", !.kind = "create", !.path = p, !.at = p, !.new = w,
                                  !.expected = revisionFor(mem, Missing)])
    BY <1>3
  <2> DEFINE r == [Idle EXCEPT !.phase = "validate", !.kind = "create", !.path = p, !.at = p, !.new = w,
                               !.expected = revisionFor(mem, Missing)]
  <2>2. Beginning(r)
    BY NamedBeginning DEF Kind
  <2>3. Begin(r)
    BY <2>1
  <2> HIDE DEF r
  <2> QED BY <1>1, <1>3, <2>2, <2>3, BeginSafe
<1> QED BY <1>2, <1>3 DEF applyCreateFile

(* replace_file (applyReplaceFile) *)
LEMMA ReplaceSafe ==
  ASSUME Shape, IInv, NEW p \in Paths, applyReplaceFile(p)
  PROVE  Shape' /\ IInv'
<1>1. UNCHANGED <<tree, journals, serving, acked, carried>> /\ Ready
  BY DEF applyReplaceFile
<1>2. PICK w \in Writes, e \in Tokens(p) :
        Begin([Idle EXCEPT !.phase = "validate", !.kind = "replace", !.path = p, !.at = p, !.new = w,
                           !.expected = e])
  BY DEF applyReplaceFile
<1> DEFINE r == [Idle EXCEPT !.phase = "validate", !.kind = "replace", !.path = p, !.at = p, !.new = w,
                             !.expected = e]
<1>3. Beginning(r)
  BY NamedBeginning DEF Kind
<1>4. Begin(r)
  BY <1>2
<1> HIDE DEF r
<1> QED BY <1>1, <1>3, <1>4, BeginSafe

(* delete_file (applyDeleteFile) *)
LEMMA DeleteSafe ==
  ASSUME Shape, IInv, NEW p \in Paths, applyDeleteFile(p)
  PROVE  Shape' /\ IInv'
<1>1. UNCHANGED <<tree, serving, carried>> /\ serving /\ Ready
  BY DEF applyDeleteFile, Ready, At
<1>2. CASE Refuse(journals)
  BY <1>1, <1>2, PlainRefusal
<1>3. CASE /\ UNCHANGED <<journals, acked>>
           /\ \E e \in Tokens(p) \cup {revisionFor(mem, tree[p])} :
               Begin([Idle EXCEPT !.phase = "validate", !.kind = "delete", !.path = p, !.at = p, !.expected = e])
  <2>1. PICK e \in Tokens(p) \cup {revisionFor(mem, tree[p])} :
               Begin([Idle EXCEPT !.phase = "validate", !.kind = "delete", !.path = p, !.at = p, !.expected = e])
    BY <1>3
  <2> DEFINE r == [Idle EXCEPT !.phase = "validate", !.kind = "delete", !.path = p, !.at = p, !.expected = e]
  <2>2. Beginning(r)
    BY NamedBeginning DEF Kind
  <2>3. Begin(r)
    BY <2>1
  <2> HIDE DEF r
  <2> QED BY <1>1, <1>3, <2>2, <2>3, BeginSafe
<1> QED BY <1>2, <1>3 DEF applyDeleteFile

(* move_file (applyMoveFile) *)
LEMMA MoveSafe ==
  ASSUME Shape, IInv, NEW p \in Paths, NEW q \in Paths, applyMoveFile(p, q)
  PROVE  Shape' /\ IInv'
<1>1. UNCHANGED <<tree, journals, serving, acked, carried>> /\ Ready /\ p # q
  BY DEF applyMoveFile
<1>2. PICK e : Begin([Idle EXCEPT !.phase = "validate", !.kind = "move", !.path = p, !.to = q, !.at = p,
                                  !.expected = e])
  BY DEF applyMoveFile
<1> DEFINE r == [Idle EXCEPT !.phase = "validate", !.kind = "move", !.path = p, !.to = q, !.at = p,
                             !.expected = e]
<1>3. /\ DOMAIN r = CallFields /\ r.phase = "validate" /\ r.kind = "move" /\ r.path = p /\ r.to = q /\ r.at = p
      /\ r.hits = Idle.hits
  BY IdleShape DEF CallShape, CallFields
<1>4. Begin(r)
  BY <1>2
<1> HIDE DEF r
<1>5. Beginning(r)
  BY <1>1, <1>3, IdleShape DEF Beginning, CallShape
<1> QED BY <1>1, <1>4, <1>5, BeginSafe

(* copy_file (applyCopyFile) *)
LEMMA CopySafe ==
  ASSUME Shape, IInv, NEW p \in Paths, NEW q \in Paths, applyCopyFile(p, q)
  PROVE  Shape' /\ IInv'
<1>1. UNCHANGED <<tree, serving, carried>> /\ serving /\ Ready
  BY DEF applyCopyFile, Ready, At
<1>2. CASE Refuse(journals)
  BY <1>1, <1>2, PlainRefusal
<1> DEFINE r == [Idle EXCEPT !.phase = "destination", !.kind = "copy", !.path = p, !.to = q, !.at = q,
                             !.new = tree[p]]
<1>3. CASE UNCHANGED <<journals, acked>> /\ Begin(r)
  <2>1. /\ DOMAIN r = CallFields /\ r.phase = "destination" /\ r.kind = "copy" /\ r.path = p /\ r.to = q
        /\ r.at = q /\ r.hits = Idle.hits
    BY IdleShape DEF CallShape, CallFields
  <2> HIDE DEF r
  <2>2. Beginning(r)
    BY <2>1, IdleShape DEF Beginning, CallShape
  <2> QED BY <1>1, <1>3, <2>2, BeginSafe
<1> QED BY <1>2, <1>3 DEF applyCopyFile

(* replace_range (editRange) *)
LEMMA RangeSafe ==
  ASSUME Shape, IInv, NEW p \in Paths, editRange(p)
  PROVE  Shape' /\ IInv'
<1>1. UNCHANGED <<tree, journals, serving, acked, carried>> /\ Ready
  BY DEF editRange
<1>2. PICK w \in Writes, h \in Handles(p) :
       Begin([Idle EXCEPT !.phase = "validate", !.kind = "range", !.path = p, !.at = p, !.new = w,
                          !.expected = h.revision, !.lo = h.lo, !.hi = h.hi])
  BY DEF editRange
<1> DEFINE r == [Idle EXCEPT !.phase = "validate", !.kind = "range", !.path = p, !.at = p, !.new = w,
                             !.expected = h.revision, !.lo = h.lo, !.hi = h.hi]
<1>3. /\ DOMAIN r = CallFields /\ r.phase = "validate" /\ r.kind = "range" /\ r.path = p /\ r.at = p
      /\ r.to = Idle.to /\ r.hits = Idle.hits
  BY IdleShape DEF CallShape, CallFields
<1>4. Begin(r)
  BY <1>2
<1> HIDE DEF r
<1>5. Beginning(r)
  BY <1>3, IdleShape DEF Beginning, CallShape
<1> QED BY <1>1, <1>4, <1>5, BeginSafe

(* replace_literal (applyLiteral) *)
LEMMA LiteralSafe ==
  ASSUME Shape, IInv, NEW S \in SUBSET Paths, NEW n, applyLiteral(S, n)
  PROVE  Shape' /\ IInv'
<1> DEFINE hits == LocateLiteral(S)
<1>1. UNCHANGED <<tree, serving, carried>> /\ serving /\ Ready
  BY DEF applyLiteral, Ready, At
<1>2. \A h \in hits : h[1] \in Paths
  BY DEF LocateLiteral
<1>3. CASE Refuse(journals)
  BY <1>1, <1>3, PlainRefusal
<1>4. CASE /\ UNCHANGED <<journals, acked>>
           /\ \E h \in hits :
               Begin([Idle EXCEPT !.phase = "hit", !.kind = "literal", !.path = h[1], !.new = New, !.hits = hits])
  <2>1. PICK h \in hits :
               Begin([Idle EXCEPT !.phase = "hit", !.kind = "literal", !.path = h[1], !.new = New, !.hits = hits])
    BY <1>4
  <2> HIDE DEF hits
  <2> DEFINE r == [Idle EXCEPT !.phase = "hit", !.kind = "literal", !.path = h[1], !.new = New, !.hits = hits]
  <2>2. /\ DOMAIN r = CallFields /\ r.phase = "hit" /\ r.kind = "literal" /\ r.path = h[1] /\ r.at = Idle.at
        /\ r.to = Idle.to /\ r.hits = hits
    BY IdleShape DEF CallShape, CallFields
  <2>3. Begin(r)
    BY <2>1
  <2> HIDE DEF r
  <2>4. Beginning(r)
    BY <1>2, <2>2, IdleShape DEF Beginning, CallShape
  <2> QED BY <1>1, <1>4, <2>3, <2>4, BeginSafe
<1> QED BY <1>3, <1>4 DEF applyLiteral

-----------------------------------------------------------------------------
(* The steps of an operation. *)

(* The next occurrence of a literal, or a refusal (replaceInFile). *)
LEMMA NextHitSafe ==
  ASSUME Shape, IInv, NextHit
  PROVE  Shape' /\ IInv'
<1>1. UNCHANGED <<tree, serving, carried>> /\ serving /\ call.phase = "hit"
  BY DEF NextHit, At
<1>2. call.kind = "literal"
  BY <1>1 DEF IInv, PlaceInv
<1>3. PICK h \in NextHits :
        \/ Refuse(journals)
        \/ /\ UNCHANGED <<journals, acked>>
           /\ call' = [call EXCEPT !.phase = "validate", !.path = h[1], !.at = h[1], !.lo = h[2], !.hi = h[2] + 1,
                                   !.hits = @ \ {h}, !.expected = revisionFor(mem, tree[h[1]])]
  BY DEF NextHit
<1>4. h \in call.hits /\ h[1] \in Paths
  BY <1>3 DEF NextHits, Shape, CallShape
<1>5. CASE Refuse(journals)
  BY <1>1, <1>5, PlainRefusal
<1>6. CASE /\ UNCHANGED <<journals, acked>>
           /\ call' = [call EXCEPT !.phase = "validate", !.path = h[1], !.at = h[1], !.lo = h[2], !.hi = h[2] + 1,
                                   !.hits = @ \ {h}, !.expected = revisionFor(mem, tree[h[1]])]
  <2>1. /\ DOMAIN call' = CallFields /\ call'.phase = "validate" /\ call'.kind = "literal"
        /\ call'.path = h[1] /\ call'.at = h[1] /\ call'.to = call.to /\ call'.hits = call.hits \ {h}
    BY <1>2, <1>6 DEF Shape, CallShape, CallFields
  <2>2. CallShape(call')
    BY <1>4, <2>1 DEF Shape, CallShape
  <2>3. DOMAIN acked' = Paths
    BY <1>6 DEF Shape, FileShape
  <2> QED BY <1>1, <1>6, <2>1, <2>2, <2>3, CalmCall DEF Calm
<1> QED BY <1>3, <1>5, <1>6

(* Only where the call is changes (Goto). *)
LEMMA GotoEffect ==
  ASSUME CallShape(call), NEW x, Goto(x)
  PROVE  /\ CallShape(call') /\ call'.phase = x /\ call'.kind = call.kind /\ call'.path = call.path
         /\ call'.to = call.to /\ call'.at = call.at /\ call'.pre = call.pre /\ call'.post = call.post
         /\ call'.new = call.new
BY DEF Goto, CallShape, CallFields

(* The revision matched and there is what the operation needs (ValidateMutation). *)
LEMMA ValidateSafe ==
  ASSUME Shape, IInv, Validate
  PROVE  Shape' /\ IInv'
<1>1. UNCHANGED <<tree, serving, carried>> /\ serving /\ call.phase = "validate"
  BY DEF Validate, At
<1>2. CASE Refuse(journals)
  BY <1>1, <1>2, PlainRefusal
<1>3. CASE /\ (tree[call.path] = Missing) <=> (call.kind = "create")
           /\ Goto("inspect") /\ UNCHANGED <<journals, acked>>
  <2>1. /\ CallShape(call') /\ call'.phase = "inspect" /\ call'.kind = call.kind /\ call'.path = call.path
        /\ call'.to = call.to /\ call'.at = call.at
    BY <1>3, GotoEffect DEF Shape
  <2>2. Shape'
    BY <1>1, <1>3, <2>1 DEF Shape, JournalShape, FileShape, CarriedShape
  <2>3. PlaceInv'
    BY <1>1, <2>1 DEF IInv, PlaceInv, Writing
  <2>4. StillInv'
    BY <1>1, <1>3, <2>1 DEF StillInv, Writing
  <2>5. JournalInv'
    BY <1>1, <1>3, AllLeft DEF JournalInv
  <2>6. CarriedInv'
    BY <1>1, <1>3, CarriedFrame DEF NoNewJournal, IInv
  <2>7. FlightInv'
    BY <2>1 DEF FlightInv, Writing
  <2> QED BY <2>2, <2>3, <2>4, <2>5, <2>6, <2>7 DEF IInv
<1> QED BY <1>2, <1>3 DEF Validate

(* The file was read again, and the write or the destination comes next
   (ApplyReplace, ApplyFile, ApplyMove). *)
LEMMA InspectSafe ==
  ASSUME Shape, IInv, Inspect
  PROVE  Shape' /\ IInv'
<1>1. UNCHANGED <<tree, serving, carried>> /\ serving /\ call.phase = "inspect" /\ call.at = call.path
  BY DEF Inspect, At, IInv, PlaceInv
<1>2. CASE Refuse(journals)
  BY <1>1, <1>2, PlainRefusal
<1>3. CASE UNCHANGED <<journals, acked>> /\ call.kind = "move" /\ call' \in ApplyMove(tree[call.path])
  <2>1. call' = [call EXCEPT !.phase = "destination", !.new = tree[call.path]]
    BY <1>3 DEF ApplyMove
  <2>2. /\ DOMAIN call' = CallFields /\ call'.phase = "destination" /\ call'.kind = "move"
        /\ call'.path = call.path /\ call'.to = call.to /\ call'.at = call.at /\ call'.hits = call.hits
        /\ call'.new = tree[call.path]
    BY <1>3, <2>1 DEF Shape, CallShape, CallFields
  <2>3. Shape'
    BY <1>1, <1>3, <2>2 DEF Shape, CallShape, JournalShape, FileShape, CarriedShape
  <2>4. PlaceInv'
    BY <1>1, <1>3, <2>2 DEF IInv, PlaceInv, Writing
  <2>5. StillInv'
    BY <1>1, <2>2 DEF StillInv, Writing
  <2>6. JournalInv'
    BY <1>1, <1>3, AllLeft DEF JournalInv
  <2>7. CarriedInv'
    BY <1>1, <1>3, CarriedFrame DEF NoNewJournal, IInv
  <2>8. FlightInv'
    BY <2>2 DEF FlightInv, Writing
  <2> QED BY <2>3, <2>4, <2>5, <2>6, <2>7, <2>8 DEF IInv
<1>4. CASE /\ UNCHANGED <<journals, acked>> /\ call.kind # "move"
           /\ \/ call' \in ApplyReplace(tree[call.path]) /\ call.kind \in {"range", "literal", "format"}
              \/ call' \in ApplyFile(tree[call.path])
  <2>1. /\ DOMAIN call' = CallFields /\ call'.phase = "journal" /\ call'.kind = call.kind
        /\ call'.path = call.path /\ call'.to = call.to /\ call'.at = call.at /\ call'.hits = call.hits
        /\ call'.pre = IF call.kind = "create" THEN Missing
                       ELSE IF tree[call.path] = Missing THEN <<>> ELSE tree[call.path]
    <3>1. CASE call' \in ApplyReplace(tree[call.path]) /\ call.kind \in {"range", "literal", "format"}
      BY <3>1 DEF ApplyReplace, Shape, CallShape, CallFields
    <3>2. CASE call' \in ApplyFile(tree[call.path])
      BY <3>2 DEF ApplyFile, Shape, CallShape, CallFields
    <3> QED BY <1>4, <3>1, <3>2
  <2>2. Shape'
    BY <1>1, <1>4, <2>1 DEF Shape, CallShape, JournalShape, FileShape, CarriedShape
  <2>3. PlaceInv'
    BY <1>1, <1>4, <2>1 DEF IInv, PlaceInv, Writing
  <2>4. StillInv'
    <3>1. Watched(call.path) => (tree[call.path] = Missing <=> call.kind = "create")
      BY <1>1 DEF IInv, StillInv
    <3>2. Watched(call.path)' <=> Watched(call.path)
      BY <1>1, <1>4, <2>1 DEF Watched
    <3> QED BY <1>1, <1>4, <2>1, <3>1, <3>2 DEF StillInv, Writing
  <2>5. JournalInv'
    BY <1>1, <1>4, AllLeft DEF JournalInv
  <2>6. CarriedInv'
    BY <1>1, <1>4, CarriedFrame DEF NoNewJournal, IInv
  <2>7. FlightInv'
    BY <1>4, <2>1 DEF FlightInv
  <2> QED BY <2>2, <2>3, <2>4, <2>5, <2>6, <2>7 DEF IInv
<1> QED BY <1>2, <1>3, <1>4 DEF Inspect

(* The destination is free; a move is carried from here on (transferDestination). *)
LEMMA DestinationSafe ==
  ASSUME Shape, IInv, Destination
  PROVE  Shape' /\ IInv'
<1>1. UNCHANGED <<tree, serving>> /\ serving /\ call.phase = "destination" /\ call.kind \in {"move", "copy"}
  BY DEF Destination, At, IInv, PlaceInv
<1>2. CASE Refuse(journals) /\ UNCHANGED carried
  BY <1>1, <1>2, PlainRefusal
<1>3. CASE /\ UNCHANGED <<journals, acked>> /\ tree[call.to] = Missing
           /\ call' = [call EXCEPT !.phase = "journal", !.at = call.to, !.pre = Missing, !.post = call.new]
           /\ carried' = IF call.kind # "move" THEN carried
                         ELSE [from |-> call.path, to |-> call.to, image |-> call.new,
                               live |-> tree[call.path] = call.new /\ NothingToUndo(call.path, call.to)]
  <2>1. /\ CallShape(call') /\ call'.phase = "journal" /\ call'.kind = call.kind /\ call'.path = call.path
        /\ call'.to = call.to /\ call'.at = call.to /\ call'.pre = Missing /\ call'.post = call.new
        /\ call'.new = call.new
    BY <1>3 DEF Shape, CallShape, CallFields
  <2>2. CarriedShape' /\ FileShape' /\ JournalShape(journals')
    BY <1>1, <1>3 DEF Shape, CallShape, CarriedShape, FileShape
  <2>3. PlaceInv'
    BY <1>1, <2>1 DEF IInv, PlaceInv, Writing
  <2>4. JournalInv'
    BY <1>1, <1>3, AllLeft DEF JournalInv
  <2>5. call.kind = "move" => call.path # call.to
    BY DEF IInv, PlaceInv
  <2>6. CASE call.kind = "move"
    <3>1. /\ carried'.from = call.path /\ carried'.to = call.to /\ carried'.image = call.new
          /\ carried'.live => tree[call.path] = call.new /\ NothingToUndo(call.path, call.to)
      BY <1>3, <2>6
    <3>2. carried'.live => /\ KeptAt(carried.from)' /\ KeptAt(call.path)'
                           /\ \A j \in journals : j.path = call.to => ~j.whole
      BY <1>1, <1>3, <2>1, <3>1 DEF KeptAt, NothingToUndo
    <3>3. CarriedInv'
      BY <2>1, <3>1, <3>2 DEF CarriedInv
    <3>4. FlightInv'
      BY <1>3, <2>1, <2>5, <3>1, <3>2 DEF FlightInv
    <3>5. StillInv'
      <4>1. acked[call.path] => tree[call.path] = call.new
        BY <1>1, <2>6 DEF IInv, StillInv, Watched
      <4> QED BY <1>1, <1>3, <2>1, <3>1, <4>1 DEF StillInv, Watched
    <3> QED BY <2>1, <2>2, <2>3, <2>4, <3>3, <3>4, <3>5 DEF Shape, IInv
  <2>7. CASE call.kind # "move"
    <3>1. CarriedInv'
      BY <1>1, <1>3, <2>7, CarriedFrame DEF NoNewJournal, IInv
    <3>2. FlightInv' /\ StillInv'
      BY <1>1, <1>3, <2>1, <2>7 DEF FlightInv, StillInv
    <3> QED BY <2>1, <2>2, <2>3, <2>4, <3>1, <3>2 DEF Shape, IInv
  <2> QED BY <2>6, <2>7
<1> QED BY <1>2, <1>3 DEF Destination, transferDestination

(* The journal of a write whose call goes on is the one it had. *)
LEMMA SameOwn ==
  ASSUME call'.at = call.at, call'.pre = call.pre, call'.post = call.post
  PROVE  OwnJournal' = OwnJournal
BY DEF OwnJournal

(* The fields of the own journal. *)
LEMMA OwnFields ==
  /\ OwnJournal.path = call.at /\ OwnJournal.pre = call.pre /\ OwnJournal.post = call.post
  /\ OwnJournal.whole = TRUE /\ OwnJournal.left = FALSE
BY DEF OwnJournal

(* The journal is written, whole or not, or nothing is (mutateFile). *)
LEMMA WriteJournalSafe ==
  ASSUME Shape, IInv, WriteJournal
  PROVE  Shape' /\ IInv'
<1>1. UNCHANGED <<tree, serving, carried>> /\ serving /\ call.phase = "journal"
  BY DEF WriteJournal, At
<1>2. CASE journals' = journals \cup {OwnJournal} /\ Goto("ensure") /\ UNCHANGED acked
  <2>1. /\ CallShape(call') /\ call'.phase = "ensure" /\ call'.kind = call.kind /\ call'.path = call.path
        /\ call'.to = call.to /\ call'.at = call.at /\ call'.pre = call.pre /\ call'.post = call.post
        /\ call'.new = call.new
    BY <1>2, GotoEffect DEF Shape
  <2>2. Shape'
    <3>1. JournalShape(journals')
      BY <1>2, OwnShape DEF Shape, JournalShape
    <3> QED BY <1>1, <1>2, <2>1, <3>1 DEF Shape, FileShape, CarriedShape
  <2>3. PlaceInv' /\ StillInv'
    BY <1>1, <1>2, <2>1 DEF IInv, PlaceInv, StillInv, Watched, Writing
  <2>4. OwnJournal' = OwnJournal
    BY <2>1, SameOwn
  <2>5. JournalInv'
    BY <1>1, <1>2, <2>1, <2>4, AllLeft DEF JournalInv
  <2>6. CarriedInv'
    BY <1>1, <1>2, OwnFields, CarriedJournal DEF IInv
  <2>7. FlightInv'
    <3> SUFFICES ASSUME carried.live, call.kind = "move"
                 PROVE  /\ carried.from = call.path /\ carried.to = call.to /\ carried.image = call.new
                        /\ call.at = call.path => KeptAt(call.to)'
                        /\ call.at = call.to =>
                             /\ KeptAt(call.path)'
                             /\ \A j \in journals' : j.path = call.to /\ j.whole => j = OwnJournal
      BY <1>1, <2>1, <2>4 DEF FlightInv, KeptAt
    <3>1. call.path # call.to /\ call.at \in {call.path, call.to}
      BY <1>1 DEF IInv, PlaceInv, Writing
    <3>2. /\ carried.from = call.path /\ carried.to = call.to /\ carried.image = call.new
          /\ call.at = call.path => KeptAt(call.to)
          /\ call.at = call.to =>
               KeptAt(call.path) /\ \A j \in journals : j.path = call.to => ~j.whole
      BY <1>1 DEF IInv, FlightInv, Writing
    <3>3. ASSUME NEW p, p # call.at, KeptAt(p) PROVE KeptAt(p)'
      BY <1>1, <1>2, <3>3, OwnFields DEF KeptAt
    <3>4. PICK a, b : a = call.path /\ b = call.to
      OBVIOUS
    <3>5. /\ call.at = b => KeptAt(a) /\ a # call.at
          /\ call.at = a => KeptAt(b) /\ b # call.at
      BY <3>1, <3>2, <3>4
    <3>6. /\ call.at = b => KeptAt(a)'
          /\ call.at = a => KeptAt(b)'
      BY <3>3, <3>5
    <3>7. KeptAt(call.path)' = KeptAt(a)' /\ KeptAt(call.to)' = KeptAt(b)'
      BY <2>1, <3>4 DEF KeptAt
    <3> QED BY <1>2, <3>1, <3>2, <3>4, <3>6, <3>7
  <2> QED BY <2>2, <2>3, <2>5, <2>6, <2>7 DEF IInv
<1>3. CASE \E J \in {{}, {OwnJournal}, {[OwnJournal EXCEPT !.whole = FALSE]}} : Refuse(journals \cup J)
  <2> DEFINE short == [OwnJournal EXCEPT !.whole = FALSE]
  <2>1. ~short.whole /\ JournalShape({short}) /\ JournalShape({OwnJournal})
    BY OwnShape DEF OwnJournal, JournalShape, Shape, CallShape
  <2>2. PICK J \in {{}, {OwnJournal}, {short}} : Refuse(journals \cup J)
    BY <1>3
  <2> HIDE DEF short
  <2>3. JournalShape(journals \cup J)
    BY <2>1, <2>2 DEF Shape, JournalShape
  <2>4. \A j \in journals \cup J : j.whole => j \in journals \/ (j = OwnJournal /\ call.phase = "journal")
    BY <1>1, <2>1, <2>2
  <2> QED BY <1>1, <2>2, <2>3, <2>4, RefuseSafe
<1> QED BY <1>2, <1>3 DEF WriteJournal

(* The preimage is there, or the journal goes and the edit is refused
   (ensureCurrent). *)
LEMMA EnsureSafe ==
  ASSUME Shape, IInv, EnsureCurrent
  PROVE  Shape' /\ IInv'
<1>1. UNCHANGED <<tree, serving, carried>> /\ serving /\ call.phase = "ensure"
  BY DEF EnsureCurrent, At
<1>2. CASE Refuse(journals \ {OwnJournal})
  BY <1>1, <1>2, ClearedRefusal
<1>3. CASE Goto("write") /\ UNCHANGED <<journals, acked>>
  <2>1. /\ CallShape(call') /\ call'.phase = "write" /\ call'.kind = call.kind /\ call'.path = call.path
        /\ call'.to = call.to /\ call'.at = call.at /\ call'.pre = call.pre /\ call'.post = call.post
        /\ call'.new = call.new
    BY <1>3, GotoEffect DEF Shape
  <2>2. Shape'
    BY <1>1, <1>3, <2>1 DEF Shape, JournalShape, FileShape, CarriedShape
  <2>3. PlaceInv' /\ StillInv'
    BY <1>1, <1>3, <2>1 DEF IInv, PlaceInv, StillInv, Watched, Writing
  <2>4. OwnJournal' = OwnJournal
    BY <2>1, SameOwn
  <2>5. JournalInv'
    BY <1>1, <1>3, <2>1, <2>4 DEF JournalInv, IInv
  <2>6. CarriedInv'
    BY <1>1, <1>3, CarriedFrame DEF NoNewJournal, IInv
  <2>7. FlightInv'
    BY <1>1, <1>3, <2>1, <2>4 DEF IInv, FlightInv, KeptAt, Writing
  <2> QED BY <2>2, <2>3, <2>5, <2>6, <2>7 DEF IInv
<1> QED BY <1>2, <1>3 DEF EnsureCurrent

(* What is kept at a path stays when another path is written. *)
LEMMA KeptElsewhere ==
  ASSUME NEW p, KeptAt(p), tree'[p] = tree[p], carried'.image = carried.image, NoNewJournal
  PROVE  KeptAt(p)'
BY KeptFrame DEF NoNewJournal

(* A write in place of bytes somebody else left there ends what is carried; a move
   writes one end while the other is kept (mutateFile, applyMoveFile). *)
LEMMA WriteKeeps ==
  ASSUME Shape, IInv, call.phase = "write", carried' = CarriedAfter(call.at), NoNewJournal,
         tree' \in {tree, [tree EXCEPT ![call.at] = call.post]}
  PROVE  /\ CarriedInv' /\ CarriedShape'
         /\ carried'.live => carried.live
         /\ carried'.from = carried.from /\ carried'.to = carried.to /\ carried'.image = carried.image
         /\ carried'.live /\ call.kind # "move" => call.at \notin {carried.from, carried.to}
<1>1. /\ carried'.live => carried.live
      /\ DOMAIN carried' = DOMAIN carried
      /\ carried'.from = carried.from /\ carried'.to = carried.to /\ carried'.image = carried.image
      /\ carried'.live /\ call.kind # "move" => call.at \notin {carried.from, carried.to}
  BY DEF CarriedAfter, Shape, CarriedShape
<1>2. CarriedShape'
  BY <1>1 DEF Shape, CarriedShape
<1>3. CarriedInv'
  <2> SUFFICES ASSUME carried'.live PROVE KeptAt(carried.from)' \/ KeptAt(carried.to)'
    BY DEF CarriedInv
  <2>1. PICK f, t : f = carried.from /\ t = carried.to
    OBVIOUS
  <2>2. KeptAt(carried.from)' = KeptAt(f)' /\ KeptAt(carried.to)' = KeptAt(t)'
    BY <1>1, <2>1 DEF KeptAt
  <2>3. ASSUME NEW p \in Paths, p # call.at, KeptAt(p) PROVE KeptAt(p)'
    BY <1>1, <2>3, KeptElsewhere DEF Shape, FileShape
  <2>4. f \in Paths /\ t \in Paths /\ (KeptAt(f) \/ KeptAt(t))
    BY <1>1, <2>1 DEF Shape, CarriedShape, IInv, CarriedInv
  <2>5. CASE call.kind # "move"
    BY <1>1, <2>1, <2>2, <2>3, <2>4, <2>5
  <2>6. CASE call.kind = "move"
    <3>1. call.path # call.to /\ call.at \in {call.path, call.to} /\ f = call.path /\ t = call.to
      BY <1>1, <2>1, <2>6 DEF IInv, PlaceInv, FlightInv, Writing
    <3>2. (call.at = t => KeptAt(f)) /\ (call.at = f => KeptAt(t))
      BY <1>1, <2>6, <3>1 DEF IInv, FlightInv, Writing
    <3> QED BY <2>2, <2>3, <2>4, <3>1, <3>2
  <2> QED BY <2>5, <2>6
<1> QED BY <1>1, <1>2, <1>3

(* The write, done or failed (mutateFile). *)
LEMMA WriteSafe ==
  ASSUME Shape, IInv, Write
  PROVE  Shape' /\ IInv'
<1> DEFINE written == [tree EXCEPT ![call.at] = call.post]
<1>1. UNCHANGED serving /\ serving /\ call.phase = "write" /\ carried' = CarriedAfter(call.at)
  BY DEF Write, At
<1>2. call.at \in Paths /\ DOMAIN tree = Paths /\ DOMAIN acked = Paths
  BY DEF Shape, CallShape, FileShape
<1>3. CASE /\ tree' = written /\ call' = [call EXCEPT !.phase = "clear"]
           /\ acked' = [acked EXCEPT ![call.at] = FALSE] /\ UNCHANGED journals
  <2>1. /\ CallShape(call') /\ call'.phase = "clear" /\ call'.kind = call.kind /\ call'.path = call.path
        /\ call'.to = call.to /\ call'.at = call.at /\ call'.pre = call.pre /\ call'.post = call.post
        /\ call'.new = call.new
    BY <1>3 DEF Shape, CallShape, CallFields
  <2>2. /\ CarriedInv' /\ CarriedShape'
        /\ carried'.live => carried.live
        /\ carried'.from = carried.from /\ carried'.to = carried.to /\ carried'.image = carried.image
        /\ carried'.live /\ call.kind # "move" => call.at \notin {carried.from, carried.to}
    BY <1>1, <1>3, WriteKeeps DEF NoNewJournal
  <2>3. Shape'
    BY <1>2, <1>3, <2>1, <2>2 DEF Shape, FileShape, JournalShape
  <2>4. PlaceInv'
    BY <1>1, <2>1 DEF IInv, PlaceInv, Writing
  <2>5. /\ \A p \in Paths : p # call.at => tree'[p] = tree[p] /\ acked'[p] = acked[p]
        /\ tree'[call.at] = call.post /\ acked'[call.at] = FALSE
    BY <1>2, <1>3
  <2>6. StillInv'
    <3>1. call.kind = "move" /\ call.at = call.to => call.path # call.at /\ call.path \in Paths
      BY DEF IInv, PlaceInv, Shape, CallShape
    <3>2. call.kind = "move" /\ call.at = call.to /\ Watched(call.path) => tree[call.path] = call.new
      BY <1>1 DEF IInv, StillInv, Writing
    <3>3. call.kind = "move" /\ call.at = call.to /\ Watched(call.path)' => Watched(call.path)
      BY <2>1, <2>2, <2>5, <3>1 DEF Watched
    <3> QED BY <2>1, <2>5, <3>1, <3>2, <3>3 DEF StillInv
  <2>7. OwnJournal' = OwnJournal
    BY <2>1, SameOwn
  <2>8. JournalInv'
    BY <1>1, <1>3, <2>1, <2>7 DEF IInv, JournalInv
  <2>9. FlightInv'
    <3> SUFFICES ASSUME carried.live, call.kind = "move"
                 PROVE  /\ carried.from = call.path /\ carried.to = call.to /\ carried.image = call.new
                        /\ call.at = call.path => KeptAt(call.to)'
                        /\ call.at = call.to =>
                             /\ KeptAt(call.path)'
                             /\ \A j \in journals : j.path = call.to /\ j.whole => j = OwnJournal
                             /\ tree'[call.to] = call.new
      BY <1>3, <2>1, <2>2, <2>7 DEF FlightInv
    <3>1. PICK a, b : a = call.path /\ b = call.to
      OBVIOUS
    <3>2. KeptAt(call.path)' = KeptAt(a)' /\ KeptAt(call.to)' = KeptAt(b)'
      BY <2>1, <3>1 DEF KeptAt
    <3>3. /\ a # b /\ a \in Paths /\ b \in Paths /\ call.at \in {a, b}
          /\ call.at = b => call.post = call.new
      BY <1>1, <3>1 DEF IInv, PlaceInv, Writing, Shape, CallShape
    <3>4. /\ carried.from = call.path /\ carried.to = call.to /\ carried.image = call.new
          /\ call.at = a => KeptAt(b)
          /\ call.at = b => KeptAt(a) /\ \A j \in journals : j.path = call.to /\ j.whole => j = OwnJournal
      BY <1>1, <3>1 DEF IInv, FlightInv, Writing
    <3>5. ASSUME NEW p \in Paths, p # call.at, KeptAt(p) PROVE KeptAt(p)'
      BY <1>3, <2>2, <2>5, <3>5, KeptElsewhere DEF NoNewJournal
    <3>6. (call.at = a => KeptAt(b)') /\ (call.at = b => KeptAt(a)')
      BY <3>3, <3>4, <3>5
    <3> QED BY <2>5, <3>1, <3>2, <3>3, <3>4, <3>6
  <2> QED BY <2>2, <2>3, <2>4, <2>6, <2>8, <2>9 DEF IInv
<1>4. CASE /\ tree' \in {tree, written} /\ call' = Ended(call)
           /\ \E J \in {journals, journals \ {OwnJournal}} : journals' = LeftBehind(J)
           /\ DOMAIN acked' = Paths
  <2>1. CallShape(call') /\ call'.phase \in {"idle", "format"} /\ call'.kind = "create"
    BY <1>4, EndedShape DEF Shape
  <2>2. PICK J \in {journals, journals \ {OwnJournal}} : journals' = LeftBehind(J)
    BY <1>4
  <2>3. /\ JournalShape(journals')
        /\ \A j \in journals' : /\ j.left
                                /\ \E k \in J : j.path = k.path /\ j.pre = k.pre /\ j.whole = k.whole
    <3>1. JournalShape(J)
      BY <2>2 DEF Shape, JournalShape
    <3> QED BY <2>2, <3>1, LeftShape
  <2>4. NoNewJournal
    BY <2>2, <2>3 DEF NoNewJournal
  <2>5. CarriedInv' /\ CarriedShape'
    BY <1>1, <1>4, <2>4, WriteKeeps
  <2>6. FileShape' /\ Calm
    BY <1>2, <1>4, <2>1 DEF FileShape, Calm
  <2> QED BY <1>1, <2>1, <2>3, <2>5, <2>6, CalmSafe
<1> QED
  <2>1. CASE /\ tree' \in {tree, written} /\ call' = Ended(call)
             /\ LET J == IF stateMatches(tree', call.at, call.pre) THEN journals \ {OwnJournal} ELSE journals IN
                  journals' = LeftBehind(J)
             /\ acked' = [q \in Paths |-> IF q = call.at /\ tree' # tree THEN FALSE
                                          ELSE acked[q] \/ (call.kind # "format" /\ call.files[q] = tree[q])]
    BY <1>4, <2>1
  <2> QED BY <1>3, <2>1 DEF Write

(* The journal is gone before anything is answered; a move goes on to its source
   (mutateFile, ApplyMove). *)
LEMMA ClearSafe ==
  ASSUME Shape, IInv, ClearJournal
  PROVE  Shape' /\ IInv'
<1>1. UNCHANGED <<tree, serving, carried>> /\ serving /\ call.phase = "clear"
  BY DEF ClearJournal, At
<1>2. CASE \E J \in {journals, journals \ {OwnJournal}} : Refuse(J)
  BY <1>1, <1>2, PlainRefusal, ClearedRefusal
<1>3. CASE /\ journals' = journals \ {OwnJournal} /\ UNCHANGED acked
           /\ call' = IF call.kind = "move" /\ call.at = call.to
                      THEN [call EXCEPT !.phase = "journal", !.at = call.path, !.pre = call.new, !.post = Missing]
                      ELSE [call EXCEPT !.phase = "refresh"]
  <2>1. JournalShape(journals') /\ FileShape' /\ CarriedShape'
    BY <1>1, <1>3 DEF Shape, JournalShape, FileShape, CarriedShape
  <2>2. CarriedInv'
    BY <1>1, <1>3, CarriedFrame DEF NoNewJournal, IInv
  <2>3. \A j \in journals' : j.whole => j.left
    BY <1>1, <1>3 DEF IInv, JournalInv
  <2>4. JournalInv'
    BY <2>3 DEF JournalInv
  <2>5. CASE call.kind = "move" /\ call.at = call.to
    <3>1. /\ CallShape(call') /\ call'.phase = "journal" /\ call'.kind = call.kind /\ call'.path = call.path
          /\ call'.to = call.to /\ call'.at = call.path /\ call'.pre = call.new /\ call'.post = Missing
          /\ call'.new = call.new
      BY <1>3, <2>5 DEF Shape, CallShape, CallFields
    <3>2. PlaceInv' /\ call.path # call.to
      BY <1>1, <2>5, <3>1 DEF IInv, PlaceInv, Writing
    <3>3. StillInv'
      BY <1>1, <1>3, <2>5, <3>1, <3>2 DEF IInv, StillInv, Watched, Writing
    <3>4. carried.live => /\ carried.from = call.path /\ carried.to = call.to /\ carried.image = call.new
                          /\ \A j \in journals : j.path = call.to /\ j.whole => j = OwnJournal
                          /\ tree[call.to] = call.new
      BY <1>1, <2>5 DEF IInv, FlightInv, Writing
    <3>5. carried.live => KeptAt(call.to)'
      BY <1>1, <1>3, <3>1, <3>4 DEF KeptAt
    <3>6. FlightInv'
      BY <1>1, <3>1, <3>2, <3>4, <3>5 DEF FlightInv
    <3> QED BY <2>1, <2>2, <2>4, <3>1, <3>2, <3>3, <3>6 DEF Shape, IInv
  <2>6. CASE ~(call.kind = "move" /\ call.at = call.to)
    <3>1. /\ CallShape(call') /\ call'.phase = "refresh" /\ call'.kind = call.kind /\ call'.path = call.path
          /\ call'.to = call.to /\ call'.at = call.at /\ call'.pre = call.pre /\ call'.post = call.post
          /\ call'.new = call.new
      BY <1>3, <2>6 DEF Shape, CallShape, CallFields
    <3>2. PlaceInv'
      BY <1>1, <3>1 DEF IInv, PlaceInv, Writing
    <3>3. StillInv'
      BY <3>1 DEF StillInv, Writing
    <3>4. FlightInv'
      <4> SUFFICES ASSUME carried.live, call.kind = "move"
                   PROVE  /\ carried.from = call.path /\ carried.to = call.to /\ carried.image = call.new
                          /\ call.at = call.path => KeptAt(call.to)'
        BY <1>1, <2>6, <3>1 DEF FlightInv
      <4>1. /\ carried.from = call.path /\ carried.to = call.to /\ carried.image = call.new
            /\ call.at = call.path => KeptAt(call.to)
        BY <1>1 DEF IInv, FlightInv, Writing
      <4> QED BY <1>1, <1>3, <3>1, <4>1 DEF KeptAt
    <3> QED BY <2>1, <2>2, <2>4, <3>1, <3>2, <3>3, <3>4 DEF Shape, IInv
  <2> QED BY <2>5, <2>6
<1> QED BY <1>2, <1>3 DEF ClearJournal

(* An operation ends, or the next occurrence is due (mergeApplied). *)
LEMMA RefreshSafe ==
  ASSUME Shape, IInv, RefreshEdited
  PROVE  Shape' /\ IInv'
<1>1. UNCHANGED <<tree, journals, serving, acked, carried>> /\ serving /\ call.phase = "refresh"
  BY DEF RefreshEdited, At
<1>2. /\ CallShape(call')
      /\ \/ call'.phase = "hit" /\ call'.kind = "literal"
         \/ call'.phase \in {"format", "operation"} /\ call'.kind = "create"
  <2>1. PICK fs, fx, ph : /\ ph \in {"format", "operation"}
                          /\ \/ call.kind = "literal" /\ call' = [call EXCEPT !.phase = "hit", !.files = fs]
                             \/ call' = [Idle EXCEPT !.phase = ph, !.operations = call.operations, !.files = fs,
                                                     !.fixed = fx]
    BY DEF RefreshEdited
  <2>2. CASE call.kind = "literal" /\ call' = [call EXCEPT !.phase = "hit", !.files = fs]
    BY <2>2 DEF Shape, CallShape, CallFields
  <2>3. CASE call' = [Idle EXCEPT !.phase = ph, !.operations = call.operations, !.files = fs, !.fixed = fx]
    BY <2>1, <2>3, IdleShape DEF CallShape, CallFields
  <2> QED BY <2>1, <2>2, <2>3
<1>3. Calm /\ DOMAIN acked' = Paths
  BY <1>1, <1>2 DEF Calm, Shape, FileShape
<1> QED BY <1>1, <1>2, <1>3, CalmCall

(* The operations are done (finishEdit). *)
LEMMA FinishSafe ==
  ASSUME Shape, IInv, FinishOperations
  PROVE  Shape' /\ IInv'
<1>1. /\ UNCHANGED <<tree, journals, serving, acked, carried>> /\ serving /\ call.phase = "operation"
      /\ Goto("format")
  BY DEF FinishOperations, At
<1>2. CallShape(call') /\ call'.phase = "format" /\ call'.kind = "create"
  BY <1>1, GotoEffect DEF Shape, IInv, PlaceInv
<1>3. Calm /\ DOMAIN acked' = Paths
  BY <1>1, <1>2 DEF Calm, Shape, FileShape
<1> QED BY <1>1, <1>2, <1>3, CalmCall

(* A file is formatted or left out (applyFormatted). *)
LEMMA FormatSafe ==
  ASSUME Shape, IInv, NEW p \in Paths, FormatFile(p)
  PROVE  Shape' /\ IInv'
<1>1. UNCHANGED <<tree, journals, serving, acked, carried>> /\ serving /\ call.phase = "format"
      /\ call.kind = "create"
  BY DEF FormatFile, At, IInv, PlaceInv
<1>2. PICK n, hi, e : \/ call' = [call EXCEPT !.fixed = @ \cup {p}]
                      \/ call' = [call EXCEPT !.phase = "validate", !.kind = "format", !.path = p, !.at = p,
                                              !.lo = 0, !.hi = hi, !.new = n, !.expected = e]
  BY DEF FormatFile
<1>3. /\ CallShape(call')
      /\ \/ call'.phase = "format" /\ call'.kind = "create"
         \/ call'.phase = "validate" /\ call'.kind = "format" /\ call'.path = p /\ call'.at = p
  <2>1. CASE call' = [call EXCEPT !.fixed = @ \cup {p}]
    BY <1>1, <2>1 DEF Shape, CallShape, CallFields
  <2>2. CASE call' = [call EXCEPT !.phase = "validate", !.kind = "format", !.path = p, !.at = p,
                                  !.lo = 0, !.hi = hi, !.new = n, !.expected = e]
    BY <2>2 DEF Shape, CallShape, CallFields
  <2> QED BY <1>2, <2>1, <2>2
<1>4. Calm /\ DOMAIN acked' = Paths
  BY <1>1, <1>3 DEF Calm, Shape, FileShape
<1> QED BY <1>1, <1>3, <1>4, CalmCall

(* The call is answered (compactEditData). *)
LEMMA AnswerSafe ==
  ASSUME Shape, IInv, Answer
  PROVE  Shape' /\ IInv'
<1>1. UNCHANGED <<tree, journals, serving, carried>> /\ serving /\ call.phase = "format" /\ call' = Idle
      /\ DOMAIN acked' = Paths
  BY DEF Answer, At
<1>2. CallShape(call') /\ call'.phase = "idle" /\ call'.kind = "create" /\ Calm
  BY <1>1, IdleShape DEF Calm
<1> QED BY <1>1, <1>2, CalmCall

-----------------------------------------------------------------------------
(* What happens beside the call. *)

(* Readers and epochs change neither files nor journals nor the call. *)
LEMMA ObserveSafe ==
  ASSUME Shape, IInv, Observe \/ UNCHANGED vars
  PROVE  Shape' /\ IInv'
<1>1. UNCHANGED <<tree, journals, serving, call, acked, carried>>
  BY DEF Observe, PublishSnapshot, PrimeDocuments, RefreshKnownDocuments, SyncEpoch, Snapshot, InspectPath,
         StartReader, vars
<1>2. OwnJournal' = OwnJournal
  BY <1>1, SameOwn
<1> QED BY <1>1, <1>2 DEF Shape, CallShape, CarriedShape, JournalShape, FileShape, IInv, PlaceInv, StillInv,
                          JournalInv, CarriedInv, FlightInv, KeptAt, Watched, Writing

(* Another program's write ends every promise about the path (external). *)
LEMMA ExternalSafe ==
  ASSUME Shape, IInv, NEW p \in Paths, NEW i, External(p, i)
  PROVE  Shape' /\ IInv'
<1>1. /\ UNCHANGED <<journals, serving, call>> /\ DOMAIN tree' = Paths /\ DOMAIN acked' = Paths
      /\ \A q \in Paths : q # p => tree'[q] = tree[q] /\ acked'[q] = acked[q]
      /\ acked'[p] = FALSE
  BY DEF External, Shape, FileShape
<1>2. /\ CarriedShape' /\ (carried'.live => carried.live /\ p \notin {carried.from, carried.to})
      /\ carried'.from = carried.from /\ carried'.to = carried.to /\ carried'.image = carried.image
  BY DEF External, Shape, CarriedShape
<1>3. Shape'
  BY <1>1, <1>2 DEF Shape, CallShape, JournalShape, FileShape
<1>4. OwnJournal' = OwnJournal
  BY <1>1, SameOwn
<1>5. ASSUME NEW q \in Paths, q # p, KeptAt(q) PROVE KeptAt(q)'
  BY <1>1, <1>2, <1>5 DEF KeptAt
<1>6. ASSUME NEW q \in Paths, Watched(q)' PROVE q # p /\ Watched(q)
  BY <1>1, <1>2, <1>6 DEF Watched
<1>7. PICK f, t, a, b : f = carried.from /\ t = carried.to /\ a = call.path /\ b = call.to
  OBVIOUS
<1>8. /\ KeptAt(carried.from)' = KeptAt(f)' /\ KeptAt(carried.to)' = KeptAt(t)'
      /\ KeptAt(call.path)' = KeptAt(a)' /\ KeptAt(call.to)' = KeptAt(b)'
      /\ f \in Paths /\ t \in Paths /\ a \in Paths /\ b \in Paths
  BY <1>1, <1>2, <1>7 DEF KeptAt, Shape, CallShape, CarriedShape
<1>9. PlaceInv'
  BY <1>1 DEF IInv, PlaceInv, Writing
<1>10. StillInv'
  <2>1. PICK c : c = call.at
    OBVIOUS
  <2>2. Watched(call.path)' = Watched(a)' /\ Watched(call.at)' = Watched(c)' /\ c \in Paths
    BY <1>1, <1>7, <2>1 DEF Watched, Shape, CallShape
  <2>3. (Watched(call.path)' => a # p /\ Watched(call.path)) /\ (Watched(call.at)' => c # p /\ Watched(call.at))
    BY <1>6, <1>7, <1>8, <2>1, <2>2
  <2> QED BY <1>1, <1>7, <1>8, <2>1, <2>2, <2>3 DEF IInv, StillInv, Writing
<1>11. JournalInv'
  BY <1>1, <1>3, <1>4 DEF IInv, JournalInv, Shape, JournalShape
<1>12. CarriedInv'
  BY <1>2, <1>5, <1>7, <1>8 DEF IInv, CarriedInv
<1>13. FlightInv'
  BY <1>1, <1>2, <1>4, <1>5, <1>7, <1>8 DEF IInv, FlightInv, Writing
<1> QED BY <1>3, <1>9, <1>10, <1>11, <1>12, <1>13 DEF IInv

(* The service dies: what was in flight is forgotten, and its journal would not
   touch an edit that was answered (external). *)
LEMMA CrashSafe ==
  ASSUME Shape, IInv, Crash
  PROVE  Shape' /\ IInv'
<1> DEFINE short == [OwnJournal EXCEPT !.whole = FALSE]
<1>1. /\ UNCHANGED <<tree, acked, carried>> /\ serving /\ serving' = FALSE /\ call' = Idle
      /\ journals' \in {journals, journals \cup {short}}
  BY DEF Crash
<1>2. ~short.whole /\ JournalShape({short})
  BY OwnShape DEF OwnJournal, JournalShape, Shape, CallShape
<1> HIDE DEF short
<1>3. CallShape(call') /\ call'.phase = "idle" /\ call'.kind = "create"
  BY <1>1, IdleShape
<1>4. Shape'
  BY <1>1, <1>2, <1>3 DEF Shape, JournalShape, FileShape, CarriedShape
<1>5. PlaceInv' /\ StillInv' /\ FlightInv'
  BY <1>3 DEF PlaceInv, StillInv, FlightInv, Writing
<1>6. JournalInv'
  <2> SUFFICES ASSUME NEW j \in journals', j.whole, ~j.left, acked[j.path]
               PROVE  tree[j.path] = j.pre \/ tree[j.path] # j.post
    BY <1>1 DEF JournalInv
  <2>1. j \in journals /\ call.phase \in {"ensure", "write", "clear"} /\ j = OwnJournal
    BY <1>1, <1>2 DEF IInv, JournalInv
  <2>2. acked[call.at] /\ j.path = call.at /\ j.pre = call.pre
    BY <2>1, OwnFields
  <2>3. tree[call.at] = call.pre
    BY <2>1, <2>2 DEF IInv, StillInv, Watched
  <2> QED BY <2>2, <2>3
<1>7. CarriedInv'
  BY <1>1, <1>2, CarriedFrame DEF NoNewJournal, IInv
<1> QED BY <1>4, <1>5, <1>6, <1>7 DEF IInv

(* A journal is resolved: only the file it names may change, and only where it holds
   what the journal's edit wrote (recoverNativeJournal). *)
LEMMA RecoverEffect ==
  ASSUME Shape, NEW j \in journals, Recover(j)
  PROVE  /\ UNCHANGED <<serving, call, carried>> /\ ~serving /\ journals' \subseteq journals
         /\ DOMAIN tree' = Paths /\ DOMAIN acked' = Paths
         /\ \A p \in Paths : acked'[p] => acked[p] /\ tree'[p] = tree[p]
         /\ \A p \in Paths : tree'[p] # tree[p] =>
              p = j.path /\ j.whole /\ tree[p] # j.pre /\ tree[p] = j.post
BY DEF Recover, Shape, FileShape, JournalShape

LEMMA RecoverSafe ==
  ASSUME Shape, IInv, NEW j \in journals, Recover(j)
  PROVE  Shape' /\ IInv'
<1>1. /\ UNCHANGED <<serving, call, carried>> /\ ~serving /\ journals' \subseteq journals
      /\ DOMAIN tree' = Paths /\ DOMAIN acked' = Paths
      /\ \A p \in Paths : acked'[p] => acked[p] /\ tree'[p] = tree[p]
      /\ \A p \in Paths : tree'[p] # tree[p] =>
           p = j.path /\ j.whole /\ tree[p] # j.pre /\ tree[p] = j.post
  BY RecoverEffect
<1>2. Shape'
  BY <1>1 DEF Shape, CallShape, CarriedShape, JournalShape, FileShape
<1>3. call.phase = "idle" /\ call.kind = "create"
  BY <1>1 DEF IInv, PlaceInv
<1>4. PlaceInv' /\ StillInv' /\ FlightInv'
  BY <1>1, <1>3 DEF PlaceInv, StillInv, FlightInv, Writing
<1>5. JournalInv'
  BY <1>1, <1>2 DEF IInv, JournalInv, Shape, JournalShape
<1>6. CarriedInv'
  <2>1. PICK f, t : f = carried.from /\ t = carried.to
    OBVIOUS
  <2>2. KeptAt(carried.from)' = KeptAt(f)' /\ KeptAt(carried.to)' = KeptAt(t)' /\ f \in Paths /\ t \in Paths
    BY <1>1, <2>1 DEF KeptAt, Shape, CarriedShape
  <2>3. ASSUME NEW p \in Paths, KeptAt(p) PROVE KeptAt(p)'
    <3>1. tree'[p] = tree[p]
      BY <1>1, <2>3 DEF KeptAt
    <3> QED BY <1>1, <2>3, <3>1 DEF KeptAt
  <2> QED BY <1>1, <2>1, <2>2, <2>3 DEF IInv, CarriedInv
<1> QED BY <1>2, <1>4, <1>5, <1>6 DEF IInv

(* The service answers again, with the conflicts left behind
   (RecoverNativeJournalsFor). *)
LEMMA ServeSafe ==
  ASSUME Shape, IInv, Serve
  PROVE  Shape' /\ IInv'
<1>1. UNCHANGED <<tree, call, acked, carried>> /\ ~serving /\ journals' = LeftBehind(journals)
  BY DEF Serve
<1>2. /\ JournalShape(journals')
      /\ \A j \in journals' : /\ j.left
                              /\ \E k \in journals : j.path = k.path /\ j.pre = k.pre /\ j.whole = k.whole
  BY <1>1, LeftShape DEF Shape
<1>3. Shape'
  BY <1>1, <1>2 DEF Shape, CallShape, FileShape, CarriedShape
<1>4. call.phase = "idle" /\ call.kind = "create"
  BY <1>1 DEF IInv, PlaceInv
<1>5. PlaceInv' /\ StillInv' /\ FlightInv' /\ JournalInv'
  BY <1>1, <1>2, <1>4 DEF PlaceInv, StillInv, FlightInv, JournalInv, Writing
<1>6. CarriedInv'
  BY <1>1, <1>2, CarriedFrame DEF NoNewJournal, IInv
<1> QED BY <1>3, <1>5, <1>6 DEF IInv

-----------------------------------------------------------------------------
(* The invariant. *)

(* Nothing is in flight, left or carried at first. *)
LEMMA InitSafe ==
  ASSUME Init
  PROVE  Shape /\ IInv
<1>1. /\ call = Idle /\ journals = {} /\ serving = TRUE /\ carried = NotCarried /\ DOMAIN tree = Paths
      /\ DOMAIN acked = Paths
  BY DEF Init
<1>2. CallShape(call) /\ call.phase = "idle" /\ call.kind = "create"
  BY <1>1, IdleShape
<1>3. CarriedShape /\ carried.live = FALSE
  BY <1>1, IdleShape DEF NotCarried, CarriedShape, CallShape
<1>4. Shape
  BY <1>1, <1>2, <1>3 DEF Shape, JournalShape, FileShape
<1>5. PlaceInv /\ StillInv /\ JournalInv /\ CarriedInv /\ FlightInv
  BY <1>1, <1>2, <1>3 DEF PlaceInv, StillInv, JournalInv, CarriedInv, FlightInv, Writing
<1> QED BY <1>4, <1>5 DEF IInv

(* Every step keeps it. *)
LEMMA StepSafe ==
  ASSUME Shape, IInv, [Next]_vars
  PROVE  Shape' /\ IInv'
<1>1. CASE Operation
  BY <1>1, CreateSafe, ReplaceSafe, DeleteSafe, RangeSafe, MoveSafe, CopySafe DEF Operation
<1>2. CASE Literal
  BY <1>2, LiteralSafe DEF Literal
<1>3. CASE Step
  BY <1>3, NextHitSafe, ValidateSafe, InspectSafe, DestinationSafe, WriteJournalSafe, EnsureSafe, WriteSafe,
     ClearSafe, RefreshSafe, FinishSafe, AnswerSafe, FormatSafe DEF Step
<1>4. CASE Observe
  BY <1>4, ObserveSafe
<1>5. CASE Environment
  BY <1>5, CrashSafe, ServeSafe, RecoverSafe, ExternalSafe DEF Environment
<1>6. CASE UNCHANGED vars
  BY <1>6, ObserveSafe
<1> QED BY <1>1, <1>2, <1>3, <1>4, <1>5, <1>6 DEF Next

(* The inductive invariant of an edit, its journals and what a move carries. *)
THEOREM EditInvariant == Spec => [](Shape /\ IInv)
<1>1. Init => Shape /\ IInv
  BY InitSafe
<1>2. Shape /\ IInv /\ [Next]_vars => (Shape /\ IInv)'
  BY StepSafe
<1> QED BY <1>1, <1>2, PTL DEF Spec

(* A move never loses its file: until somebody else writes either end, the bytes are
   at one of them, through every error and crash (ApplyMove, mutateFile,
   recoverNativeJournal). *)
THEOREM MovesKeepContent == Spec => []MoveKeepsContent
<1>1. IInv => MoveKeepsContent
  BY DEF IInv, CarriedInv, KeptAt, MoveKeepsContent
<1> QED BY <1>1, EditInvariant, PTL

(* An answered edit is not taken back by a later startup, unless a journal that an
   earlier write could not remove names its file (recoverNativeJournal). *)
THEOREM AckedEditsStay == Spec => AckedStays
<1> DEFINE A == \A p \in Paths : ~serving /\ acked[p] /\ (\A j \in journals : j.path = p => ~j.left) =>
                  (tree'[p] = tree[p] \/ \E i \in Foreign : External(p, i))
<1>1. ASSUME Shape, IInv, [Next]_vars PROVE [A]_vars
  <2> SUFFICES ASSUME Next, NEW p \in Paths, ~serving, acked[p], \A j \in journals : j.path = p => ~j.left
               PROVE  tree'[p] = tree[p] \/ \E i \in Foreign : External(p, i)
    BY <1>1
  <2>1. CASE \E j \in journals : Recover(j)
    <3>1. PICK j \in journals : Recover(j)
      BY <2>1
    <3>2. tree'[p] # tree[p] => p = j.path /\ j.whole /\ tree[p] # j.pre /\ tree[p] = j.post
      BY <1>1, <3>1, RecoverEffect
    <3>3. j.path = p /\ j.whole => tree[p] = j.pre \/ tree[p] # j.post
      BY <1>1 DEF IInv, JournalInv
    <3> QED BY <3>2, <3>3
  <2>2. CASE \E q \in Paths, i \in Foreign : External(q, i)
    BY <1>1, <2>2 DEF External, Shape, FileShape
  <2>3. CASE Serve
    BY <2>3 DEF Serve
  <2>4. ~Operation /\ ~Literal
    BY DEF Operation, Literal, applyCreateFile, applyReplaceFile, applyDeleteFile, applyMoveFile, applyCopyFile,
           editRange, applyLiteral, Ready, At
  <2>5. ~Step
    BY DEF Step, NextHit, Validate, Inspect, Destination, WriteJournal, EnsureCurrent, Write, ClearJournal,
           RefreshEdited, FinishOperations, Answer, FormatFile, At
  <2>6. ~Observe /\ ~Crash
    BY DEF Observe, PublishSnapshot, PrimeDocuments, RefreshKnownDocuments, SyncEpoch, Snapshot, InspectPath,
           StartReader, Crash
  <2> QED BY <2>1, <2>2, <2>3, <2>4, <2>5, <2>6 DEF Next, Environment
<1>2. [][A]_vars <=> AckedStays
  BY PTL DEF AckedStays
<1> QED BY <1>1, <1>2, EditInvariant, PTL DEF Spec

-----------------------------------------------------------------------------
(* The state sequence. *)
MemFields == {"seq", "epoch", "cache", "history", "superseded", "retained", "primed", "known"}
MemShape(m) == DOMAIN m = MemFields /\ m.seq \in Nat /\ DOMAIN m.cache = Paths

(* The same sequence and the same observations. *)
SameSeen(m, n) == DOMAIN n = MemFields /\ n.seq = m.seq /\ n.cache = m.cache

(* The revision records are apart from what was observed. *)
LEMMA SupersededApart ==
  ASSUME NEW m, DOMAIN m = MemFields, NEW x
  PROVE  SameSeen(m, [m EXCEPT !.superseded = x])
BY DEF SameSeen, MemFields

LEMMA RetainedApart ==
  ASSUME NEW m, DOMAIN m = MemFields, NEW y
  PROVE  SameSeen(m, [m EXCEPT !.retained = y])
BY DEF SameSeen, MemFields

LEMMA EvictionApart ==
  ASSUME NEW m, DOMAIN m = MemFields, NEW x, NEW y, NEW z
  PROVE  SameSeen(m, [m EXCEPT !.superseded = x, !.retained = y, !.history = z])
BY DEF SameSeen, MemFields

LEMMA HistoryApart ==
  ASSUME NEW m, DOMAIN m = MemFields, NEW p, NEW x, NEW y
  PROVE  /\ SameSeen(m, [m EXCEPT !.history[p] = x])
         /\ SameSeen(m, [m EXCEPT !.retained = y, !.history[p] = x])
BY DEF SameSeen, MemFields

(* Retiring, reviving and evicting revisions is not observing anything
   (revision_budget.go). *)
LEMMA RetireApart ==
  ASSUME NEW m, DOMAIN m = MemFields, NEW p, NEW r
  PROVE  SameSeen(m, Retire(m, p, r))
<1>1. PICK x : x = Append(m.superseded, <<p, r>>)
  OBVIOUS
<1>2. SameSeen(m, m)
  BY DEF SameSeen
<1>3. SameSeen(m, [m EXCEPT !.superseded = x])
  BY SupersededApart
<1> QED BY <1>1, <1>2, <1>3 DEF Retire

LEMMA ReviveApart ==
  ASSUME NEW m, DOMAIN m = MemFields, NEW p, NEW r
  PROVE  SameSeen(m, Revive(m, p, r))
<1>1. PICK x : x = Without(m.superseded, <<p, r>>)
  OBVIOUS
<1>2. Revive(m, p, r) = [m EXCEPT !.superseded = x]
  BY <1>1 DEF Revive
<1>3. SameSeen(m, [m EXCEPT !.superseded = x])
  BY SupersededApart
<1> QED BY <1>2, <1>3

LEMMA CapApart ==
  ASSUME NEW m, DOMAIN m = MemFields, NEW p
  PROVE  SameSeen(m, CapHistory(m, p))
<1>1. PICK o, n : o = Head(m.history[p]) /\ n = Revive(m, p, o)
  OBVIOUS
<1>2. SameSeen(m, n)
  BY <1>1, ReviveApart
<1>3. PICK x, y : x = Tail(n.history[p]) /\ y = n.retained \ {<<p, o>>}
  OBVIOUS
<1>4. SameSeen(n, [n EXCEPT !.retained = y, !.history[p] = x])
  BY <1>2, HistoryApart DEF SameSeen
<1>5. CapHistory(m, p) = m \/ CapHistory(m, p) = [n EXCEPT !.retained = y, !.history[p] = x]
  BY <1>1, <1>3 DEF CapHistory
<1> QED BY <1>2, <1>4, <1>5 DEF SameSeen

LEMMA BudgetApart ==
  ASSUME NEW m, DOMAIN m = MemFields
  PROVE  SameSeen(m, EnforceBudget(m))
<1>1. PICK x, y, z : \/ EnforceBudget(m) = m
                     \/ EnforceBudget(m) = [m EXCEPT !.superseded = x, !.retained = y, !.history = z]
  BY DEF EnforceBudget
<1>2. SameSeen(m, m)
  BY DEF SameSeen
<1>3. SameSeen(m, [m EXCEPT !.superseded = x, !.retained = y, !.history = z])
  BY EvictionApart
<1> QED BY <1>1, <1>2, <1>3

LEMMA RememberApart ==
  ASSUME NEW m, DOMAIN m = MemFields, NEW p, NEW r
  PROVE  SameSeen(m, Remember(m, p, r))
<1>1. PICK h, retired : /\ h = m.history[p]
                        /\ retired = IF h # <<>> /\ h[Len(h)] # r THEN Retire(m, p, h[Len(h)]) ELSE m
  OBVIOUS
<1>2. SameSeen(m, retired)
  BY <1>1, RetireApart DEF SameSeen
<1>3. PICK revived : revived = Revive(retired, p, r)
  OBVIOUS
<1>4. SameSeen(m, revived)
  BY <1>2, <1>3, ReviveApart DEF SameSeen
<1>5. PICK x, appended : x = Append(Without(revived.history[p], r), r) /\ appended = [revived EXCEPT !.history[p] = x]
  OBVIOUS
<1>6. SameSeen(m, appended)
  BY <1>4, <1>5, HistoryApart DEF SameSeen
<1>7. PICK capped : capped = CapHistory(appended, p)
  OBVIOUS
<1>8. SameSeen(m, capped)
  BY <1>6, <1>7, CapApart DEF SameSeen
<1>9. PICK y, kept : y = capped.retained \cup {<<p, r>>} /\ kept = [capped EXCEPT !.retained = y]
  OBVIOUS
<1>10. SameSeen(m, kept)
  BY <1>8, <1>9, RetainedApart DEF SameSeen
<1>11. SameSeen(m, EnforceBudget(kept))
  BY <1>10, BudgetApart DEF SameSeen
<1>12. Remember(m, p, r) = EnforceBudget(kept)
  BY <1>1, <1>3, <1>5, <1>7, <1>9 DEF Remember
<1> QED BY <1>11, <1>12

(* What a publication does to the observations and the sequence (snapshot). *)
Published(m, n, p, image) ==
  /\ n.seq = IF m.cache[p] \notin {Unseen, image} THEN m.seq + 1 ELSE m.seq
  /\ \A q \in Paths : n.cache[q] = IF q = p THEN image ELSE m.cache[q]

LEMMA PublishEffect ==
  ASSUME NEW m, MemShape(m), NEW p, NEW image
  PROVE  MemShape(Publish(m, p, image)) /\ Published(m, Publish(m, p, image), p, image)
<1>1. PICK seen : seen = [m EXCEPT !.seq = IF m.cache[p] \notin {Unseen, image} THEN @ + 1 ELSE @, !.cache[p] = image]
  OBVIOUS
<1>2. /\ DOMAIN seen = MemFields /\ DOMAIN seen.cache = Paths
      /\ seen.seq = IF m.cache[p] \notin {Unseen, image} THEN m.seq + 1 ELSE m.seq
      /\ \A q \in Paths : seen.cache[q] = IF q = p THEN image ELSE m.cache[q]
  BY <1>1 DEF MemShape, MemFields
<1>3. PICK r : r = revisionFor(seen, image)
  OBVIOUS
<1>4. Publish(m, p, image) = Remember(seen, p, r)
  BY <1>1, <1>3 DEF Publish
<1>5. SameSeen(seen, Publish(m, p, image))
  BY <1>2, <1>4, RememberApart
<1> QED BY <1>2, <1>5 DEF SameSeen, MemShape, Published

(* What is recorded moves only with the sequence. *)
Counted(m, n) ==
  \A p \in Paths : m.cache[p] # Unseen /\ n.cache[p] \notin {Unseen, m.cache[p]} => n.seq > m.seq

(* The snapshot beside the call is of some path. *)
ReaderShape ==
  /\ DOMAIN reader = {"todo", "at", "image"}
  /\ reader.todo \subseteq Paths /\ reader.at \in Paths \cup {NoOne}

(* What a step may do to what the workspace remembers. *)
MemStep ==
  \/ mem' = mem
  \/ \E p \in Paths : \E image : mem' = Publish(mem, p, image)
  \/ \E p, q \in Paths : mem' = Publish(Publish(mem, p, tree[p]), q, tree[q])
  \/ \E current : mem' = Inventory(mem, current)
  \/ mem' = SyncProviderEpoch(mem)
  \/ mem' = [NewMemory EXCEPT !.seq = mem.seq]

LEMMA OnlyMemSteps ==
  ASSUME Shape, ReaderShape, [Next]_vars
  PROVE  MemStep
<1>1. CASE Operation
  BY <1>1 DEF Operation, applyCreateFile, applyReplaceFile, applyDeleteFile, applyMoveFile, applyCopyFile, editRange,
              MemStep
<1>2. CASE Literal
  BY <1>2 DEF Literal, applyLiteral, MemStep
<1>3. CASE NextHit
  <2>1. PICK h \in NextHits : mem' = Publish(mem, h[1], tree[h[1]])
    BY <1>3 DEF NextHit
  <2>2. h[1] \in Paths
    BY <2>1 DEF NextHits, Shape, CallShape
  <2> QED BY <2>1, <2>2 DEF MemStep
<1>4. CASE Validate \/ Destination \/ \E p \in Paths : FormatFile(p)
  BY <1>4 DEF Validate, Destination, FormatFile, MemStep, Shape, CallShape
<1>5. CASE RefreshEdited
  BY <1>5 DEF RefreshEdited, MemStep, Shape, CallShape
<1>6. CASE Inspect \/ WriteJournal \/ EnsureCurrent \/ Write \/ ClearJournal \/ FinishOperations \/ Answer
  BY <1>6 DEF Inspect, WriteJournal, EnsureCurrent, Write, ClearJournal, FinishOperations, Answer, MemStep
<1>7. CASE PublishSnapshot
  BY <1>7 DEF PublishSnapshot, ReaderShape, MemStep
<1>8. CASE Observe /\ ~PublishSnapshot
  BY <1>8 DEF Observe, PrimeDocuments, RefreshKnownDocuments, SyncEpoch, Snapshot, InspectPath, StartReader, MemStep
<1>9. CASE Environment
  BY <1>9 DEF Environment, Crash, Serve, Recover, External, MemStep
<1>10. CASE UNCHANGED vars
  BY <1>10 DEF vars, MemStep
<1> QED BY <1>1, <1>2, <1>3, <1>4, <1>5, <1>6, <1>7, <1>8, <1>9, <1>10 DEF Next, Step

(* Readers inspect paths of the workspace. *)
LEMMA ReaderStays ==
  ASSUME ReaderShape, [Next]_vars
  PROVE  ReaderShape'
<1>1. CASE Operation
  BY <1>1 DEF Operation, applyCreateFile, applyReplaceFile, applyDeleteFile, applyMoveFile, applyCopyFile, editRange,
              ReaderShape
<1>2. CASE Literal
  BY <1>2 DEF Literal, applyLiteral, ReaderShape
<1>3. CASE Step
  BY <1>3 DEF Step, NextHit, Validate, Inspect, Destination, WriteJournal, EnsureCurrent, Write, ClearJournal,
              RefreshEdited, FinishOperations, Answer, FormatFile, ReaderShape
<1>4. CASE Observe
  <2>1. CASE PublishSnapshot
    BY <2>1 DEF PublishSnapshot, ReaderShape
  <2>2. ASSUME NEW todo \in SUBSET Paths, StartReader(todo) PROVE ReaderShape'
    BY <2>2 DEF StartReader, NoReader, ReaderShape
  <2>3. CASE PrimeDocuments \/ RefreshKnownDocuments \/ \E p \in Paths : Snapshot(p)
    <3>1. \E todo \in SUBSET Paths : StartReader(todo)
      BY <2>3 DEF PrimeDocuments, RefreshKnownDocuments, Snapshot
    <3> QED BY <2>2, <3>1
  <2>4. CASE SyncEpoch
    BY <2>4 DEF SyncEpoch, ReaderShape
  <2>5. ASSUME NEW p \in Paths, InspectPath(p) PROVE ReaderShape'
    BY <2>5 DEF InspectPath, ReaderShape
  <2> QED BY <1>4, <2>1, <2>3, <2>4, <2>5 DEF Observe
<1>5. CASE Environment
  BY <1>5 DEF Environment, Crash, Serve, Recover, External, NoReader, ReaderShape
<1>6. CASE UNCHANGED vars
  BY <1>6 DEF vars, ReaderShape
<1> QED BY <1>1, <1>2, <1>3, <1>4, <1>5, <1>6 DEF Next

LEMMA ReaderInvariant == Spec => []ReaderShape
<1>1. Init => ReaderShape
  BY DEF Init, NoReader, ReaderShape
<1>2. ReaderShape /\ [Next]_vars => ReaderShape'
  BY ReaderStays
<1> QED BY <1>1, <1>2, PTL DEF Spec

LEMMA MemStepCounts ==
  ASSUME MemShape(mem), MemStep
  PROVE  MemShape(mem') /\ Counted(mem, mem')
<1>1. CASE mem' = mem
  BY <1>1 DEF Counted
<1>2. ASSUME NEW p \in Paths, NEW image, mem' = Publish(mem, p, image) PROVE MemShape(mem') /\ Counted(mem, mem')
  BY <1>2, PublishEffect DEF Published, Counted, MemShape
<1>3. ASSUME NEW p \in Paths, NEW q \in Paths, mem' = Publish(Publish(mem, p, tree[p]), q, tree[q])
      PROVE  MemShape(mem') /\ Counted(mem, mem')
  <2>1. PICK n : n = Publish(mem, p, tree[p])
    OBVIOUS
  <2>2. MemShape(n) /\ Published(mem, n, p, tree[p])
    BY <2>1, PublishEffect
  <2>3. MemShape(mem') /\ Published(n, mem', q, tree[q])
    BY <1>3, <2>1, <2>2, PublishEffect
  <2> QED BY <2>2, <2>3 DEF Published, Counted, MemShape
<1>4. ASSUME NEW current, mem' = Inventory(mem, current) PROVE MemShape(mem') /\ Counted(mem, mem')
  BY <1>4 DEF Inventory, MemShape, MemFields, Counted
<1>5. CASE mem' = SyncProviderEpoch(mem)
  BY <1>5 DEF SyncProviderEpoch, MemShape, MemFields, Counted
<1>6. CASE mem' = [NewMemory EXCEPT !.seq = mem.seq]
  BY <1>6 DEF NewMemory, MemShape, MemFields, Counted
<1> QED BY <1>1, <1>2, <1>3, <1>4, <1>5, <1>6 DEF MemStep

(* A workspace revision names one content: nothing recorded of a path changes without
   the state sequence, whichever snapshots overlap (snapshot). *)
THEOREM SequenceNamesContent == Spec => SeqNamesContent
<1> DEFINE A == \A p \in Paths : mem.cache[p] # Unseen /\ mem'.cache[p] \notin {Unseen, mem.cache[p]}
                                   => mem'.seq > mem.seq
<1>1. Init => MemShape(mem)
  BY DEF Init, NewMemory, MemShape, MemFields
<1>2. Shape /\ ReaderShape /\ MemShape(mem) /\ [Next]_vars => MemShape(mem)' /\ Counted(mem, mem')
  BY OnlyMemSteps, MemStepCounts
<1>3. Counted(mem, mem') => [A]_vars
  BY DEF Counted
<1>4. [][A]_vars <=> SeqNamesContent
  BY PTL DEF SeqNamesContent
<1>5. Shape /\ ReaderShape /\ MemShape(mem) /\ [Next]_vars => [A]_vars
  BY <1>2, <1>3
<1>6. Shape /\ ReaderShape /\ MemShape(mem) /\ [Next]_vars => MemShape(mem)'
  BY <1>2
<1> QED BY <1>1, <1>4, <1>5, <1>6, EditInvariant, ReaderInvariant, PTL DEF Spec

-----------------------------------------------------------------------------
(* Lists of revisions. *)
(* Records that are listed once, and the newest of them. *)
Listed(s) == s \in Seq(Elems(s)) /\ \A i, j \in DOMAIN s : s[i] = s[j] => i = j
Newest(s) == s[Len(s)]

(* The positions of a list, and its newest entry. *)
LEMMA ListBounds ==
  ASSUME NEW s, Listed(s)
  PROVE  /\ Len(s) \in Nat /\ DOMAIN s = 1..Len(s) /\ s = [i \in 1..Len(s) |-> s[i]]
         /\ (s = <<>> <=> Len(s) = 0)
         /\ s # <<>> => Newest(s) \in Elems(s)
<1>1. s \in Seq(Elems(s))
  BY DEF Listed
<1>2. Len(s) \in Nat /\ DOMAIN s = 1..Len(s) /\ s = [i \in 1..Len(s) |-> s[i]] /\ (s = <<>> <=> Len(s) = 0)
  <2> DEFINE E == Elems(s)
  <2> HIDE DEF E
  <2>1. s \in Seq(E)
    BY <1>1 DEF E
  <2> QED BY <2>1
<1>3. s # <<>> => Len(s) \in DOMAIN s
  BY <1>2
<1> QED BY <1>2, <1>3 DEF Newest, Elems

(* A function on 1..n that takes no value twice is a list. *)
LEMMA ListOf ==
  ASSUME NEW n \in Nat, NEW s, DOMAIN s = 1..n, s = [i \in 1..n |-> s[i]],
         \A i, j \in 1..n : s[i] = s[j] => i = j
  PROVE  Listed(s) /\ Len(s) = n
<1>1. \A i \in 1..n : s[i] \in Elems(s)
  BY DEF Elems
<1>2. s \in Seq(Elems(s)) /\ Len(s) = n
  <2> DEFINE E == Elems(s)
  <2> HIDE DEF E
  <2>1. [i \in 1..n |-> s[i]] \in Seq(E) /\ Len([i \in 1..n |-> s[i]]) = n
    BY <1>1 DEF E
  <2> QED BY <2>1 DEF E
<1> QED BY <1>2 DEF Listed

(* A new entry becomes the newest. *)
LEMMA Appended ==
  ASSUME NEW s, Listed(s), NEW x, x \notin Elems(s)
  PROVE  /\ Listed(Append(s, x)) /\ Elems(Append(s, x)) = Elems(s) \cup {x}
         /\ Len(Append(s, x)) = Len(s) + 1 /\ Newest(Append(s, x)) = x
<1>1. PICK t, n : t = Append(s, x) /\ n = Len(s)
  OBVIOUS
<1>2. n \in Nat /\ DOMAIN s = 1..n
  BY <1>1, ListBounds
<1>3. DOMAIN t = 1..(n + 1) /\ (\A i \in 1..n : t[i] = s[i]) /\ t[n + 1] = x
      /\ t = [i \in 1..(n + 1) |-> t[i]]
  <2> DEFINE E == Elems(s) \cup {x}
  <2>1. s \in Seq(E) /\ x \in E
    BY <1>2, ListBounds DEF Listed
  <2> HIDE DEF E
  <2>2. t \in Seq(E) /\ Len(t) = n + 1
    BY <1>1, <2>1
  <2>3. DOMAIN t = 1..(n + 1) /\ t = [i \in 1..(n + 1) |-> t[i]]
    BY <2>2
  <2>4. t[n + 1] = x
    BY <1>1, <1>2, <2>1
  <2>5. \A i \in 1..n : t[i] = s[i]
    BY <1>1, <1>2, <2>1
  <2> QED BY <2>3, <2>4, <2>5
<1>4. ASSUME NEW i \in 1..(n + 1), NEW j \in 1..(n + 1), t[i] = t[j] PROVE i = j
  <2>1. \A k \in 1..n : s[k] # x
    BY <1>2 DEF Elems
  <2>2. (i \in 1..n \/ i = n + 1) /\ (j \in 1..n \/ j = n + 1)
    BY <1>2
  <2>3. \A k, l \in 1..n : s[k] = s[l] => k = l
    BY <1>2 DEF Listed
  <2> QED BY <1>3, <1>4, <2>1, <2>2, <2>3
<1>5. Listed(t) /\ Len(t) = n + 1
  BY <1>2, <1>3, <1>4, ListOf
<1>6. Elems(t) = Elems(s) \cup {x}
  <2>1. \A i \in 1..(n + 1) : i \in 1..n \/ i = n + 1
    BY <1>2
  <2>2. \A i \in 1..n : i \in 1..(n + 1)
    BY <1>2
  <2>3. n + 1 \in 1..(n + 1)
    BY <1>2
  <2> QED BY <1>2, <1>3, <2>1, <2>2, <2>3 DEF Elems
<1> QED BY <1>1, <1>3, <1>5, <1>6 DEF Newest

(* Without its oldest entry a list keeps its newest one. *)
LEMMA TailOf ==
  ASSUME NEW s, Listed(s), s # <<>>
  PROVE  /\ Listed(Tail(s)) /\ Elems(Tail(s)) = Elems(s) \ {Head(s)} /\ Head(s) \in Elems(s)
         /\ Len(Tail(s)) = Len(s) - 1 /\ (Len(s) > 1 => Newest(Tail(s)) = Newest(s))
         /\ Len(s) > 1 => Newest(s) # Head(s)
<1>1. PICK t, n : t = Tail(s) /\ n = Len(s)
  OBVIOUS
<1>2. n \in Nat \ {0} /\ DOMAIN s = 1..n
  BY <1>1, ListBounds
<1>3. DOMAIN t = 1..(n - 1) /\ (\A i \in 1..(n - 1) : t[i] = s[i + 1]) /\ t = [i \in 1..(n - 1) |-> t[i]]
      /\ Head(s) = s[1]
  <2> DEFINE E == Elems(s)
  <2>1. s \in Seq(E)
    BY DEF Listed
  <2> HIDE DEF E
  <2>2. t \in Seq(E) /\ Len(t) = n - 1
    BY <1>1, <1>2, <2>1
  <2>3. DOMAIN t = 1..(n - 1) /\ t = [i \in 1..(n - 1) |-> t[i]]
    BY <2>2
  <2>4. \A i \in 1..(n - 1) : t[i] = s[i + 1]
    BY <1>1, <1>2, <2>1
  <2>5. Head(s) = s[1]
    BY <2>1
  <2> QED BY <2>3, <2>4, <2>5
<1>4. \A k, l \in 1..n : s[k] = s[l] => k = l
  BY <1>2 DEF Listed
<1>5. ASSUME NEW i \in 1..(n - 1), NEW j \in 1..(n - 1), t[i] = t[j] PROVE i = j
  <2>1. i + 1 \in 1..n /\ j + 1 \in 1..n
    BY <1>2
  <2> QED BY <1>3, <1>4, <1>5, <2>1
<1>6. Listed(t) /\ Len(t) = n - 1
  <2>1. n - 1 \in Nat
    BY <1>2
  <2> QED BY <1>3, <1>5, <2>1, ListOf
<1>7. 1 \in 1..n /\ n \in 1..n
  BY <1>2
<1>8. Elems(t) = Elems(s) \ {s[1]}
  <2>1. ASSUME NEW x \in Elems(t) PROVE x \in Elems(s) \ {s[1]}
    <3>1. PICK i \in 1..(n - 1) : x = t[i]
      BY <1>3 DEF Elems
    <3>2. i + 1 \in 1..n /\ i + 1 # 1
      BY <1>2
    <3> QED BY <1>2, <1>3, <1>4, <1>7, <3>1, <3>2 DEF Elems
  <2>2. ASSUME NEW x \in Elems(s) \ {s[1]} PROVE x \in Elems(t)
    <3>1. PICK i \in 1..n : x = s[i] /\ i # 1
      BY <1>2 DEF Elems
    <3>2. i - 1 \in 1..(n - 1) /\ (i - 1) + 1 = i
      BY <1>2, <3>1
    <3> QED BY <1>3, <3>1, <3>2 DEF Elems
  <2> QED BY <2>1, <2>2
<1>9. n > 1 => t[n - 1] = s[n] /\ s[n] # s[1]
  <2>1. n > 1 => n - 1 \in 1..(n - 1) /\ (n - 1) + 1 = n /\ n # 1
    BY <1>2
  <2> QED BY <1>3, <1>4, <1>7, <2>1
<1>10. s[1] \in Elems(s)
  BY <1>2, <1>7 DEF Elems
<1>11. n > 1 => Newest(t) = Newest(s) /\ Newest(s) # s[1]
  BY <1>1, <1>6, <1>9 DEF Newest
<1> QED BY <1>1, <1>3, <1>6, <1>8, <1>10, <1>11

(* So it does without any entry but the newest. *)
LEMMA Removed ==
  ASSUME NEW s, Listed(s), NEW x
  PROVE  /\ Listed(Without(s, x)) /\ Elems(Without(s, x)) = Elems(s) \ {x}
         /\ Len(Without(s, x)) = IF x \in Elems(s) THEN Len(s) - 1 ELSE Len(s)
         /\ s # <<>> /\ Newest(s) # x => Without(s, x) # <<>> /\ Newest(Without(s, x)) = Newest(s)
<1>1. CASE x \notin Elems(s)
  BY <1>1 DEF Without
<1>2. CASE x \in Elems(s)
  <2>1. PICK t, n : t = Without(s, x) /\ n = Len(s)
    OBVIOUS
  <2>2. n \in Nat /\ DOMAIN s = 1..n
    BY <2>1, ListBounds
  <2>3. PICK k \in 1..n : s[k] = x
    BY <1>2, <2>2 DEF Elems
  <2>4. \A i, j \in 1..n : s[i] = s[j] => i = j
    BY <2>2 DEF Listed
  <2>5. t = [i \in 1..(n - 1) |-> IF x \in {s[j] : j \in 1..i} THEN s[i + 1] ELSE s[i]]
    BY <1>2, <2>1 DEF Without
  <2>6. ASSUME NEW i \in 1..(n - 1) PROVE t[i] = IF k <= i THEN s[i + 1] ELSE s[i]
    <3>1. \A j \in 1..i : j \in 1..n
      BY <2>2
    <3>2. x \in {s[j] : j \in 1..i} <=> k \in 1..i
      BY <2>3, <2>4, <3>1
    <3>3. k \in 1..i <=> k <= i
      BY <2>2
    <3> QED BY <2>5, <3>2, <3>3
  <2>7. DOMAIN t = 1..(n - 1) /\ t = [i \in 1..(n - 1) |-> t[i]] /\ n - 1 \in Nat
    BY <2>2, <2>3, <2>5
  <2>8. ASSUME NEW i \in 1..(n - 1), NEW j \in 1..(n - 1), t[i] = t[j] PROVE i = j
    <3>1. i \in 1..n /\ j \in 1..n /\ i + 1 \in 1..n /\ j + 1 \in 1..n
      BY <2>2
    <3>2. PICK a, b : /\ a = (IF k <= i THEN i + 1 ELSE i) /\ b = (IF k <= j THEN j + 1 ELSE j)
      OBVIOUS
    <3>3. a \in 1..n /\ b \in 1..n /\ t[i] = s[a] /\ t[j] = s[b]
      BY <2>6, <3>1, <3>2
    <3>4. a = b
      BY <2>4, <2>8, <3>3
    <3> QED BY <2>2, <3>1, <3>2, <3>4
  <2>9. Listed(t) /\ Len(t) = n - 1
    BY <2>7, <2>8, ListOf
  <2>10. Elems(t) = Elems(s) \ {x}
    <3>1. ASSUME NEW y \in Elems(t) PROVE y \in Elems(s) \ {x}
      <4>1. PICK i \in 1..(n - 1) : y = t[i]
        BY <2>7 DEF Elems
      <4>2. PICK a : a = IF k <= i THEN i + 1 ELSE i
        OBVIOUS
      <4>3. a \in 1..n /\ a # k /\ y = s[a]
        BY <2>2, <2>6, <4>1, <4>2
      <4>4. y # x
        BY <2>3, <2>4, <4>3
      <4> QED BY <2>2, <4>3, <4>4 DEF Elems
    <3>2. ASSUME NEW y \in Elems(s) \ {x} PROVE y \in Elems(t)
      <4>1. PICK i \in 1..n : y = s[i] /\ i # k
        BY <2>2, <2>3 DEF Elems
      <4>2. PICK a : a = IF k < i THEN i - 1 ELSE i
        OBVIOUS
      <4>3. a \in 1..(n - 1) /\ (k <= a => a + 1 = i) /\ (~(k <= a) => a = i)
        BY <2>2, <4>1, <4>2
      <4>4. t[a] = y
        BY <2>6, <4>1, <4>3
      <4> QED BY <2>7, <4>3, <4>4 DEF Elems
    <3> QED BY <3>1, <3>2
  <2>11. ASSUME s[n] # x PROVE t # <<>> /\ t[n - 1] = s[n]
    <3>1. k < n /\ n - 1 \in 1..(n - 1) /\ k <= n - 1 /\ (n - 1) + 1 = n
      BY <2>2, <2>3, <2>11
    <3>2. t # <<>>
      BY <2>9, <3>1, ListBounds
    <3> QED BY <2>6, <3>1, <3>2
  <2> QED BY <1>2, <2>1, <2>9, <2>10, <2>11 DEF Newest
<1> QED BY <1>1, <1>2
-----------------------------------------------------------------------------
(* What the three structures that hold revisions say of each other (workspace.go,
   revision_budget.go): the retained records are those the histories list, the
   superseded ones all of these but the newest of each path. *)
Records(m) ==
  /\ DOMAIN m = MemFields /\ DOMAIN m.history = Paths
  /\ Listed(m.superseded) /\ \A p \in Paths : Listed(m.history[p])
  /\ \A e \in m.retained \cup Elems(m.superseded) : \E p \in Paths : \E x : e = <<p, x>>
Agrees(m, p) ==
  \A x : /\ <<p, x>> \in m.retained <=> x \in Elems(m.history[p])
         /\ <<p, x>> \in Elems(m.superseded) <=> x \in Elems(m.history[p]) /\ x # Newest(m.history[p])
Kept(m, n) == Records(m) /\ (\A p \in Paths : Agrees(m, p)) /\ Len(m.superseded) <= n

(* The same while r becomes the newest of p. *)
AgreesBut(m, p, r) ==
  \A x : x # r =>
    /\ <<p, x>> \in m.retained <=> x \in Elems(m.history[p])
    /\ <<p, x>> \in Elems(m.superseded) <=> x \in Elems(m.history[p])
Becoming(m, p, r) ==
  /\ Records(m) /\ (\A q \in Paths \ {p} : Agrees(m, q)) /\ Len(m.superseded) <= MaxSuperseded + 1
  /\ AgreesBut(m, p, r)
  /\ <<p, r>> \notin Elems(m.superseded)
Became(m, p, r) == Becoming(m, p, r) /\ m.history[p] # <<>> /\ Newest(m.history[p]) = r
                   /\ r \in Elems(m.history[p])

(* The paths of which nothing was forgotten but old revisions. *)
Newer(s, t) == s # <<>> => t # <<>> /\ Newest(t) = Newest(s)
OthersKeep(m, n, p) == \A q \in Paths \ {p} : Newer(m.history[q], n.history[q])

Retired(m, p, r) ==
  IF m.history[p] # <<>> /\ Newest(m.history[p]) # r THEN Retire(m, p, Newest(m.history[p])) ELSE m

(* The revision that was the newest becomes evictable, the one observed now does not
   (retireRevisionLocked, reviveRevisionLocked). *)
LEMMA RetireReviveKeep ==
  ASSUME NEW m, Kept(m, MaxSuperseded), NEW p \in Paths, NEW r, NEW retired, retired = Retired(m, p, r)
  PROVE  Becoming(Revive(retired, p, r), p, r) /\ Revive(retired, p, r).history = m.history
<1>1. PICK h, last : h = m.history[p] /\ last = Newest(h)
  OBVIOUS
<1>2. Records(m) /\ Agrees(m, p) /\ Len(m.superseded) <= MaxSuperseded /\ Listed(h) /\ Listed(m.superseded)
  BY <1>1 DEF Kept, Records
<1>3. MaxSuperseded \in Nat /\ Len(m.superseded) \in Nat
  BY <1>2, HistoryAssumption, ListBounds
<1>4. PICK s : s = IF h # <<>> /\ last # r THEN Append(m.superseded, <<p, last>>) ELSE m.superseded
  OBVIOUS
<1>5. retired = m \/ retired = [m EXCEPT !.superseded = s]
  BY <1>1, <1>4 DEF Retired, Retire
<1>6. h # <<>> /\ last # r => <<p, last>> \in m.retained /\ <<p, last>> \notin Elems(m.superseded)
  BY <1>1, <1>2, ListBounds DEF Agrees
<1>7. DOMAIN retired = MemFields /\ retired.superseded = s /\ retired.history = m.history
      /\ retired.retained = m.retained
  BY <1>1, <1>2, <1>4, <1>5, <1>6 DEF Retired, Retire, Records, MemFields
<1>8. Listed(s) /\ Len(s) <= MaxSuperseded + 1
      /\ Elems(s) = IF h # <<>> /\ last # r THEN Elems(m.superseded) \cup {<<p, last>>} ELSE Elems(m.superseded)
  <2>1. CASE h # <<>> /\ last # r
    <3>1. s = Append(m.superseded, <<p, last>>) /\ <<p, last>> \notin Elems(m.superseded)
      BY <1>4, <1>6, <2>1
    <3>2. Listed(s) /\ Elems(s) = Elems(m.superseded) \cup {<<p, last>>} /\ Len(s) = Len(m.superseded) + 1
      BY <1>2, <3>1, Appended
    <3> QED BY <1>2, <1>3, <2>1, <3>2
  <2>2. CASE ~(h # <<>> /\ last # r)
    BY <1>2, <1>3, <1>4, <2>2
  <2> QED BY <2>1, <2>2
<1>9. PICK t, n : t = Without(s, <<p, r>>) /\ n = Revive(retired, p, r)
  OBVIOUS
<1>10. Listed(t) /\ Elems(t) = Elems(s) \ {<<p, r>>} /\ Len(t) <= MaxSuperseded + 1
  <2>1. Listed(t) /\ Elems(t) = Elems(s) \ {<<p, r>>} /\ (Len(t) = Len(s) - 1 \/ Len(t) = Len(s))
    BY <1>8, <1>9, Removed
  <2>2. Len(s) \in Nat
    BY <1>8, ListBounds
  <2> QED BY <1>3, <1>8, <2>1, <2>2
<1>11. DOMAIN n = MemFields /\ n.superseded = t /\ n.history = m.history /\ n.retained = m.retained
  BY <1>7, <1>9 DEF Revive, MemFields
<1>12. Records(n)
  BY <1>2, <1>8, <1>10, <1>11 DEF Records
<1>13. ASSUME NEW q \in Paths \ {p} PROVE Agrees(n, q)
  <2>1. Agrees(m, q)
    BY DEF Kept
  <2>2. \A x : <<q, x>> \in Elems(t) <=> <<q, x>> \in Elems(m.superseded)
    BY <1>8, <1>10
  <2> QED BY <1>11, <2>1, <2>2 DEF Agrees
<1>14. ASSUME NEW x, x # r
       PROVE  /\ <<p, x>> \in n.retained <=> x \in Elems(n.history[p])
              /\ <<p, x>> \in Elems(n.superseded) <=> x \in Elems(n.history[p])
  <2>1. <<p, x>> \in Elems(t) <=> <<p, x>> \in Elems(m.superseded) \/ (h # <<>> /\ last # r /\ x = last)
    BY <1>8, <1>10, <1>14
  <2>2. <<p, x>> \in Elems(m.superseded) <=> x \in Elems(h) /\ x # last
    BY <1>1, <1>2 DEF Agrees
  <2>3. <<p, x>> \in m.retained <=> x \in Elems(h)
    BY <1>1, <1>2 DEF Agrees
  <2>4. h # <<>> => last \in Elems(h)
    BY <1>1, <1>2, ListBounds
  <2>5. h = <<>> => x \notin Elems(h)
    BY DEF Elems
  <2> QED BY <1>1, <1>11, <1>14, <2>1, <2>2, <2>3, <2>4, <2>5
<1> QED BY <1>9, <1>10, <1>11, <1>12, <1>13, <1>14 DEF Becoming, AgreesBut

(* It is moved to the end of its history. *)
LEMMA NewestAppended ==
  ASSUME NEW m, NEW p \in Paths, NEW r, Becoming(m, p, r),
         NEW n, n = [m EXCEPT !.history[p] = Append(Without(@, r), r)]
  PROVE  Became(n, p, r) /\ OthersKeep(m, n, p)
<1>1. PICK h, t : h = m.history[p] /\ t = Append(Without(h, r), r)
  OBVIOUS
<1>2. Records(m) /\ Listed(h)
  BY <1>1 DEF Becoming, Records
<1>3. Listed(Without(h, r)) /\ Elems(Without(h, r)) = Elems(h) \ {r}
  BY <1>2, Removed
<1>4. Listed(t) /\ Elems(t) = Elems(h) \cup {r} /\ Newest(t) = r
  BY <1>1, <1>3, Appended
<1>5. t # <<>>
  BY <1>4 DEF Elems
<1>6. /\ DOMAIN n = MemFields /\ DOMAIN n.history = Paths /\ n.history[p] = t
      /\ (\A q \in Paths \ {p} : n.history[q] = m.history[q])
      /\ n.superseded = m.superseded /\ n.retained = m.retained
  BY <1>1, <1>2 DEF Records, MemFields
<1>7. Records(n)
  <2>1. \A q \in Paths : Listed(n.history[q])
    BY <1>2, <1>4, <1>6 DEF Records
  <2> QED BY <1>2, <1>6, <2>1 DEF Records
<1>8. \A q \in Paths \ {p} : Agrees(n, q)
  BY <1>6 DEF Becoming, Agrees
<1>9. AgreesBut(n, p, r)
  BY <1>1, <1>4, <1>6 DEF Becoming, AgreesBut
<1>10. Len(n.superseded) <= MaxSuperseded + 1 /\ <<p, r>> \notin Elems(n.superseded)
  BY <1>6 DEF Becoming
<1>11. Becoming(n, p, r)
  BY <1>7, <1>8, <1>9, <1>10 DEF Becoming
<1>12. n.history[p] # <<>> /\ Newest(n.history[p]) = r /\ r \in Elems(n.history[p])
  BY <1>4, <1>5, <1>6
<1>13. OthersKeep(m, n, p)
  BY <1>6 DEF OthersKeep, Newer
<1> QED BY <1>11, <1>12, <1>13 DEF Became

(* The history bound drops another one. *)
LEMMA CapKeeps ==
  ASSUME NEW m, NEW p \in Paths, NEW r, Became(m, p, r)
  PROVE  Became(CapHistory(m, p), p, r) /\ OthersKeep(m, CapHistory(m, p), p)
<1>1. PICK h, oldest : h = m.history[p] /\ oldest = Head(h)
  OBVIOUS
<1>2. Records(m) /\ Listed(h) /\ h # <<>> /\ Newest(h) = r /\ r \in Elems(h) /\ Listed(m.superseded)
  BY <1>1 DEF Became, Becoming, Records
<1>3. CASE Len(h) <= MaxHistory
  <2>1. CapHistory(m, p) = m
    BY <1>1, <1>3 DEF CapHistory
  <2> QED BY <2>1 DEF OthersKeep, Newer
<1>4. CASE ~(Len(h) <= MaxHistory)
  <2>1. Len(h) \in Nat /\ Len(h) > 1
    BY <1>2, <1>4, ListBounds, HistoryAssumption
  <2>2. PICK t, s, n : t = Tail(h) /\ s = Without(m.superseded, <<p, oldest>>) /\ n = CapHistory(m, p)
    OBVIOUS
  <2>3. Listed(t) /\ Elems(t) = Elems(h) \ {oldest} /\ Newest(t) = r /\ r # oldest
    BY <1>1, <1>2, <2>1, <2>2, TailOf
  <2>4. t # <<>> /\ r \in Elems(t)
    BY <1>2, <2>3 DEF Elems
  <2>5. Listed(s) /\ Elems(s) = Elems(m.superseded) \ {<<p, oldest>>} /\ Len(s) <= Len(m.superseded)
        /\ Len(s) \in Nat /\ Len(m.superseded) \in Nat
    <3>1. Listed(s) /\ Elems(s) = Elems(m.superseded) \ {<<p, oldest>>}
          /\ (Len(s) = Len(m.superseded) - 1 \/ Len(s) = Len(m.superseded))
      BY <1>2, <2>2, Removed
    <3>2. Len(s) \in Nat /\ Len(m.superseded) \in Nat
      BY <1>2, <3>1, ListBounds
    <3> QED BY <3>1, <3>2
  <2>6. PICK revived : revived = Revive(m, p, oldest)
    OBVIOUS
  <2>7. DOMAIN revived = MemFields /\ revived.superseded = s /\ revived.history = m.history
        /\ revived.retained = m.retained
    BY <1>2, <2>2, <2>6 DEF Revive, Records, MemFields
  <2>8. n = [revived EXCEPT !.retained = @ \ {<<p, oldest>>}, !.history[p] = Tail(@)]
    BY <1>1, <1>4, <2>2, <2>6 DEF CapHistory
  <2>9. /\ DOMAIN n = MemFields /\ DOMAIN n.history = Paths /\ n.history[p] = t
        /\ (\A q \in Paths \ {p} : n.history[q] = m.history[q])
        /\ n.superseded = s /\ n.retained = m.retained \ {<<p, oldest>>}
    BY <1>1, <1>2, <2>2, <2>7, <2>8 DEF Records, MemFields
  <2>10. Records(n)
    <3>1. \A q \in Paths : Listed(n.history[q])
      BY <1>2, <2>3, <2>9 DEF Records
    <3> QED BY <1>2, <2>5, <2>9, <3>1 DEF Records
  <2>11. ASSUME NEW q \in Paths \ {p} PROVE Agrees(n, q)
    <3>1. \A x : <<q, x>> # <<p, oldest>>
      OBVIOUS
    <3>2. Agrees(m, q)
      BY DEF Became, Becoming
    <3> QED BY <2>5, <2>9, <3>1, <3>2 DEF Agrees
  <2>12. ASSUME NEW x, x # r
         PROVE  /\ <<p, x>> \in n.retained <=> x \in Elems(n.history[p])
                /\ <<p, x>> \in Elems(n.superseded) <=> x \in Elems(n.history[p])
    <3>1. <<p, x>> = <<p, oldest>> <=> x = oldest
      OBVIOUS
    <3>2. /\ <<p, x>> \in m.retained <=> x \in Elems(h)
          /\ <<p, x>> \in Elems(m.superseded) <=> x \in Elems(h)
      <4>1. AgreesBut(m, p, r)
        BY DEF Became, Becoming
      <4> QED BY <1>1, <2>12, <4>1 DEF AgreesBut
    <3> QED BY <2>3, <2>5, <2>9, <3>1, <3>2
  <2>13. <<p, r>> \notin Elems(n.superseded) /\ Len(n.superseded) <= MaxSuperseded + 1
    BY <2>5, <2>9, HistoryAssumption DEF Became, Becoming
  <2> QED BY <2>2, <2>3, <2>4, <2>9, <2>10, <2>11, <2>12, <2>13 DEF Became, Becoming, AgreesBut, OthersKeep, Newer
<1> QED BY <1>3, <1>4

(* Once it is retained as well, all records agree again. *)
LEMMA RetainedKeeps ==
  ASSUME NEW m, NEW p \in Paths, NEW r, Became(m, p, r),
         NEW n, n = [m EXCEPT !.retained = @ \cup {<<p, r>>}]
  PROVE  Kept(n, MaxSuperseded + 1) /\ n.history = m.history
<1>1. Records(m) /\ Newest(m.history[p]) = r /\ r \in Elems(m.history[p])
  BY DEF Became, Becoming
<1>2. /\ DOMAIN n = MemFields /\ n.history = m.history /\ n.superseded = m.superseded
      /\ n.retained = m.retained \cup {<<p, r>>}
  BY <1>1 DEF Records, MemFields
<1>3. Records(n)
  BY <1>1, <1>2 DEF Records
<1>4. ASSUME NEW q \in Paths \ {p} PROVE Agrees(n, q)
  <2>1. \A x : <<q, x>> # <<p, r>>
    OBVIOUS
  <2>2. Agrees(m, q)
    BY DEF Became, Becoming
  <2> QED BY <1>2, <2>1, <2>2 DEF Agrees
<1>5. Agrees(n, p)
  <2>1. \A x : <<p, x>> = <<p, r>> <=> x = r
    OBVIOUS
  <2>2. AgreesBut(m, p, r) /\ <<p, r>> \notin Elems(m.superseded)
    BY DEF Became, Becoming
  <2>3. ASSUME NEW x
        PROVE  /\ <<p, x>> \in n.retained <=> x \in Elems(n.history[p])
               /\ <<p, x>> \in Elems(n.superseded) <=> x \in Elems(n.history[p]) /\ x # Newest(n.history[p])
    <3>1. CASE x = r
      BY <1>1, <1>2, <2>2, <3>1
    <3>2. CASE x # r
      BY <1>1, <1>2, <2>1, <2>2, <3>2 DEF AgreesBut
    <3> QED BY <3>1, <3>2
  <2> QED BY <2>3 DEF Agrees
<1> QED BY <1>2, <1>3, <1>4, <1>5 DEF Kept, Became, Becoming

(* The budget drops a superseded revision, from all three
   (enforceRevisionBudgetLocked). *)
LEMMA BudgetKeeps ==
  ASSUME NEW m, Kept(m, MaxSuperseded + 1)
  PROVE  /\ Kept(EnforceBudget(m), MaxSuperseded)
         /\ \A q \in Paths : Newer(m.history[q], EnforceBudget(m).history[q])
<1>1. Records(m) /\ Listed(m.superseded) /\ MaxSuperseded \in Nat
  BY HistoryAssumption DEF Kept, Records
<1>2. CASE Len(m.superseded) <= MaxSuperseded
  <2>1. EnforceBudget(m) = m
    BY <1>2 DEF EnforceBudget
  <2> QED BY <1>2, <2>1 DEF Kept, Newer
<1>3. CASE ~(Len(m.superseded) <= MaxSuperseded)
  <2>1. PICK s, oldest, n : s = Tail(m.superseded) /\ oldest = Head(m.superseded) /\ n = EnforceBudget(m)
    OBVIOUS
  <2>2. m.superseded # <<>> /\ Len(m.superseded) = MaxSuperseded + 1
    BY <1>1, <1>3, ListBounds DEF Kept
  <2>3. Listed(s) /\ Elems(s) = Elems(m.superseded) \ {oldest} /\ oldest \in Elems(m.superseded)
        /\ Len(s) = MaxSuperseded
    BY <1>1, <2>1, <2>2, TailOf
  <2>0. PICK p \in Paths : \E x : oldest = <<p, x>>
    BY <1>1, <2>3 DEF Records
  <2>4. PICK x : oldest = <<p, x>>
    BY <2>0
  <2>5. oldest[1] = p /\ oldest[2] = x
    BY <2>4
  <2>6. PICK h, t : h = m.history[p] /\ t = Without(h, x)
    OBVIOUS
  <2>7. Listed(h) /\ x \in Elems(h) /\ x # Newest(h)
    BY <1>1, <2>3, <2>4, <2>6 DEF Kept, Records, Agrees
  <2>8. h # <<>>
    BY <2>7 DEF Elems
  <2>9. Listed(t) /\ Elems(t) = Elems(h) \ {x} /\ t # <<>> /\ Newest(t) = Newest(h)
    BY <2>6, <2>7, <2>8, Removed
  <2>10. n = [m EXCEPT !.superseded = Tail(@), !.retained = @ \ {oldest}, !.history[p] = Without(@, x)]
    BY <1>3, <2>1, <2>5 DEF EnforceBudget
  <2>11. /\ DOMAIN n = MemFields /\ DOMAIN n.history = Paths /\ n.history[p] = t
         /\ (\A q \in Paths \ {p} : n.history[q] = m.history[q])
         /\ n.superseded = s /\ n.retained = m.retained \ {oldest}
    BY <1>1, <2>1, <2>6, <2>10 DEF Records, MemFields
  <2>12. Records(n)
    <3>1. \A q \in Paths : Listed(n.history[q])
      BY <1>1, <2>9, <2>11 DEF Records
    <3> QED BY <1>1, <2>3, <2>11, <3>1 DEF Records
  <2>13. ASSUME NEW q \in Paths \ {p} PROVE Agrees(n, q)
    <3>1. \A y : <<q, y>> # oldest
      BY <2>4
    <3>2. Agrees(m, q)
      BY DEF Kept
    <3> QED BY <2>3, <2>11, <3>1, <3>2 DEF Agrees
  <2>14. Agrees(n, p)
    <3>1. \A y : <<p, y>> = oldest <=> y = x
      BY <2>4
    <3>2. Agrees(m, p)
      BY DEF Kept
    <3> QED BY <2>3, <2>6, <2>9, <2>11, <3>1, <3>2 DEF Agrees
  <2>15. Kept(n, MaxSuperseded)
    BY <1>1, <2>3, <2>11, <2>12, <2>13, <2>14 DEF Kept
  <2> QED BY <2>1, <2>6, <2>9, <2>11, <2>15 DEF Newer
<1> QED BY <1>2, <1>3

(* An observation keeps the books, and only its own path gets another newest revision
   (rememberRevisionLocked). *)
LEMMA RememberKeeps ==
  ASSUME NEW m, Kept(m, MaxSuperseded), NEW p \in Paths, NEW r
  PROVE  /\ Kept(Remember(m, p, r), MaxSuperseded)
         /\ Remember(m, p, r).history[p] # <<>> /\ Newest(Remember(m, p, r).history[p]) = r
         /\ OthersKeep(m, Remember(m, p, r), p)
<1>1. PICK retired : retired = Retired(m, p, r)
  OBVIOUS
<1>2. PICK revived : revived = Revive(retired, p, r)
  OBVIOUS
<1>3. Becoming(revived, p, r) /\ revived.history = m.history
  BY <1>1, <1>2, RetireReviveKeep
<1>4. PICK appended : appended = [revived EXCEPT !.history[p] = Append(Without(@, r), r)]
  OBVIOUS
<1>5. Became(appended, p, r) /\ OthersKeep(revived, appended, p)
  BY <1>3, <1>4, NewestAppended
<1>6. PICK capped : capped = CapHistory(appended, p)
  OBVIOUS
<1>7. Became(capped, p, r) /\ OthersKeep(appended, capped, p)
  BY <1>5, <1>6, CapKeeps
<1>8. PICK kept : kept = [capped EXCEPT !.retained = @ \cup {<<p, r>>}]
  OBVIOUS
<1>9. Kept(kept, MaxSuperseded + 1) /\ kept.history = capped.history
  BY <1>7, <1>8, RetainedKeeps
<1>10. PICK n : n = EnforceBudget(kept)
  OBVIOUS
<1>11. Kept(n, MaxSuperseded) /\ \A q \in Paths : Newer(kept.history[q], n.history[q])
  BY <1>9, <1>10, BudgetKeeps
<1>12. Remember(m, p, r) = n
  BY <1>1, <1>2, <1>4, <1>6, <1>8, <1>10 DEF Remember, Retired, Newest
<1> QED BY <1>3, <1>5, <1>7, <1>9, <1>11, <1>12 DEF Became, OthersKeep, Newer

(* What was observed last is the newest revision of its path. *)
Observed(m) ==
  \A p \in Paths : m.cache[p] # Unseen => m.history[p] # <<>> /\ Newest(m.history[p]).image = m.cache[p]
MemInv(m) == MemShape(m) /\ Kept(m, MaxSuperseded) /\ Observed(m)

(* Only the records matter. *)
LEMMA SameRecords ==
  ASSUME NEW m, Kept(m, MaxSuperseded), NEW n, DOMAIN n = MemFields, n.history = m.history,
         n.superseded = m.superseded, n.retained = m.retained
  PROVE  Kept(n, MaxSuperseded)
BY DEF Kept, Records, Agrees

(* A snapshot's observation is the newest revision of its path. *)
LEMMA PublishKeeps ==
  ASSUME NEW m, MemInv(m), NEW p \in Paths, NEW image
  PROVE  MemInv(Publish(m, p, image))
<1>1. PICK n, seen : /\ n = Publish(m, p, image)
                     /\ seen = [m EXCEPT !.seq = IF m.cache[p] \notin {Unseen, image} THEN @ + 1 ELSE @,
                                         !.cache[p] = image]
  OBVIOUS
<1>2. PICK r : r = revisionFor(seen, image)
  OBVIOUS
<1>3. n = Remember(seen, p, r)
  BY <1>1, <1>2 DEF Publish
<1>4. MemShape(n) /\ Published(m, n, p, image)
  BY <1>1, PublishEffect DEF MemInv
<1>5. /\ DOMAIN seen = MemFields /\ seen.history = m.history /\ seen.superseded = m.superseded
      /\ seen.retained = m.retained
  BY <1>1 DEF MemInv, MemShape, MemFields
<1>6. Kept(seen, MaxSuperseded)
  BY <1>5, SameRecords DEF MemInv
<1>7. /\ Kept(n, MaxSuperseded) /\ n.history[p] # <<>> /\ Newest(n.history[p]) = r
      /\ \A q \in Paths \ {p} : Newer(m.history[q], n.history[q])
  BY <1>3, <1>5, <1>6, RememberKeeps DEF OthersKeep
<1>8. r.image = image
  BY <1>2 DEF revisionFor
<1>9. Observed(n)
  BY <1>4, <1>7, <1>8 DEF MemInv, Observed, Published, Newer
<1> QED BY <1>1, <1>4, <1>7, <1>9 DEF MemInv

(* A new process has observed nothing. *)
LEMMA NothingKept ==
  ASSUME NEW m, DOMAIN m = MemFields, m.cache = [p \in Paths |-> Unseen], m.history = [p \in Paths |-> <<>>],
         m.superseded = <<>>, m.retained = {}, m.seq \in Nat
  PROVE  MemInv(m)
<1>1. Listed(<<>>) /\ Elems(<<>>) = {} /\ Len(<<>>) = 0
  BY DEF Listed, Elems
<1> QED BY <1>1, HistoryAssumption DEF MemInv, MemShape, Kept, Records, Agrees, Observed

LEMMA MemStepKeeps ==
  ASSUME MemInv(mem), MemStep
  PROVE  MemInv(mem')
<1>1. CASE mem' = mem
  BY <1>1
<1>2. ASSUME NEW p \in Paths, NEW image, mem' = Publish(mem, p, image) PROVE MemInv(mem')
  BY <1>2, PublishKeeps
<1>3. ASSUME NEW p \in Paths, NEW q \in Paths, mem' = Publish(Publish(mem, p, tree[p]), q, tree[q])
      PROVE  MemInv(mem')
  <2>1. PICK n : n = Publish(mem, p, tree[p])
    OBVIOUS
  <2>2. MemInv(n)
    BY <2>1, PublishKeeps
  <2> QED BY <1>3, <2>1, <2>2, PublishKeeps
<1>4. CASE (\E current : mem' = Inventory(mem, current)) \/ mem' = SyncProviderEpoch(mem)
  <2>1. /\ DOMAIN mem' = MemFields /\ mem'.history = mem.history /\ mem'.superseded = mem.superseded
        /\ mem'.retained = mem.retained /\ mem'.cache = mem.cache /\ mem'.seq \in Nat
    <3>1. DOMAIN mem = MemFields /\ mem.seq \in Nat
      BY DEF MemInv, MemShape
    <3>2. CASE mem' = SyncProviderEpoch(mem)
      BY <3>1, <3>2 DEF SyncProviderEpoch, MemFields
    <3>3. ASSUME NEW current, mem' = Inventory(mem, current)
          PROVE  /\ DOMAIN mem' = MemFields /\ mem'.history = mem.history /\ mem'.superseded = mem.superseded
                 /\ mem'.retained = mem.retained /\ mem'.cache = mem.cache /\ mem'.seq \in Nat
      <4>1. PICK seq : /\ seq = IF mem.primed /\ mem.known # current THEN mem.seq + 1 ELSE mem.seq
                       /\ mem' = [mem EXCEPT !.seq = seq, !.known = current, !.primed = TRUE]
        BY <3>3 DEF Inventory
      <4>2. seq \in Nat
        BY <3>1, <4>1
      <4> QED BY <3>1, <4>1, <4>2 DEF MemFields
    <3> QED BY <1>4, <3>2, <3>3
  <2>2. Kept(mem', MaxSuperseded)
    BY <2>1, SameRecords DEF MemInv
  <2> QED BY <2>1, <2>2 DEF MemInv, MemShape, Observed
<1>5. CASE mem' = [NewMemory EXCEPT !.seq = mem.seq]
  <2>1. /\ DOMAIN mem' = MemFields /\ mem'.cache = [p \in Paths |-> Unseen]
        /\ mem'.history = [p \in Paths |-> <<>>] /\ mem'.superseded = <<>> /\ mem'.retained = {}
        /\ mem'.seq \in Nat
    BY <1>5 DEF NewMemory, MemInv, MemShape, MemFields
  <2> QED BY <2>1, NothingKept
<1> QED BY <1>1, <1>2, <1>3, <1>4, <1>5 DEF MemStep

(* What is kept is what Accounted states of the lists. *)
LEMMA KeptIsAccounted ==
  ASSUME NEW m, MemInv(m)
  PROVE  Accounted(m)
<1>1. Records(m) /\ \A p \in Paths : Agrees(m, p) /\ Listed(m.history[p])
  BY DEF MemInv, Kept, Records
<1>2. ASSUME NEW p \in Paths, m.cache[p] # Unseen
      PROVE  /\ m.history[p] # <<>>
             /\ m.history[p][Len(m.history[p])].image = m.cache[p]
             /\ <<p, m.history[p][Len(m.history[p])]>> \in m.retained
  <2>1. m.history[p] # <<>> /\ Newest(m.history[p]).image = m.cache[p]
    BY <1>2 DEF MemInv, Observed
  <2>2. Newest(m.history[p]) \in Elems(m.history[p])
    BY <1>1, <2>1, ListBounds
  <2> QED BY <1>1, <2>1, <2>2 DEF Agrees, Newest
<1>3. m.retained = UNION {{<<p, r>> : r \in Elems(m.history[p])} : p \in Paths}
  BY <1>1 DEF Records, Agrees
<1>4. ASSUME NEW p \in Paths, NEW x
      PROVE  x \in Elems(m.history[p]) /\ x # Newest(m.history[p])
             <=> \E i \in 1..(Len(m.history[p]) - 1) : x = m.history[p][i]
  <2>1. PICK h, n : h = m.history[p] /\ n = Len(h)
    OBVIOUS
  <2>2. n \in Nat /\ DOMAIN h = 1..n /\ \A i, j \in 1..n : h[i] = h[j] => i = j
    BY <1>1, <2>1, ListBounds DEF Listed
  <2>3. x \in Elems(h) <=> \E i \in 1..n : x = h[i]
    BY <2>2 DEF Elems
  <2>4. \A i \in 1..n : h[i] # h[n] <=> i \in 1..(n - 1)
    BY <2>2
  <2>5. \A i \in 1..(n - 1) : i \in 1..n
    BY <2>2
  <2> QED BY <2>1, <2>3, <2>4, <2>5 DEF Newest
<1>5. Elems(m.superseded) = UNION {{<<p, m.history[p][i]>> : i \in 1..(Len(m.history[p]) - 1)} : p \in Paths}
  <2>1. \A p \in Paths : \A x : <<p, x>> \in Elems(m.superseded)
                            <=> \E i \in 1..(Len(m.history[p]) - 1) : x = m.history[p][i]
    BY <1>1, <1>4 DEF Agrees
  <2>2. \A e \in Elems(m.superseded) : \E p \in Paths : \E x : e = <<p, x>>
    BY <1>1 DEF Records
  <2> QED BY <2>1, <2>2
<1> QED BY <1>2, <1>3, <1>5 DEF Accounted, MemInv, Kept

(* The history of each path, the order of eviction and the retained records agree, and
   the newest revision of a path is never evicted, through every observation, restart
   and change of the provider's epoch (rememberRevisionLocked,
   enforceRevisionBudgetLocked). *)
THEOREM RevisionsStayAccounted == Spec => []RevisionsAccounted
<1>1. Init => MemInv(mem)
  <2>1. ASSUME Init PROVE MemInv(mem)
    <3>1. /\ DOMAIN mem = MemFields /\ mem.cache = [p \in Paths |-> Unseen]
          /\ mem.history = [p \in Paths |-> <<>>] /\ mem.superseded = <<>> /\ mem.retained = {} /\ mem.seq \in Nat
      BY <2>1 DEF Init, NewMemory, MemFields
    <3> QED BY <3>1, NothingKept
  <2> QED BY <2>1
<1>2. Shape /\ ReaderShape /\ MemInv(mem) /\ [Next]_vars => MemInv(mem)'
  BY OnlyMemSteps, MemStepKeeps
<1>3. MemInv(mem) => RevisionsAccounted
  BY KeptIsAccounted DEF RevisionsAccounted
<1> QED BY <1>1, <1>2, <1>3, EditInvariant, ReaderInvariant, PTL DEF Spec

=============================================================================
