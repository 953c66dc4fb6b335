--------------------------- MODULE HandlesProofs ---------------------------
(***************************************************************************)
(* Proofs about Handles, in the company of PlanPreview: for every tree,    *)
(* every token and query, every cap, every plan and any number of calls    *)
(* and of disturbances.                                                    *)
(***************************************************************************)
EXTENDS PlanPreview, FiniteSetTheorems, WellFoundedInduction, TLAPS

-----------------------------------------------------------------------------
(* Lists. *)

(* A set of naturals with a member has a least one. *)
LEMMA LeastOf ==
  ASSUME NEW T \in SUBSET Nat, T # {}
  PROVE  \E x \in T : \A y \in T : x <= y
<1> DEFINE R == {ss \in Nat \X Nat : ss[1] < ss[2]}
<1>1. IsWellFoundedOn(R, Nat)
  BY NatLessThanWellFounded DEF OpToRel
<1>2. \E x \in T : \A y \in T : ~(<<y, x>> \in R)
  <2> HIDE DEF R
  <2> QED BY <1>1, WFMin
<1>3. PICK x \in T : \A y \in T : ~(<<y, x>> \in R)
  BY <1>2
<1>4. ASSUME NEW y \in T PROVE x <= y
  <2>1. <<y, x>> \in Nat \X Nat /\ x \in Nat /\ y \in Nat
    OBVIOUS
  <2>2. ~(y < x)
    BY <1>3, <2>1
  <2> QED BY <2>1, <2>2
<1> QED BY <1>4

(* Induction over the naturals, for a set of them. *)
LEMMA NaturalsIn ==
  ASSUME NEW S, 0 \in S, \A n \in Nat : n \in S => n + 1 \in S
  PROVE  \A n \in Nat : n \in S
<1> SUFFICES ASSUME NEW n \in Nat, n \notin S PROVE FALSE
  OBVIOUS
<1> DEFINE T == {m \in Nat : m \notin S}
<1>1. T \in SUBSET Nat /\ T # {}
  OBVIOUS
<1>2. PICK x \in T : \A y \in T : x <= y
  <2> HIDE DEF T
  <2> QED BY <1>1, LeastOf
<1>3. x # 0 /\ x \in Nat
  OBVIOUS
<1>4. x - 1 \in Nat /\ ~(x <= x - 1)
  BY <1>3
<1>5. x - 1 \in S
  BY <1>2, <1>4
<1> QED BY <1>3, <1>4, <1>5

(* The positions in I can be listed in order. *)
Lists(f, I) ==
  /\ \A i \in I : \E n \in DOMAIN f : f[n] = i
  /\ \A m, n \in DOMAIN f : m < n => f[m] < f[n]
LEMMA Listable ==
  ASSUME NEW n \in Nat, NEW I \in SUBSET (1..n)
  PROVE  /\ IsFiniteSet(I) /\ Cardinality(I) \in Nat
         /\ \E f \in [1..Cardinality(I) -> I] : Lists(f, I)
<1> DEFINE S == {m \in Nat : \A J \in SUBSET (1..m) :
                    \E f \in [1..Cardinality(J) -> J] : Lists(f, J)}
<1>1. \A m \in Nat : \A J \in SUBSET (1..m) : IsFiniteSet(J) /\ Cardinality(J) \in Nat
  <2> SUFFICES ASSUME NEW m \in Nat, NEW J \in SUBSET (1..m) PROVE IsFiniteSet(J) /\ Cardinality(J) \in Nat
    OBVIOUS
  <2>1. IsFiniteSet(1..m)
    BY FS_Interval
  <2>2. IsFiniteSet(J)
    BY <2>1, FS_Subset
  <2> QED BY <2>2, FS_CardinalityType
<1>2. 0 \in S
  <2>1. 1..0 = {} /\ Cardinality({}) = 0
    BY FS_EmptySet
  <2>2. \E f \in [{} -> {}] : Lists(f, {})
    <3>1. [x \in {} |-> x] \in [{} -> {}]
      OBVIOUS
    <3> QED BY <3>1 DEF Lists
  <2>3. \A J \in SUBSET (1..0) : J = {}
    OBVIOUS
  <2> QED BY <2>1, <2>2, <2>3
<1>3. ASSUME NEW m \in Nat, m \in S PROVE m + 1 \in S
  <2>0. m + 1 \in Nat
    OBVIOUS
  <2> SUFFICES ASSUME NEW J \in SUBSET (1..(m + 1))
               PROVE  \E f \in [1..Cardinality(J) -> J] : Lists(f, J)
    BY <2>0, Zenon
  <2>1. CASE m + 1 \notin J
    <3>1. J \in SUBSET (1..m)
      BY <2>1
    <3> QED BY <1>3, <3>1
  <2>2. CASE m + 1 \in J
    <3> DEFINE K == J \ {m + 1}
    <3>1. K \in SUBSET (1..m) /\ J = K \cup {m + 1} /\ m + 1 \notin K
      BY <2>2
    <3>2. PICK f \in [1..Cardinality(K) -> K] : Lists(f, K)
      BY <1>3, <3>1
    <3>3. PICK k \in Nat : k = Cardinality(K)
      BY <1>1, <3>1
    <3>4. Cardinality(J) = k + 1
      BY <1>1, <3>1, <3>3, FS_AddElement
    <3> HIDE DEF K
    <3> DEFINE g == [i \in 1..(k + 1) |-> IF i = k + 1 THEN m + 1 ELSE f[i]]
    <3>5. \A i \in 1..k : f[i] \in K /\ g[i] = f[i]
      BY <3>2, <3>3
    <3>6. g[k + 1] = m + 1
      OBVIOUS
    <3>7. g \in [1..(k + 1) -> J]
      BY <3>1, <3>5, <3>6
    <3>8. ASSUME NEW i \in J PROVE \E l \in 1..(k + 1) : g[l] = i
      <4>1. CASE i = m + 1
        BY <4>1, <3>6
      <4>2. CASE i # m + 1
        <5>1. i \in K
          BY <4>2, <3>1
        <5>2. PICK l \in 1..k : f[l] = i
          BY <5>1, <3>2, <3>3 DEF Lists
        <5> QED BY <5>2, <3>5
      <4> QED BY <4>1, <4>2
    <3>9. ASSUME NEW i \in 1..(k + 1), NEW l \in 1..(k + 1), i < l PROVE g[i] < g[l]
      <4>1. i \in 1..k
        BY <3>9
      <4>2. CASE l = k + 1
        <5>1. f[i] \in 1..m
          BY <4>1, <3>5, <3>1
        <5> QED BY <5>1, <4>1, <4>2, <3>5, <3>6
      <4>3. CASE l # k + 1
        <5>1. l \in 1..k
          BY <4>3
        <5> QED BY <5>1, <4>1, <3>5, <3>9, <3>2, <3>3 DEF Lists
      <4> QED BY <4>2, <4>3
    <3>10. Lists(g, J) /\ DOMAIN g = 1..(k + 1)
      BY <3>8, <3>9 DEF Lists
    <3> QED BY <3>7, <3>10, <3>4
  <2> QED BY <2>1, <2>2
<1>4. \A m \in Nat : m \in S
  <2> HIDE DEF S
  <2> QED BY <1>2, <1>3, NaturalsIn
<1> QED BY <1>1, <1>4

(* What Kept keeps, and in which order. *)
Keeps(s, I, u) ==
  /\ \A n \in DOMAIN u : \E i \in I : u[n] = s[i]
  /\ \A i \in I : \E n \in DOMAIN u : u[n] = s[i]
  /\ \A m, n \in DOMAIN u : m < n => \E i, j \in I : i < j /\ u[m] = s[i] /\ u[n] = s[j]
LEMMA KeptFacts ==
  ASSUME NEW X, NEW s \in Seq(X), NEW I \in SUBSET DOMAIN s, NEW t, t = Kept(s, I)
  PROVE  t \in Seq(X) /\ Keeps(s, I, t)
<1> DEFINE k == Cardinality(I)
           f == CHOOSE f \in [1..k -> I] : Lists(f, I)
<1>1. Len(s) \in Nat /\ I \in SUBSET (1..Len(s))
  OBVIOUS
<1>2. k \in Nat /\ f \in [1..k -> I] /\ Lists(f, I)
  BY <1>1, Listable
<1>3. Kept(s, I) = [n \in DOMAIN f |-> s[f[n]]]
  BY DEF Kept, Lists
<1> HIDE DEF f, k
<1>4. DOMAIN f = 1..k /\ \A n \in 1..k : f[n] \in I /\ s[f[n]] \in X
  BY <1>2
<1>5. t = [n \in DOMAIN f |-> s[f[n]]]
  BY <1>3
<1>6. t \in [1..k -> X] /\ \A n \in 1..k : t[n] = s[f[n]]
  BY <1>4, <1>5
<1>7. t \in Seq(X) /\ DOMAIN t = 1..k
  BY <1>6, <1>2
<1>8. ASSUME NEW n \in DOMAIN t PROVE \E i \in I : t[n] = s[i]
  BY <1>6, <1>4, <1>7
<1>9. ASSUME NEW i \in I PROVE \E n \in DOMAIN t : t[n] = s[i]
  BY <1>6, <1>2, <1>4, <1>7 DEF Lists
<1>10. ASSUME NEW m \in DOMAIN t, NEW n \in DOMAIN t, m < n
       PROVE  \E i, j \in I : i < j /\ t[m] = s[i] /\ t[n] = s[j]
  <2>1. f[m] \in I /\ f[n] \in I /\ t[m] = s[f[m]] /\ t[n] = s[f[n]]
    BY <1>4, <1>6, <1>7
  <2>2. f[m] < f[n]
    BY <1>2, <1>4, <1>7, <1>10 DEF Lists
  <2> QED BY <2>1, <2>2
<1> QED BY <1>7, <1>8, <1>9, <1>10 DEF Keeps

(* The members of a list that are kept. *)
LEMMA KeptMembers ==
  ASSUME NEW X, NEW s \in Seq(X), NEW I \in SUBSET DOMAIN s
  PROVE  /\ Kept(s, I) \in Seq(X)
         /\ Elems(Kept(s, I)) = {s[i] : i \in I}
         /\ (\A i, j \in DOMAIN s : s[i] = s[j] => i = j) =>
              \A i, j \in DOMAIN Kept(s, I) : Kept(s, I)[i] = Kept(s, I)[j] => i = j
<1>1. PICK t : t = Kept(s, I)
  OBVIOUS
<1>2. t \in Seq(X) /\ Keeps(s, I, t)
  BY <1>1, KeptFacts
<1>3. Elems(t) = {s[i] : i \in I}
  BY <1>2 DEF Keeps, Elems
<1>4. ASSUME \A i, j \in DOMAIN s : s[i] = s[j] => i = j,
             NEW m \in DOMAIN t, NEW n \in DOMAIN t, m < n
      PROVE  t[m] # t[n]
  <2>1. PICK i \in I, j \in I : i < j /\ t[m] = s[i] /\ t[n] = s[j]
    BY <1>2, <1>4 DEF Keeps
  <2>2. i \in DOMAIN s /\ j \in DOMAIN s /\ i # j
    BY <2>1
  <2> QED BY <2>1, <2>2, <1>4
<1>5. ASSUME \A i, j \in DOMAIN s : s[i] = s[j] => i = j,
             NEW m \in DOMAIN t, NEW n \in DOMAIN t, t[m] = t[n]
      PROVE  m = n
  <2>1. m \in Int /\ n \in Int
    BY <1>2
  <2> QED BY <2>1, <1>4, <1>5
<1> QED BY <1>1, <1>2, <1>3, <1>5

(* The offsets at which a text has a token of some kind. *)
LEMMA OffsetsOf ==
  ASSUME NEW text \in Seq(Tokens), NEW I \in SUBSET DOMAIN text
  PROVE  /\ Offsets(text, I) \in Seq(Nat)
         /\ Elems(Offsets(text, I)) = {i - 1 : i \in I}
<1> DEFINE s == [i \in 1..Len(text) |-> i - 1]
<1>1. Len(text) \in Nat /\ DOMAIN text = 1..Len(text)
  OBVIOUS
<1>2. s \in Seq(Nat) /\ DOMAIN s = 1..Len(text) /\ \A i \in 1..Len(text) : s[i] = i - 1
  BY <1>1
<1>3. I \in SUBSET DOMAIN s /\ Offsets(text, I) = Kept(s, I)
  BY <1>1, <1>2 DEF Offsets
<1> HIDE DEF s
<1>4. Offsets(text, I) \in Seq(Nat) /\ Elems(Offsets(text, I)) = {s[i] : i \in I}
  BY <1>2, <1>3, KeptMembers
<1>5. {s[i] : i \in I} = {i - 1 : i \in I}
  BY <1>1, <1>2
<1> QED BY <1>4, <1>5

(* The declarations of one name, and the matches of the query. *)
LEMMA DeclaredOf ==
  ASSUME NEW text \in Seq(Tokens), NEW name
  PROVE  /\ Declared(text, name) \in Seq(Nat)
         /\ \A s \in Elems(Declared(text, name)) : s \in 0..(Len(text) - 1) /\ Name[text[s + 1]] = name
<1> DEFINE I == {i \in DOMAIN text : Name[text[i]] = name}
<1>1. I \in SUBSET DOMAIN text /\ Declared(text, name) = Offsets(text, I)
  BY DEF Declared
<1>2. \A i \in I : i \in 1..Len(text) /\ Name[text[i]] = name
  OBVIOUS
<1> HIDE DEF I
<1>3. Declared(text, name) \in Seq(Nat) /\ Elems(Declared(text, name)) = {i - 1 : i \in I}
  BY <1>1, OffsetsOf
<1>4. ASSUME NEW s \in Elems(Declared(text, name)) PROVE s \in 0..(Len(text) - 1) /\ Name[text[s + 1]] = name
  <2>1. PICK i \in I : s = i - 1
    BY <1>3
  <2>2. i \in 1..Len(text) /\ Name[text[i]] = name /\ s + 1 = i /\ Len(text) \in Nat
    BY <1>2, <2>1
  <2>3. text[s + 1] = text[i] /\ s \in 0..(Len(text) - 1)
    BY <2>1, <2>2
  <2> QED BY <2>2, <2>3, Zenon
<1> QED BY <1>3, <1>4

LEMMA MatchesOf ==
  ASSUME NEW text \in Seq(Tokens)
  PROVE  /\ matchRanges(text) \in Seq(Nat)
         /\ Elems(matchRanges(text)) = {s \in 0..(Len(text) - 1) : text[s + 1] \in Query}
<1> DEFINE I == {i \in DOMAIN text : text[i] \in Query}
<1>1. I \in SUBSET DOMAIN text /\ matchRanges(text) = Offsets(text, I)
  BY DEF matchRanges
<1>2. I = {i \in 1..Len(text) : text[i] \in Query} /\ Len(text) \in Nat
  OBVIOUS
<1> HIDE DEF I
<1>3. matchRanges(text) \in Seq(Nat) /\ Elems(matchRanges(text)) = {i - 1 : i \in I}
  BY <1>1, OffsetsOf
<1>4. ASSUME NEW i \in I PROVE i - 1 \in 0..(Len(text) - 1) /\ text[(i - 1) + 1] \in Query
  <2>1. i \in 1..Len(text) /\ (i - 1) + 1 = i /\ text[i] \in Query
    BY <1>2
  <2>2. text[(i - 1) + 1] \in Query
    BY <2>1
  <2> QED BY <2>1, <2>2, <1>2
<1>5. ASSUME NEW s \in 0..(Len(text) - 1), text[s + 1] \in Query PROVE \E i \in I : s = i - 1
  <2>1. s + 1 \in I /\ s = (s + 1) - 1
    BY <1>2, <1>5
  <2> QED BY <2>1
<1> QED BY <1>3, <1>4, <1>5

-----------------------------------------------------------------------------
(* The invariant. *)
HitSet == [path : Paths, start : Nat, text : Tokens, handle : Nat]
IsPlace(l) == l.path \in Paths /\ l.start \in Nat /\ l.end \in Int
IsHandle(r) == r.kind \in {"range", "symbol"} /\ IsPlace(r.loc)

TreeInv == disk \in [Paths -> Images]
WsInv == ws \in [cache : [Paths -> Images \cup {Unseen}], seq : Nat, epoch : Nat]
DuringInv ==
  /\ during \in [Paths -> SUBSET Images]
  /\ look.at # "idle" => \A p \in Paths : disk[p] \in during[p]
PlanInv ==
  /\ plan \in [at : {plan.at}, template : {plan.template}, ops : {plan.ops}, kept : {plan.kept}, edited : {plan.edited}]
  /\ OnPaths(plan.template) /\ OnPaths(plan.ops) /\ OnPaths(plan.kept)

(* A result set: what its files are to it, whatever the tree is by now; and
   while the sequence is the set's and a document the one it read, the hits the
   set has of it are that document's matches. *)
Image(S, p) == S.revs[p][2]
SetShape(S) ==
  /\ S.kind \in {"current", "historical"} /\ S.seq \in Nat /\ S.complete \in BOOLEAN
  /\ S.scope \subseteq Paths /\ S.files \in Seq(Paths) /\ S.hits \in Seq(HitSet)
Backed(S, w) ==
  /\ DOMAIN S.revs \subseteq Elems(S.files)
  /\ \A p \in DOMAIN S.revs : IsText(Image(S, p)) /\ Image(S, p) \in Images /\ w.cache[p] # Unseen
  /\ \A i \in DOMAIN S.hits : S.hits[i].path \in DOMAIN S.revs
  /\ S.complete => Elems(S.files) \subseteq DOMAIN S.revs \cup S.links
Right(S, p) == HitsAt(S.hits, p) = IF p \in S.paths THEN Wanted(S, Image(S, p)) ELSE {}
SetInv(S, w) ==
  /\ SetShape(S)
  /\ S.kind = "current" =>
       /\ Backed(S, w) /\ S.seq <= w.seq
       /\ (S.seq = w.seq /\ S.complete) =>
            \A p \in DOMAIN S.revs : w.cache[p] = Image(S, p) => Right(S, p)

StoreInv ==
  /\ store \in [handles : {store.handles}, sets : {store.sets}, next : Nat, expired : Nat,
                due : BOOLEAN, pending : Nat]
  /\ \A id \in DOMAIN store.handles : id \in Nat /\ id < store.next /\ IsHandle(store.handles[id])
  /\ \A id \in DOMAIN store.sets : SetInv(store.sets[id], ws)

(* A search that is under way. *)
MatchesIn(image) == {<<s, image[s + 1]>> : s \in Elems(matchRanges(image))}
Searching(c, w) ==
  /\ \A i, j \in DOMAIN c.todo : c.todo[i] = c.todo[j] => i = j
  /\ Elems(c.todo) \cap DOMAIN c.revs = {}
  /\ Elems(c.todo) \cup DOMAIN c.revs \subseteq Elems(c.files)
  /\ c.complete => Elems(c.files) \subseteq Elems(c.todo) \cup DOMAIN c.revs \cup c.links
  /\ \A i \in DOMAIN c.hits : c.hits[i].path \in DOMAIN c.revs
  /\ \A p \in DOMAIN c.revs :
       /\ IsText(Image(c, p)) /\ Image(c, p) \in Images /\ w.cache[p] # Unseen
       /\ c.complete => HitsAt(c.hits, p) = MatchesIn(Image(c, p))
CallShape(c) ==
  c \in [kind : {c.kind}, asked : {c.asked}, scope : SUBSET Paths, files : Seq(Paths),
         todo : Seq(Paths), hits : Seq(HitSet), revs : {c.revs}, complete : BOOLEAN,
         links : {c.links}, ids : {c.ids}, paths : {c.paths}, toks : {c.toks}, name : {c.name}]
CallInv == CallShape(call) /\ (call.kind = "search" => Searching(call, ws))

(* A handle being resolved, by lookup l, from store s, among the images d. *)
Stood(k, d) ==
  /\ IsPlace(k)
  /\ \E image \in d[k.path] : IsText(image) /\ k.end <= Len(image) /\ Span(image, k.start, k.end) = k.text
Alike(k, m) == Name[k.text[1]] = Name[m.text[1]] /\ Fingerprint(k.text) = Fingerprint(m.text)
Scanning(l, s, d) ==
  /\ l.id \in Nat /\ l.id < s.next
  /\ l.record.kind = "symbol" /\ IsPlace(l.record.loc)
  /\ l.id \in DOMAIN s.handles => s.handles[l.id] = l.record
  /\ \A c \in l.found : Stood(c, d) /\ Alike(c, l.record.loc)
Fits(k, r) == IF r.kind = "range" THEN k.text = r.loc.text ELSE Alike(k, r.loc)
Answer(l, s, d) ==
  /\ l.id \in Nat /\ l.id < s.next
  /\ Stood(l.out.loc, d)
  /\ l.id \in DOMAIN s.handles => Fits(l.out.loc, s.handles[l.id])

(* A set being inspected: the files it does not have were missing, and the
   documents looked at are the ones it read. *)
Unlisted(S, d) == \A p \in S.scope \ Elems(S.files) : Len(S.files) < MaxFiles => Missing \in d[p]
Inspecting(l, w, d) ==
  /\ SetInv(l.set, w)
  /\ l.at = "revisions" => l.set.kind = "current"
  /\ l.set.kind = "current" =>
       /\ Unlisted(l.set, d)
       /\ l.at = "seq" => l.todo = <<>>
       /\ \A p \in DOMAIN l.set.revs \ Elems(l.todo) :
            /\ Image(l.set, p) \in d[p]
            /\ l.set.seq = w.seq => w.cache[p] = Image(l.set, p)
Sure(S, w, d) ==
  /\ S.kind = "current" /\ SetShape(S) /\ Backed(S, w) /\ Unlisted(S, d)
  /\ \A p \in DOMAIN S.revs : Image(S, p) \in d[p] /\ (S.complete => Right(S, p))
Hydrated(l, w) ==
  /\ l.hits \in Seq(HitSet) /\ DOMAIN l.hits = DOMAIN l.set.hits
  /\ \A i \in DOMAIN l.hits : LET p == l.set.hits[i].path IN
       /\ l.hits[i].path = p
       /\ w.cache[p] = Image(l.set, p) /\ l.set.complete => l.hits[i] = l.set.hits[i]

LookShape(l) ==
  l \in [kind : {l.kind}, at : {l.at}, id : {l.id}, todo : Seq(Paths), rest : {l.rest},
         found : {l.found}, record : {l.record}, path : {l.path}, name : {l.name},
         unique : {l.unique}, set : {l.set}, hits : {l.hits}, ok : BOOLEAN, out : {l.out}]
LookAt(l) ==
  /\ l.at = "find" => l.path \in Paths /\ l.kind = "locator"
  /\ l.at = "select" => l.kind = "locator"
  /\ l.at \in {"resolve", "scan"} => l.kind \in {"handle", "all", "locator"}
  /\ l.at \in {"inspect", "revisions", "seq", "hydrate"} => l.kind \in {"all", "set"}
LookGood(l, s, w, d) ==
  /\ LookShape(l) /\ LookAt(l)
  /\ l.at = "scan" => Scanning(l, s, d)
  /\ (l.kind = "handle" /\ l.at = "done" /\ l.ok) => Answer(l, s, d)
  /\ l.at \in {"revisions", "seq"} => Inspecting(l, w, d)
  /\ (l.kind \in {"all", "set"} /\ (l.at \in {"resolve", "scan", "hydrate"} \/ (l.at = "done" /\ l.ok))) =>
       Sure(l.set, w, d) /\ (l.kind = "all" => l.set.complete)
  /\ (l.kind = "set" /\ l.at = "done" /\ l.ok) => Hydrated(l, w)
LookInv == LookGood(look, store, ws, during) /\ (look.kind = "set" <=> call.kind = "refine")

IInv ==
  TreeInv /\ WsInv /\ DuringInv /\ PlanInv /\ StoreInv /\ CallInv /\ LookInv

-----------------------------------------------------------------------------
(* The parts of the state, each on its own. *)

(* There are finitely many paths. *)
LEMMA PathsFinite == IsFiniteSet(Paths)
<1>1. Len(PathSeq) \in Nat /\ DOMAIN PathSeq = 1..Len(PathSeq)
  BY PathsAssumption
<1>2. IsFiniteSet(1..Len(PathSeq))
  BY <1>1, FS_Interval
<1>3. PathSeq \in [1..Len(PathSeq) -> Paths] /\ \A p \in Paths : \E i \in 1..Len(PathSeq) : PathSeq[i] = p
  BY <1>1, PathsAssumption DEF Paths
<1> DEFINE n == Len(PathSeq)
           g == PathSeq
<1>4. g \in Surjection(1..n, Paths)
  BY <1>3 DEF Surjection
<1> QED BY <1>2, <1>4, FS_Surjection

(* Documents are texts or one of the other images. *)
LEMMA ImageParts ==
  /\ \A image \in Images : IsText(image) => image \in Seq(Tokens)
  /\ Missing \in Images /\ Missing # Binary /\ ~IsText(Missing) /\ ~IsText(Binary)
  /\ Seq(Tokens) \subseteq Images
BY ImagesAssumption DEF Images, IsText

(* A listing: paths of its scope, each once, and short of the cap all that are
   there. *)
LEMMA ListingOf ==
  ASSUME NEW scope \in SUBSET Paths, NEW files, files = collectScopedFiles(scope)
  PROVE  /\ files \in Seq(Paths) /\ Elems(files) \subseteq scope
         /\ \A i, j \in DOMAIN files : files[i] = files[j] => i = j
         /\ Len(files) < MaxFiles => \A p \in scope \ Elems(files) : disk[p] = Missing
<1> DEFINE I == {i \in DOMAIN PathSeq : PathSeq[i] \in scope /\ There(PathSeq[i])}
<1>1. PICK all : all = Listed(scope)
  OBVIOUS
<1>2. I \in SUBSET DOMAIN PathSeq /\ all = Kept(PathSeq, I)
  BY <1>1 DEF Listed
<1>3. /\ all \in Seq(Paths) /\ Elems(all) = {PathSeq[i] : i \in I}
      /\ \A i, j \in DOMAIN all : all[i] = all[j] => i = j
  <2> HIDE DEF I
  <2> QED BY <1>2, PathsAssumption, KeptMembers
<1>4. Elems(all) = {p \in scope : There(p)}
  <2>1. \A p \in scope : \E i \in DOMAIN PathSeq : PathSeq[i] = p
    BY DEF Paths
  <2> QED BY <1>3, <2>1
<1>5. MaxFiles \in Nat
  BY CapsAssumption
<1>6. PICK n \in 0..Len(all) : files = SubSeq(all, 1, n) /\ n <= MaxFiles /\ (n < Len(all) => n = MaxFiles)
  <2>1. Len(all) \in Nat
    BY <1>3
  <2> QED BY <2>1, <1>1, <1>5 DEF collectScopedFiles
<1>7. files \in Seq(Paths) /\ Len(files) = n /\ DOMAIN files = 1..n /\ \A i \in 1..n : files[i] = all[i] /\ i \in DOMAIN all
  BY <1>3, <1>6
<1>8. \A i, j \in DOMAIN files : files[i] = files[j] => i = j
  BY <1>3, <1>7
<1>9. Elems(files) \subseteq Elems(all)
  BY <1>7 DEF Elems
<1>10. ASSUME Len(files) < MaxFiles, NEW p \in scope \ Elems(files) PROVE disk[p] = Missing
  <2>1. n = Len(all) /\ DOMAIN all = 1..n
    BY <1>10, <1>6, <1>7, <1>5, <1>3
  <2>2. Elems(all) \subseteq Elems(files)
    BY <2>1, <1>7 DEF Elems
  <2> QED BY <2>2, <1>4, <1>10 DEF There
<1> QED BY <1>4, <1>7, <1>8, <1>9, <1>10

(* The sequence counts every change of what has been seen of a document. *)
Moves ==
  /\ ws' \in [cache : [Paths -> Images \cup {Unseen}], seq : Nat, epoch : Nat]
  /\ ws'.seq >= ws.seq
  /\ \A p \in Paths : ws.cache[p] # Unseen =>
       ws'.cache[p] # Unseen /\ (ws'.seq = ws.seq => ws'.cache[p] = ws.cache[p])

LEMMA RefreshMoves ==
  ASSUME TreeInv, WsInv, NEW p \in Paths, ws' = Refresh(ws, p)
  PROVE  Moves /\ ws'.cache[p] = disk[p] /\ ws'.epoch = ws.epoch
<1>1. disk[p] \in Images /\ disk[p] # Unseen
  BY ImagesAssumption DEF TreeInv
<1>2. ws.seq \in Nat /\ ws.epoch \in Nat /\ ws.cache \in [Paths -> Images \cup {Unseen}]
  BY DEF WsInv
<1> DEFINE n == IF ws.cache[p] \notin {Unseen, disk[p]} THEN ws.seq + 1 ELSE ws.seq
<1>3. n \in Nat /\ ws' = [cache |-> [ws.cache EXCEPT ![p] = disk[p]], seq |-> n, epoch |-> ws.epoch]
  <2>1. n \in Nat
    BY <1>2
  <2>2. ws' = [ws EXCEPT !.seq = n, !.cache[p] = disk[p]]
    BY DEF Refresh
  <2> HIDE DEF n
  <2>3. ws' = [ws EXCEPT !.seq = n, !.cache = [ws.cache EXCEPT ![p] = disk[p]]]
    BY <2>2, <1>2 DEF WsInv
  <2> QED BY <2>1, <2>3 DEF WsInv
<1>4. ws'.cache \in [Paths -> Images \cup {Unseen}] /\ ws'.seq = n /\ ws'.epoch = ws.epoch /\ ws'.cache[p] = disk[p]
  BY <1>1, <1>2, <1>3
<1>5. n >= ws.seq /\ (n = ws.seq => ws.cache[p] \in {Unseen, disk[p]})
  BY <1>2, <1>3
<1>6. \A q \in Paths : q # p => ws'.cache[q] = ws.cache[q]
  BY <1>2, <1>3
<1> QED BY <1>1, <1>2, <1>3, <1>4, <1>5, <1>6 DEF Moves

LEMMA RefreshAllMoves ==
  ASSUME TreeInv, WsInv, NEW ps, ws' = RefreshAll(ws, ps)
  PROVE  Moves /\ \A p \in ps \cap Paths : ws'.cache[p] = disk[p]
<1> DEFINE C == {p \in Paths : p \in ps /\ ws.cache[p] \notin {Unseen, disk[p]}}
<1>1. \A p \in Paths : disk[p] \in Images /\ disk[p] # Unseen
  BY ImagesAssumption DEF TreeInv
<1>2. ws.seq \in Nat /\ ws.epoch \in Nat /\ ws.cache \in [Paths -> Images \cup {Unseen}]
  BY DEF WsInv
<1>3. IsFiniteSet(C) /\ Cardinality(C) \in Nat /\ (Cardinality(C) = 0 => C = {})
  <2>1. IsFiniteSet(C)
    BY PathsFinite, FS_Subset
  <2> QED BY <2>1, FS_CardinalityType, FS_EmptySet
<1>4. ws' = [cache |-> [p \in Paths |-> IF p \in ps THEN disk[p] ELSE ws.cache[p]],
             seq |-> ws.seq + Cardinality(C), epoch |-> ws.epoch]
  BY DEF WsInv, RefreshAll
<1>5. \A p \in Paths : ws'.cache[p] = IF p \in ps THEN disk[p] ELSE ws.cache[p]
  BY <1>4
<1>6. ws' \in [cache : [Paths -> Images \cup {Unseen}], seq : Nat, epoch : Nat] /\ ws'.seq = ws.seq + Cardinality(C)
  BY <1>1, <1>2, <1>3, <1>4
<1>7. ws'.seq >= ws.seq /\ (ws'.seq = ws.seq => C = {})
  BY <1>2, <1>3, <1>6
<1>8. \A p \in Paths : (ws.cache[p] # Unseen /\ C = {} /\ p \in ps) => ws.cache[p] = disk[p]
  OBVIOUS
<1> HIDE DEF C
<1> QED BY <1>1, <1>5, <1>6, <1>7, <1>8 DEF Moves

LEMMA StillMoves ==
  ASSUME WsInv
  PROVE  /\ ws' = ws => Moves
         /\ ws' = [ws EXCEPT !.epoch = @ + 1, !.seq = @ + 1] => Moves
<1>1. ws.seq \in Nat /\ ws.epoch \in Nat /\ ws.cache \in [Paths -> Images \cup {Unseen}]
  BY DEF WsInv
<1>2. ASSUME ws' = [ws EXCEPT !.epoch = @ + 1, !.seq = @ + 1] PROVE Moves
  <2>1. ws' = [cache |-> ws.cache, seq |-> ws.seq + 1, epoch |-> ws.epoch + 1]
    BY <1>2 DEF WsInv
  <2> QED BY <1>1, <2>1 DEF Moves
<1> QED BY <1>1, <1>2 DEF Moves, WsInv

(* A set stays as good as it was. *)
LEMMA SetStays ==
  ASSUME WsInv, Moves, NEW S, SetInv(S, ws)
  PROVE  SetInv(S, ws')
<1> SUFFICES ASSUME S.kind = "current"
             PROVE  /\ Backed(S, ws') /\ S.seq <= ws'.seq
                    /\ (S.seq = ws'.seq /\ S.complete) =>
                         \A p \in DOMAIN S.revs : ws'.cache[p] = Image(S, p) => Right(S, p)
  BY DEF SetInv
<1>1. SetShape(S) /\ Backed(S, ws) /\ S.seq <= ws.seq
  BY DEF SetInv
<1>2. ws.seq \in Nat /\ ws'.seq \in Nat /\ S.seq \in Nat /\ ws'.seq >= ws.seq
  BY <1>1 DEF WsInv, Moves, SetShape
<1>3. \A p \in DOMAIN S.revs : p \in Paths /\ ws.cache[p] # Unseen
  BY <1>1 DEF Backed, SetShape, Elems
<1>4. Backed(S, ws')
  BY <1>1, <1>3 DEF Backed, Moves, Image
<1>5. ASSUME S.seq = ws'.seq, S.complete, NEW p \in DOMAIN S.revs, ws'.cache[p] = Image(S, p)
      PROVE  Right(S, p)
  <2>1. ws'.seq = ws.seq /\ S.seq = ws.seq
    BY <1>1, <1>2, <1>5
  <2>2. ws.cache[p] = Image(S, p)
    BY <2>1, <1>3, <1>5 DEF Moves
  <2> QED BY <2>1, <2>2, <1>5 DEF SetInv
<1> QED BY <1>1, <1>2, <1>4, <1>5

-----------------------------------------------------------------------------
(* The store. *)
Shape(s) ==
  s \in [handles : {s.handles}, sets : {s.sets}, next : Nat, expired : Nat, due : BOOLEAN, pending : Nat]
Within(t, s) ==
  /\ Shape(t) /\ t.next = s.next /\ t.pending = s.pending
  /\ \A id \in DOMAIN t.handles : id \in DOMAIN s.handles /\ t.handles[id] = s.handles[id]
  /\ \A id \in DOMAIN t.sets : id \in DOMAIN s.sets /\ t.sets[id] = s.sets[id]

(* A sweep and what comes with an insert only take entries away. *)
LEMMA NoteInsertTakes ==
  ASSUME NEW s, Shape(s), NEW t, t = noteInsertLocked(s)
  PROVE  Within(t, s)
<1>1. CASE t = s
  BY <1>1 DEF Within
<1>2. CASE t = sweepLocked(s)
  <2> DEFINE live(f) == Narrow(f, {x \in DOMAIN f : x > s.expired})
             h == Newest(live(s.handles), MaxHandles)
             k == Newest(live(s.sets), MaxSets)
  <2>1. t = [s EXCEPT !.due = FALSE, !.handles = h, !.sets = k]
    BY <1>2 DEF sweepLocked
  <2>2. \A id \in DOMAIN h : id \in DOMAIN s.handles /\ h[id] = s.handles[id]
    BY DEF Newest, Narrow
  <2>3. \A id \in DOMAIN k : id \in DOMAIN s.sets /\ k[id] = s.sets[id]
    BY DEF Newest, Narrow
  <2> HIDE DEF h, k
  <2>4. t = [handles |-> h, sets |-> k, next |-> s.next, expired |-> s.expired, due |-> FALSE, pending |-> s.pending]
    BY <2>1 DEF Shape
  <2>5. s.next \in Nat /\ s.expired \in Nat /\ s.pending \in Nat
    BY DEF Shape
  <2> QED BY <2>2, <2>3, <2>4, <2>5 DEF Within, Shape
<1> QED BY <1>1, <1>2 DEF noteInsertLocked

(* The entries of a store after one of its operations are old ones, under their
   old names, or new ones under new names. *)
Adds(t, s, R, Q) ==
  /\ Shape(t) /\ t.next >= s.next
  /\ \A id \in DOMAIN t.handles :
       /\ id \in Nat /\ id < t.next
       /\ IF id < s.next THEN id \in DOMAIN s.handles /\ t.handles[id] = s.handles[id] ELSE t.handles[id] \in R
  /\ \A id \in DOMAIN t.sets : (id \in DOMAIN s.sets /\ t.sets[id] = s.sets[id]) \/ t.sets[id] \in Q
Numbered(s) == Shape(s) /\ \A id \in DOMAIN s.handles : id \in Nat /\ id < s.next

LEMMA PutHandlesAdds ==
  ASSUME NEW s, Numbered(s), NEW records, records \in Seq(Elems(records)), NEW t, t = PutHandles(s, records)
  PROVE  Adds(t, s, Elems(records), {})
<1>1. CASE records = <<>>
  <2>1. t = s
    BY <1>1 DEF PutHandles
  <2>2. s.next \in Nat
    BY DEF Numbered, Shape
  <2> QED BY <2>1, <2>2 DEF Adds, Numbered
<1>2. CASE records # <<>>
  <2> DEFINE n == s.next + Len(records)
             h == [id \in DOMAIN s.handles \cup (s.next..(n - 1)) |->
                     IF id < s.next THEN s.handles[id] ELSE records[id - s.next + 1]]
             u == [s EXCEPT !.next = n, !.handles = h]
  <2>1. t = noteInsertLocked(u)
    BY <1>2 DEF PutHandles
  <2>2. Len(records) \in Nat /\ DOMAIN records = 1..Len(records)
    OBVIOUS
  <2>3. s.next \in Nat /\ s.expired \in Nat /\ s.pending \in Nat /\ s.due \in BOOLEAN /\ n \in Nat /\ n >= s.next
    BY <2>2 DEF Numbered, Shape
  <2>4. ASSUME NEW id \in DOMAIN h
        PROVE  /\ id \in Nat /\ id < n
               /\ IF id < s.next THEN id \in DOMAIN s.handles /\ h[id] = s.handles[id] ELSE h[id] \in Elems(records)
    <3>1. CASE id < s.next
      <4>1. id \in DOMAIN s.handles
        BY <2>3, <3>1
      <4>2. h[id] = s.handles[id] /\ id \in Nat
        BY <3>1, <4>1 DEF Numbered
      <4> QED BY <2>3, <3>1, <4>1, <4>2
    <3>2. CASE ~(id < s.next)
      <4>1. id \in s.next..(n - 1)
        BY <3>2 DEF Numbered
      <4>2. id - s.next + 1 \in DOMAIN records /\ h[id] = records[id - s.next + 1]
        BY <2>2, <2>3, <3>2, <4>1
      <4>3. h[id] \in Elems(records)
        BY <4>2 DEF Elems
      <4> QED BY <2>3, <3>2, <4>1, <4>3
    <3> QED BY <3>1, <3>2
  <2> HIDE DEF n, h
  <2>5. PICK v : v = [s EXCEPT !.next = n, !.handles = h]
    OBVIOUS
  <2>6. Shape(v) /\ v.handles = h /\ v.next = n /\ v.sets = s.sets
    <3>1. Shape(s)
      BY DEF Numbered
    <3> QED BY <2>3, <2>5, <3>1 DEF Shape
  <2>7. Within(t, v)
    BY <2>1, <2>5, <2>6, NoteInsertTakes
  <2>8. Shape(t) /\ t.next = n
    BY <2>6, <2>7 DEF Within
  <2>9. \A id \in DOMAIN t.handles : id \in DOMAIN h /\ t.handles[id] = h[id]
    BY <2>6, <2>7 DEF Within
  <2>10. \A id \in DOMAIN t.sets : id \in DOMAIN s.sets /\ t.sets[id] = s.sets[id]
    BY <2>6, <2>7 DEF Within
  <2> QED BY <2>3, <2>4, <2>8, <2>9, <2>10 DEF Adds
<1> QED BY <1>1, <1>2

LEMMA PutHandleAdds ==
  ASSUME NEW s, Numbered(s), NEW r, NEW t, t = putHandleLocked(s, r)
  PROVE  Adds(t, s, {r}, {}) /\ t.next = s.next + 1
<1> DEFINE h == Put(s.handles, s.next, r)
           u == [s EXCEPT !.handles = h, !.next = s.next + 1]
<1>1. s.next \in Nat /\ s.expired \in Nat /\ s.pending \in Nat /\ s.due \in BOOLEAN
  BY DEF Numbered, Shape
<1>2. t = noteInsertLocked(u)
  BY DEF putHandleLocked
<1>3. ASSUME NEW id \in DOMAIN h
      PROVE  /\ id \in Nat /\ id < s.next + 1
             /\ IF id < s.next THEN id \in DOMAIN s.handles /\ h[id] = s.handles[id] ELSE h[id] = r
  <2>1. h = [z \in DOMAIN s.handles \cup {s.next} |-> IF z = s.next THEN r ELSE s.handles[z]]
    BY DEF Put
  <2>2. CASE id = s.next
    BY <1>1, <2>1, <2>2
  <2>3. CASE id # s.next
    <3>1. id \in DOMAIN s.handles /\ h[id] = s.handles[id]
      BY <2>1, <2>3
    <3>2. id \in Nat /\ id < s.next
      BY <3>1 DEF Numbered
    <3> QED BY <1>1, <3>1, <3>2
  <2> QED BY <2>2, <2>3
<1> HIDE DEF h
<1>4. PICK v : v = [s EXCEPT !.handles = h, !.next = s.next + 1]
  OBVIOUS
<1>5. Shape(v) /\ v.handles = h /\ v.next = s.next + 1 /\ v.sets = s.sets
  <2>1. Shape(s)
    BY DEF Numbered
  <2>2. PICK n \in Nat : n = s.next + 1
    BY <1>1
  <2>3. v = [s EXCEPT !.handles = h, !.next = n]
    BY <1>4, <2>2
  <2>4. Shape(v) /\ v.handles = h /\ v.next = n /\ v.sets = s.sets
    BY <2>1, <2>3 DEF Shape
  <2> QED BY <2>2, <2>4
<1>6. Within(t, v)
  BY <1>2, <1>4, <1>5, NoteInsertTakes
<1>7. Shape(t) /\ t.next = s.next + 1
  BY <1>5, <1>6 DEF Within
<1>8. \A id \in DOMAIN t.handles : id \in DOMAIN h /\ t.handles[id] = h[id]
  BY <1>5, <1>6 DEF Within
<1>9. \A id \in DOMAIN t.sets : id \in DOMAIN s.sets /\ t.sets[id] = s.sets[id]
  BY <1>5, <1>6 DEF Within
<1> QED BY <1>1, <1>3, <1>7, <1>8, <1>9 DEF Adds

LEMMA PutSetAdds ==
  ASSUME NEW s, Numbered(s), NEW S, NEW t, t = putSetLocked(s, S)
  PROVE  Adds(t, s, {}, {S}) /\ t.next = s.next + 1
<1> DEFINE k == Put(s.sets, s.next, S)
           u == [s EXCEPT !.sets = k, !.next = s.next + 1]
<1>1. s.next \in Nat /\ s.expired \in Nat /\ s.pending \in Nat /\ s.due \in BOOLEAN
  BY DEF Numbered, Shape
<1>2. t = noteInsertLocked(u)
  BY DEF putSetLocked
<1>3. \A id \in DOMAIN k : (id \in DOMAIN s.sets /\ k[id] = s.sets[id]) \/ k[id] = S
  BY DEF Put
<1> HIDE DEF k
<1>4. PICK v : v = [s EXCEPT !.sets = k, !.next = s.next + 1]
  OBVIOUS
<1>5. Shape(v) /\ v.handles = s.handles /\ v.next = s.next + 1 /\ v.sets = k
  <2>1. Shape(s)
    BY DEF Numbered
  <2>2. PICK n \in Nat : n = s.next + 1
    BY <1>1
  <2>3. v = [s EXCEPT !.sets = k, !.next = n]
    BY <1>4, <2>2
  <2>4. Shape(v) /\ v.handles = s.handles /\ v.next = n /\ v.sets = k
    BY <2>1, <2>3 DEF Shape
  <2> QED BY <2>2, <2>4
<1>6. Within(t, v)
  BY <1>2, <1>4, <1>5, NoteInsertTakes
<1>7. Shape(t) /\ t.next = s.next + 1
  BY <1>5, <1>6 DEF Within
<1>8. \A id \in DOMAIN t.handles : id \in DOMAIN s.handles /\ t.handles[id] = s.handles[id] /\ id \in Nat /\ id < s.next
  BY <1>5, <1>6 DEF Within, Numbered
<1>9. \A id \in DOMAIN t.sets : id \in DOMAIN k /\ t.sets[id] = k[id]
  BY <1>5, <1>6 DEF Within
<1> QED BY <1>1, <1>3, <1>7, <1>8, <1>9 DEF Adds

(* A step of the store: what it adds is as the invariant has it, and no name is
   used twice. *)
Grows ==
  /\ Shape(store)' /\ store'.next >= store.next
  /\ \A id \in DOMAIN store'.handles :
       /\ id \in Nat /\ id < store'.next /\ IsHandle(store'.handles[id])
       /\ id < store.next => id \in DOMAIN store.handles /\ store'.handles[id] = store.handles[id]
  /\ \A id \in DOMAIN store'.sets : (id \in DOMAIN store.sets /\ store'.sets[id] = store.sets[id]) \/ SetInv(store'.sets[id], ws')

LEMMA StoreNumbered ==
  ASSUME StoreInv
  PROVE  Numbered(store) /\ store.next \in Nat
BY DEF StoreInv, Numbered, Shape

LEMMA AddsGrows ==
  ASSUME StoreInv, NEW R, NEW Q, NEW t, store' = t, Adds(t, store, R, Q),
         \A r \in R : IsHandle(r), \A S \in Q : SetInv(S, ws')
  PROVE  Grows
<1>1. /\ Shape(t) /\ t.next >= store.next
      /\ \A id \in DOMAIN t.handles :
           /\ id \in Nat /\ id < t.next
           /\ IF id < store.next THEN id \in DOMAIN store.handles /\ t.handles[id] = store.handles[id]
              ELSE t.handles[id] \in R
      /\ \A id \in DOMAIN t.sets : (id \in DOMAIN store.sets /\ t.sets[id] = store.sets[id]) \/ t.sets[id] \in Q
  BY DEF Adds
<1>2. Shape(store)'
  BY <1>1 DEF Shape
<1>3. \A id \in DOMAIN store.handles : IsHandle(store.handles[id])
  BY DEF StoreInv
<1>4. \A id \in DOMAIN t.handles : IsHandle(t.handles[id])
  BY <1>1, <1>3
<1>5. ASSUME NEW id \in DOMAIN t.sets
      PROVE  (id \in DOMAIN store.sets /\ t.sets[id] = store.sets[id]) \/ SetInv(store'.sets[id], ws')
  <2>1. CASE t.sets[id] \in Q
    <3>1. PICK S \in Q : S = t.sets[id]
      BY <2>1
    <3>2. SetInv(S, ws') /\ store'.sets[id] = S
      BY <3>1
    <3> QED BY <3>2
  <2> QED BY <2>1, <1>1
<1> QED BY <1>1, <1>2, <1>4, <1>5 DEF Grows

LEMMA StillGrows ==
  ASSUME StoreInv, store' = store
  PROVE  Grows
BY DEF StoreInv, Grows, Shape

LEMMA StoreStep ==
  ASSUME WsInv, Moves, StoreInv, Grows
  PROVE  StoreInv'
<1>1. ASSUME NEW id \in DOMAIN store'.sets PROVE SetInv(store'.sets[id], ws')
  <2>1. CASE id \in DOMAIN store.sets /\ store'.sets[id] = store.sets[id]
    <3>1. PICK S : S = store.sets[id]
      OBVIOUS
    <3>2. SetInv(S, ws)
      BY <2>1, <3>1 DEF StoreInv
    <3>3. SetInv(S, ws') /\ S = store'.sets[id]
      BY <2>1, <3>1, <3>2, SetStays
    <3> QED BY <3>3
  <2> QED BY <2>1 DEF Grows
<1> QED BY <1>1 DEF StoreInv, Grows, Shape

-----------------------------------------------------------------------------
(* A call and a lookup stay as good as they were, whatever others do. *)
LEMMA CallStays ==
  ASSUME WsInv, Moves, CallInv, call' = call
  PROVE  CallInv'
<1>1. ASSUME call.kind = "search" PROVE Searching(call, ws')
  <2>1. Searching(call, ws) /\ CallShape(call)
    BY <1>1 DEF CallInv
  <2>2. \A p \in DOMAIN call.revs : p \in Paths
    BY <2>1 DEF Searching, CallShape, Elems
  <2>3. \A p \in DOMAIN call.revs : ws'.cache[p] # Unseen
    BY <2>1, <2>2 DEF Searching, Moves
  <2> QED BY <2>1, <2>3 DEF Searching
<1>2. CallShape(call)
  BY DEF CallInv
<1> QED BY <1>1, <1>2 DEF CallInv

Remembers == \A p \in Paths : during[p] \subseteq during'[p]

LEMMA LookStays ==
  ASSUME WsInv, Moves, StoreInv, Grows, Remembers, NEW l, LookGood(l, store, ws, during),
         (l.kind = "set" /\ l.at = "done") => ws'.cache = ws.cache
  PROVE  LookGood(l, store', ws', during')
<1>1. ASSUME NEW k, Stood(k, during) PROVE Stood(k, during')
  BY <1>1 DEF Stood, IsPlace, Remembers
<1>2. ASSUME NEW id \in Nat, id < store.next
      PROVE  /\ id < store'.next
             /\ id \in DOMAIN store'.handles => id \in DOMAIN store.handles /\ store'.handles[id] = store.handles[id]
  <2>1. store.next \in Nat /\ store'.next \in Nat /\ store'.next >= store.next
    BY DEF StoreInv, Grows, Shape
  <2> QED BY <1>2, <2>1 DEF Grows
<1>3. ASSUME Scanning(l, store, during) PROVE Scanning(l, store', during')
  BY <1>1, <1>2, <1>3 DEF Scanning
<1>4. ASSUME Answer(l, store, during) PROVE Answer(l, store', during')
  BY <1>1, <1>2, <1>4 DEF Answer
<1>5. ASSUME NEW S, SetShape(S), Unlisted(S, during) PROVE Unlisted(S, during')
  BY <1>5 DEF SetShape, Unlisted, Remembers
<1>6. ASSUME NEW S, SetShape(S), Backed(S, ws)
      PROVE  Backed(S, ws') /\ \A p \in DOMAIN S.revs : p \in Paths /\ ws.cache[p] # Unseen
  <2>1. \A p \in DOMAIN S.revs : p \in Paths /\ ws.cache[p] # Unseen
    BY <1>6 DEF SetShape, Backed, Elems
  <2> QED BY <1>6, <2>1 DEF Backed, Moves
<1>7. ASSUME Inspecting(l, ws, during) PROVE Inspecting(l, ws', during')
  <2>1. SetInv(l.set, ws) /\ SetInv(l.set, ws')
    BY <1>7, SetStays DEF Inspecting
  <2>2. ASSUME l.set.kind = "current", NEW p \in DOMAIN l.set.revs \ Elems(l.todo)
        PROVE  Image(l.set, p) \in during'[p] /\ (l.set.seq = ws'.seq => ws'.cache[p] = Image(l.set, p))
    <3>1. Backed(l.set, ws) /\ SetShape(l.set) /\ l.set.seq <= ws.seq
      BY <2>1, <2>2 DEF SetInv
    <3>2. p \in Paths /\ ws.cache[p] # Unseen
      BY <1>6, <3>1
    <3>3. Image(l.set, p) \in during[p] /\ (l.set.seq = ws.seq => ws.cache[p] = Image(l.set, p))
      BY <1>7, <2>2 DEF Inspecting
    <3>4. l.set.seq \in Nat /\ ws.seq \in Nat /\ ws'.seq \in Nat /\ ws'.seq >= ws.seq
      BY <3>1 DEF SetShape, WsInv, Moves
    <3>5. l.set.seq = ws'.seq => ws'.seq = ws.seq /\ l.set.seq = ws.seq
      BY <3>1, <3>4
    <3> QED BY <3>2, <3>3, <3>5 DEF Remembers, Moves
  <2>3. l.set.kind = "current" => Unlisted(l.set, during')
    BY <1>5, <1>7, <2>1 DEF Inspecting, SetInv
  <2> QED BY <1>7, <2>1, <2>2, <2>3 DEF Inspecting
<1>8. ASSUME NEW S, Sure(S, ws, during) PROVE Sure(S, ws', during')
  <2>1. SetShape(S) /\ Backed(S, ws) /\ Unlisted(S, during)
    BY <1>8 DEF Sure
  <2>2. Backed(S, ws') /\ Unlisted(S, during') /\ \A p \in DOMAIN S.revs : p \in Paths
    BY <2>1, <1>5, <1>6
  <2> QED BY <1>8, <2>1, <2>2 DEF Sure, Remembers
<1>9. ASSUME l.kind = "set", l.at = "done", Hydrated(l, ws) PROVE Hydrated(l, ws')
  BY <1>9 DEF Hydrated
<1> QED BY <1>3, <1>4, <1>7, <1>8, <1>9 DEF LookGood

(* One that fails. *)
LEMMA LooksFail ==
  ASSUME NEW l, LookShape(l), NEW m, m = Failed(l), NEW s, NEW w, NEW d
  PROVE  LookGood(m, s, w, d) /\ m.kind = l.kind
<1>1. LookShape(m) /\ m.at = "done" /\ ~m.ok /\ m.kind = l.kind
  BY DEF LookShape, Failed
<1> QED BY <1>1 DEF LookGood, LookAt

(* A lookup that begins. *)
LEMMA LooksBegin ==
  ASSUME NEW s, NEW w, NEW d
  PROVE  /\ LookGood(NoLook, s, w, d) /\ LookGood(Failed(NoLook), s, w, d)
         /\ \A id : LookGood(StartResolve(id), s, w, d)
         /\ \A id : \A kind \in {"all", "set"} : LookGood(StartSet(kind, id), s, w, d)
         /\ \A p \in Paths : \A name :
              LookGood([NoLook EXCEPT !.kind = "locator", !.at = "find", !.path = p, !.name = name], s, w, d)
<1>1. LookShape(NoLook) /\ LookGood(NoLook, s, w, d)
  BY DEF LookGood, LookShape, LookAt, NoLook
<1>2. LookGood(Failed(NoLook), s, w, d)
  BY <1>1, LooksFail
<1>3. ASSUME NEW id PROVE LookGood(StartResolve(id), s, w, d)
  <2>1. PICK l : l = StartResolve(id)
    OBVIOUS
  <2>2. LookShape(l) /\ l.kind = "handle" /\ l.at = "resolve"
    BY <1>1, <2>1 DEF LookShape, StartResolve
  <2> QED BY <2>1, <2>2 DEF LookGood, LookAt
<1>4. ASSUME NEW id, NEW kind \in {"all", "set"} PROVE LookGood(StartSet(kind, id), s, w, d)
  <2>1. PICK l : l = StartSet(kind, id)
    OBVIOUS
  <2>2. LookShape(l) /\ l.kind = kind /\ l.at = "inspect"
    BY <1>1, <2>1 DEF LookShape, StartSet
  <2> QED BY <2>1, <2>2 DEF LookGood, LookAt
<1>5. ASSUME NEW p \in Paths, NEW name
      PROVE  LookGood([NoLook EXCEPT !.kind = "locator", !.at = "find", !.path = p, !.name = name], s, w, d)
  <2>1. PICK l : l = [NoLook EXCEPT !.kind = "locator", !.at = "find", !.path = p, !.name = name]
    OBVIOUS
  <2>2. LookShape(l) /\ l.kind = "locator" /\ l.at = "find" /\ l.path = p
    BY <1>1, <2>1 DEF LookShape
  <2> QED BY <2>1, <2>2 DEF LookGood, LookAt
<1> QED BY <1>1, <1>2, <1>3, <1>4, <1>5

(* One that goes on to the next handle. *)
Bears(l, w, d) == l.kind = "all" => Sure(l.set, w, d) /\ l.set.complete
LEMMA LooksOn ==
  ASSUME NEW s, NEW w, NEW d, NEW l, LookShape(l), l.kind \in {"all", "locator"}, Bears(l, w, d),
         NEW m, m = NextHandle(l)
  PROVE  LookGood(m, s, w, d) /\ m.kind = l.kind
<1>1. CASE l.rest # <<>>
  <2>1. m = [l EXCEPT !.at = "resolve", !.id = Head(l.rest), !.rest = Tail(l.rest)]
    BY <1>1 DEF NextHandle, LookShape
  <2> DEFINE i == Head(l.rest)
             r == Tail(l.rest)
  <2> HIDE DEF i, r
  <2>2. m = [l EXCEPT !.at = "resolve", !.id = i, !.rest = r]
    BY <2>1 DEF i, r
  <2>3. LookShape(m) /\ m.at = "resolve" /\ m.kind = l.kind /\ m.set = l.set
    BY <2>2 DEF LookShape
  <2> QED BY <2>3 DEF LookGood, LookAt, Bears
<1>2. CASE l.rest = <<>> /\ l.kind = "all"
  <2>1. m = [l EXCEPT !.at = "hydrate"]
    BY <1>2 DEF NextHandle
  <2>2. LookShape(m) /\ m.at = "hydrate" /\ m.kind = l.kind /\ m.set = l.set
    BY <2>1 DEF LookShape
  <2> QED BY <1>2, <2>2 DEF LookGood, LookAt, Bears
<1>3. CASE l.rest = <<>> /\ l.kind # "all"
  <2>1. m = [l EXCEPT !.at = "select"]
    BY <1>3 DEF NextHandle
  <2>2. LookShape(m) /\ m.at = "select" /\ m.kind = l.kind
    BY <2>1 DEF LookShape
  <2> QED BY <1>3, <2>2 DEF LookGood, LookAt
<1> QED BY <1>1, <1>2, <1>3

(* One whose handle resolves, or does not. *)
Resolves(l, r, s, d) ==
  r.status # "conflicted" =>
    /\ l.id \in Nat /\ l.id < s.next /\ Stood(r.loc, d)
    /\ l.id \in DOMAIN s.handles => Fits(r.loc, s.handles[l.id])
LEMMA LooksResolve ==
  ASSUME NEW s, NEW w, NEW d, NEW l, LookShape(l), l.kind \in {"handle", "all", "locator"}, Bears(l, w, d),
         NEW r, Resolves(l, r, s, d),
         NEW m, m = Resolved(l, r)
  PROVE  LookGood(m, s, w, d) /\ m.kind = l.kind
<1>1. CASE l.kind = "handle"
  <2> DEFINE b == r.status # "conflicted"
  <2>1. m = [l EXCEPT !.at = "done", !.out = r, !.ok = b]
    BY <1>1 DEF Resolved
  <2>2. b \in BOOLEAN
    OBVIOUS
  <2> HIDE DEF b
  <2>3. LookShape(m) /\ m.at = "done" /\ m.kind = l.kind /\ m.out = r /\ m.ok = b /\ m.id = l.id
    BY <2>1, <2>2 DEF LookShape
  <2>4. m.ok => Answer(m, s, d)
    BY <2>3 DEF b, Answer, Resolves
  <2> QED BY <1>1, <2>3, <2>4 DEF LookGood, LookAt
<1>2. CASE l.kind = "all"
  <2>1. m = NextHandle(l) \/ m = Failed(l)
    BY <1>2 DEF Resolved
  <2> QED BY <1>2, <2>1, LooksOn, LooksFail
<1>3. CASE l.kind = "locator"
  <2>1. CASE r.status = "conflicted"
    <3>1. m = NextHandle(l)
      BY <1>3, <2>1 DEF Resolved
    <3> QED BY <1>3, <3>1, LooksOn
  <2>2. CASE r.status # "conflicted"
    <3>1. PICK u : u = l.unique \cup {[id |-> l.id, loc |-> r.loc]}
      OBVIOUS
    <3>2. PICK k : k = [l EXCEPT !.unique = u]
      OBVIOUS
    <3>3. LookShape(k) /\ k.kind = l.kind
      BY <3>2 DEF LookShape
    <3>4. m = NextHandle(k)
      BY <1>3, <2>2, <3>1, <3>2 DEF Resolved
    <3>5. Bears(k, w, d)
      BY <1>3, <3>3 DEF Bears
    <3> QED BY <1>3, <3>3, <3>4, <3>5, LooksOn
  <2> QED BY <2>1, <2>2
<1> QED BY <1>1, <1>2, <1>3

LEMMA LookKinds ==
  /\ NoLook.kind = "none" /\ NoLook.at = "idle" /\ Failed(NoLook).kind = "none"
  /\ \A id : StartResolve(id).kind = "handle" /\ \A kind : StartSet(kind, id).kind = kind
  /\ \A p, name : [NoLook EXCEPT !.kind = "locator", !.at = "find", !.path = p, !.name = name].kind = "locator"
BY DEF NoLook, StartResolve, StartSet, Failed

-----------------------------------------------------------------------------
(* The steps of a lookup. *)
LEMMA LookupKeeps ==
  ASSUME IInv, Moves, Grows, UNCHANGED <<disk, call, during, plan>>, look.at # "idle",
         LookGood(look', store', ws', during'), look'.kind = "set" <=> look.kind = "set"
  PROVE  IInv'
<1>1. TreeInv' /\ WsInv' /\ PlanInv'
  BY DEF IInv, TreeInv, WsInv, PlanInv, OnPaths, Moves
<1>2. StoreInv' /\ CallInv'
  BY StoreStep, CallStays DEF IInv
<1>3. DuringInv'
  BY DEF IInv, DuringInv
<1>4. LookInv'
  BY DEF IInv, LookInv
<1> QED BY <1>1, <1>2, <1>3, <1>4 DEF IInv

(* What the invariant says of a lookup is there after a step that leaves it. *)
LEMMA LookCarries ==
  ASSUME IInv, Moves, Grows, during' = during, ~(look.kind = "set" /\ look.at = "done")
  PROVE  LookGood(look, store', ws', during') /\ LookShape(look)
<1>1. Remembers
  BY DEF Remembers
<1>2. LookGood(look, store, ws, during)
  BY DEF IInv, LookInv
<1>3. LookGood(look, store', ws', during')
  BY <1>1, <1>2, LookStays DEF IInv
<1> QED BY <1>2, <1>3 DEF LookGood

(* A range that resolves stands there. *)
LEMMA RangeStands ==
  ASSUME TreeInv, DuringInv, look.at # "idle", NEW q, IsHandle(q),
         NEW r, r = resolveRange(q), r.status # "conflicted"
  PROVE  Stood(r.loc, during) /\ r.loc.text = q.loc.text
<1> DEFINE l == q.loc
           image == disk[l.path]
           candidates == locateRanges(l.path, image, l)
           inPlace == {c \in candidates : c.start = l.start /\ c.before = l.before}
<1>1. l.path \in Paths /\ l.start \in Nat /\ l.end \in Int /\ image \in during[l.path]
  BY DEF IsHandle, IsPlace, DuringInv
<1>2. IsText(image)
  BY DEF resolveRange, Conflicted
<1>3. image \in Seq(Tokens) /\ Len(image) \in Nat
  <2>1. image \in Images
    BY <1>1 DEF TreeInv
  <2> QED BY <1>2, <2>1, ImageParts
<1>4. CASE locatorMatches(image, l, l.start) /\ r = Resolution("exact", l)
  <2>1. l.start + (l.end - l.start) = l.end /\ l.start + l.end - l.start = l.end
    BY <1>1
  <2>2. l.end <= Len(image) /\ Span(image, l.start, l.end) = l.text
    BY <1>4, <2>1 DEF locatorMatches
  <2>3. r.loc = l
    BY <1>4 DEF Resolution
  <2> QED BY <1>1, <1>2, <2>2, <2>3 DEF Stood, IsPlace
<1>5. ASSUME NEW c \in candidates
      PROVE  Stood(c, during) /\ c.text = l.text
  <2> DEFINE length == l.end - l.start
  <2>1. PICK s \in 0..(Len(image) - length) :
          c = rangeHandle(l.path, image, s, s + length) /\ Span(image, s, s + length) = l.text
    BY DEF locateRanges
  <2>2. c.path = l.path /\ c.start = s /\ c.end = s + length /\ c.text = Span(image, s, s + length)
    BY <2>1 DEF rangeHandle
  <2>3. s \in Nat /\ s + length \in Int /\ s + length <= Len(image)
    BY <1>1, <1>3, <2>1
  <2> QED BY <1>1, <1>2, <2>1, <2>2, <2>3 DEF Stood, IsPlace
<1>6. CASE Cardinality(candidates) = 1 /\ r = Resolution("relocated", CHOOSE c \in candidates : TRUE)
  <2>1. candidates # {}
    BY <1>6, FS_EmptySet
  <2>2. r.loc \in candidates
    BY <1>6, <2>1 DEF Resolution
  <2> QED BY <1>5, <2>2
<1>7. CASE inPlace # {} /\ r = Resolution("relocated", CHOOSE c \in inPlace : TRUE)
  <2>1. r.loc \in inPlace
    BY <1>7 DEF Resolution
  <2> QED BY <1>5, <2>1
<1>8. \/ locatorMatches(image, l, l.start) /\ r = Resolution("exact", l)
      \/ Cardinality(candidates) = 1 /\ r = Resolution("relocated", CHOOSE c \in candidates : TRUE)
      \/ inPlace # {} /\ r = Resolution("relocated", CHOOSE c \in inPlace : TRUE)
  <2> HIDE DEF candidates, inPlace
  <2> QED BY <1>2 DEF resolveRange, Conflicted, candidates, inPlace
<1> QED BY <1>4, <1>6, <1>7, <1>8

LEMMA TouchedGrows ==
  ASSUME StoreInv, NEW id, store' = Touched(store, id)
  PROVE  Grows
<1>1. CASE store' = store
  BY <1>1, StillGrows
<1>2. CASE store' = [store EXCEPT !.handles = Narrow(store.handles, DOMAIN store.handles \ {id})]
  <2> DEFINE h == Narrow(store.handles, DOMAIN store.handles \ {id})
  <2>1. \A x \in DOMAIN h : x \in DOMAIN store.handles /\ h[x] = store.handles[x]
    BY DEF Narrow
  <2> HIDE DEF h
  <2>2. store' = [store EXCEPT !.handles = h]
    BY <1>2 DEF h
  <2>3. Shape(store) /\ store.next \in Nat
    BY DEF StoreInv, Shape
  <2>4. Shape(store)' /\ store'.handles = h /\ store'.next = store.next /\ store'.sets = store.sets
    BY <2>2, <2>3 DEF Shape
  <2> QED BY <2>1, <2>3, <2>4 DEF StoreInv, Grows
<1>3. Shape(store)
  BY DEF StoreInv, Shape
<1> QED BY <1>1, <1>2, <1>3 DEF Touched, Shape

(* A handle that is resolved, or not, within a step. *)
LEMMA LookResolves ==
  ASSUME IInv, Moves, Grows, UNCHANGED <<disk, call, during, plan>>, look.at # "idle",
         LookShape(look), look.kind \in {"handle", "all", "locator"}, Bears(look, ws', during'),
         NEW r, Resolves(look, r, store', during'),
         look' = Resolved(look, r)
  PROVE  IInv'
<1>1. PICK s, w, d, l : s = store' /\ w = ws' /\ d = during' /\ l = look
  OBVIOUS
<1>2. PICK m : m = Resolved(l, r)
  OBVIOUS
<1>3. LookShape(l) /\ l.kind \in {"handle", "all", "locator"} /\ Bears(l, w, d)
  BY <1>1
<1>4. Resolves(l, r, s, d)
  BY <1>1
<1>5. LookGood(m, s, w, d) /\ m.kind = l.kind
  BY <1>2, <1>3, <1>4, LooksResolve
<1>6. LookGood(look', store', ws', during') /\ look'.kind = look.kind
  BY <1>1, <1>2, <1>5
<1> QED BY <1>6, LookupKeeps

LEMMA ResolveHandleKeeps ==
  ASSUME IInv, ResolveHandle, UNCHANGED <<plan, preview>>
  PROVE  IInv'
<1>1. look.at = "resolve" /\ UNCHANGED <<disk, call, held, during>>
  BY DEF ResolveHandle
<1>2. LookGood(look, store, ws, during) /\ TreeInv /\ WsInv /\ StoreInv /\ DuringInv
  BY DEF IInv, LookInv
<1>3. LookShape(look) /\ look.kind \in {"handle", "all", "locator"}
  BY <1>1, <1>2 DEF LookGood, LookAt
<1>4. CASE ~Known(look.id)
  <2>1. store' = Touched(store, look.id) /\ look' = Resolved(look, Conflicted) /\ ws' = ws
    BY <1>4 DEF ResolveHandle
  <2>2. Moves /\ Grows
    BY <1>2, <2>1, StillMoves, TouchedGrows
  <2>3. Bears(look, ws', during')
    BY <1>1, <1>2, <2>1 DEF LookGood, Bears
  <2>4. PICK r : r = Conflicted
    OBVIOUS
  <2>5. Resolves(look, r, store', during') /\ look' = Resolved(look, r)
    BY <2>1, <2>4 DEF Conflicted, Resolves
  <2> QED BY <1>1, <1>3, <2>2, <2>3, <2>5, LookResolves
<1>5. CASE Known(look.id)
  <2>1. PICK q : q = store.handles[look.id]
    OBVIOUS
  <2>2. IsHandle(q) /\ look.id \in Nat /\ look.id < store.next
    BY <1>2, <1>5, <2>1 DEF Known, StoreInv
  <2>3. q.loc.path \in Paths
    BY <2>2 DEF IsHandle, IsPlace
  <2>4. PICK torn \in Torn :
          /\ ws' = Refresh(ws, q.loc.path)
          /\ look' = CASE q.kind = "range" -> Resolved(look, IF torn THEN Conflicted ELSE resolveRange(q))
                       [] q.kind = "symbol" /\ ~torn /\ resolveSymbolInPlace(q.loc) ->
                            Resolved(look, Resolution("exact", q.loc))
                       [] OTHER -> [look EXCEPT !.at = "scan", !.todo = collectScopedFiles(Paths),
                                                 !.found = {}, !.record = q]
          /\ UNCHANGED store
    BY <1>5, <2>1 DEF ResolveHandle
  <2>5. Moves /\ Grows
    BY <1>2, <2>3, <2>4, RefreshMoves, StillGrows
  <2>6. LookGood(look, store', ws', during')
    BY <1>1, <2>5, LookCarries
  <2>7. Bears(look, ws', during')
    BY <1>1, <2>6 DEF LookGood, Bears
  <2>8. CASE q.kind = "range"
    <3>1. PICK r : r = IF torn THEN Conflicted ELSE resolveRange(q)
      OBVIOUS
    <3>2. look' = Resolved(look, r)
      BY <2>4, <2>8, <3>1
    <3>3. ASSUME r.status # "conflicted" PROVE Stood(r.loc, during') /\ Fits(r.loc, q)
      <4>1. r = resolveRange(q)
        BY <3>1, <3>3 DEF Conflicted
      <4>2. Stood(r.loc, during) /\ r.loc.text = q.loc.text
        BY <1>1, <1>2, <2>2, <3>3, <4>1, RangeStands
      <4> QED BY <1>1, <2>8, <4>2 DEF Fits
    <3>4. Resolves(look, r, store', during')
      BY <2>1, <2>2, <2>4, <3>3 DEF Resolves
    <3> QED BY <1>1, <1>3, <2>5, <2>7, <3>2, <3>4, LookResolves
  <2>9. CASE q.kind = "symbol" /\ ~torn /\ resolveSymbolInPlace(q.loc)
    <3>1. PICK r : r = Resolution("exact", q.loc)
      OBVIOUS
    <3>2. look' = Resolved(look, r) /\ r.loc = q.loc
      BY <2>4, <2>9, <3>1 DEF Resolution
    <3>3. Stood(q.loc, during')
      <4>1. disk[q.loc.path] \in during'[q.loc.path]
        BY <1>1, <1>2, <2>3 DEF DuringInv
      <4> QED BY <2>2, <2>9, <4>1 DEF resolveSymbolInPlace, Stood, IsHandle
    <3>4. Fits(r.loc, q)
      BY <2>9, <3>2 DEF Fits, Alike
    <3>5. Resolves(look, r, store', during')
      BY <2>1, <2>2, <2>4, <3>2, <3>3, <3>4 DEF Resolves
    <3> QED BY <1>1, <1>3, <2>5, <2>7, <3>2, <3>5, LookResolves
  <2>10. CASE q.kind # "range" /\ ~(q.kind = "symbol" /\ ~torn /\ resolveSymbolInPlace(q.loc))
    <3>1. q.kind = "symbol"
      BY <2>2, <2>10 DEF IsHandle
    <3>2. PICK files : files = collectScopedFiles(Paths)
      OBVIOUS
    <3>3. files \in Seq(Paths)
      BY <3>2, ListingOf
    <3>4. look' = [look EXCEPT !.at = "scan", !.todo = files, !.found = {}, !.record = q]
      BY <2>4, <2>10, <3>2
    <3>5. PICK m : m = [look EXCEPT !.at = "scan", !.todo = files, !.found = {}, !.record = q]
      OBVIOUS
    <3>6. /\ LookShape(m) /\ m.at = "scan" /\ m.kind = look.kind /\ m.set = look.set
          /\ m.id = look.id /\ m.record = q /\ m.found = {}
      BY <1>3, <3>3, <3>5 DEF LookShape
    <3>7. Scanning(m, store', during')
      BY <2>1, <2>2, <2>4, <3>1, <3>6 DEF Scanning, IsHandle
    <3>8. LookGood(m, store', ws', during')
      BY <1>3, <2>7, <3>6, <3>7 DEF LookGood, LookAt, Bears
    <3>9. LookGood(look', store', ws', during') /\ look'.kind = look.kind
      BY <3>4, <3>5, <3>6, <3>8
    <3> QED BY <1>1, <2>5, <3>9, LookupKeeps
  <2> QED BY <2>8, <2>9, <2>10
<1> QED BY <1>4, <1>5

LEMMA ScanFileKeeps ==
  ASSUME IInv, ScanFile, UNCHANGED <<plan, preview>>
  PROVE  IInv'
<1>1. look.at = "scan" /\ look.todo # <<>> /\ UNCHANGED <<disk, store, call, held, during>>
  BY DEF ScanFile
<1>2. TreeInv /\ WsInv /\ StoreInv /\ DuringInv
  BY DEF IInv
<1>3. LookGood(look, store, ws, during) /\ LookShape(look) /\ Scanning(look, store, during)
  BY <1>1 DEF IInv, LookInv, LookGood
<1>4. PICK p : p = Head(look.todo)
  OBVIOUS
<1>5. p \in Paths /\ Tail(look.todo) \in Seq(Paths)
  BY <1>1, <1>3, <1>4 DEF LookShape
<1>6. PICK torn \in Torn :
        /\ ws' = Refresh(ws, p)
        /\ look' = [look EXCEPT !.todo = Tail(look.todo),
                                !.found = IF torn THEN look.found ELSE look.found \cup sectionCandidates(p, look.record.loc)]
  BY <1>3, <1>4 DEF ScanFile, LookShape
<1>7. Moves /\ Grows
  BY <1>1, <1>2, <1>5, <1>6, RefreshMoves, StillGrows
<1>8. LookGood(look, store', ws', during')
  BY <1>1, <1>7, LookCarries
<1>9. PICK k : k = IF torn THEN look.found ELSE look.found \cup sectionCandidates(p, look.record.loc)
  OBVIOUS
<1>10. ASSUME NEW c \in sectionCandidates(p, look.record.loc)
       PROVE  Stood(c, during') /\ Alike(c, look.record.loc)
  <2>1. IsText(disk[p]) /\ disk[p] \in Seq(Tokens) /\ disk[p] \in during'[p]
    <3>1. IsText(disk[p])
      BY <1>10 DEF sectionCandidates
    <3>2. disk[p] \in Images /\ disk[p] \in during'[p]
      BY <1>1, <1>2, <1>5 DEF TreeInv, DuringInv
    <3> QED BY <3>1, <3>2, ImageParts
  <2>2. PICK s \in Elems(Declared(disk[p], Name[look.record.loc.text[1]])) :
          c = rangeHandle(p, disk[p], s, s + 1) /\ Fingerprint(c.text) = Fingerprint(look.record.loc.text)
    BY <1>10, <2>1 DEF sectionCandidates
  <2>3. s \in 0..(Len(disk[p]) - 1) /\ Name[disk[p][s + 1]] = Name[look.record.loc.text[1]] /\ Len(disk[p]) \in Nat
    BY <2>1, <2>2, DeclaredOf
  <2>4. c.path = p /\ c.start = s /\ c.end = s + 1 /\ c.text = Span(disk[p], s, s + 1)
    BY <2>2 DEF rangeHandle
  <2>5. s \in Nat /\ s + 1 \in Int /\ s + 1 <= Len(disk[p])
    BY <2>3
  <2>6. Span(disk[p], s, s + 1)[1] = disk[p][s + 1]
    BY <2>1, <2>3 DEF Span
  <2> QED BY <1>5, <2>1, <2>2, <2>3, <2>4, <2>5, <2>6 DEF Stood, IsPlace, Alike
<1>11. \A c \in k : Stood(c, during') /\ Alike(c, look.record.loc)
  BY <1>1, <1>3, <1>9, <1>10 DEF Scanning
<1>12. PICK m : m = [look EXCEPT !.todo = Tail(look.todo), !.found = k]
  OBVIOUS
<1>13. PICK rest : rest = Tail(look.todo)
  OBVIOUS
<1>14. /\ LookShape(m) /\ m.at = "scan" /\ m.kind = look.kind /\ m.set = look.set
       /\ m.id = look.id /\ m.record = look.record /\ m.found = k
  <2>1. m = [look EXCEPT !.todo = rest, !.found = k] /\ rest \in Seq(Paths)
    BY <1>5, <1>12, <1>13
  <2> QED BY <1>1, <1>3, <2>1 DEF LookShape
<1>15. Scanning(m, store', during')
  BY <1>1, <1>3, <1>11, <1>14 DEF Scanning
<1>16. LookGood(m, store', ws', during')
  BY <1>1, <1>8, <1>14, <1>15 DEF LookGood, LookAt
<1>17. look' = m
  BY <1>6, <1>9, <1>12
<1>18. LookGood(look', store', ws', during') /\ look'.kind = look.kind
  BY <1>14, <1>16, <1>17
<1> QED BY <1>1, <1>7, <1>18, LookupKeeps

LEMMA resolveSymbolKeeps ==
  ASSUME IInv, resolveSymbol, UNCHANGED <<plan, preview>>
  PROVE  IInv'
<1>1. look.at = "scan" /\ UNCHANGED <<disk, ws, store, call, held, during>>
  BY DEF resolveSymbol
<1>2. Moves /\ Grows
  BY <1>1, StillMoves, StillGrows DEF IInv
<1>3. LookGood(look, store', ws', during') /\ LookShape(look)
  BY <1>1, <1>2, LookCarries
<1>4. PICK r : r = FoundSymbol(look.record.loc, look.found)
  OBVIOUS
<1>5. Scanning(look, store', during') /\ Bears(look, ws', during') /\ look.kind \in {"handle", "all", "locator"}
  BY <1>1, <1>3 DEF LookGood, LookAt, Bears
<1>6. ASSUME r.status # "conflicted"
      PROVE  Stood(r.loc, during') /\ Alike(r.loc, look.record.loc)
  <2>1. Cardinality(look.found) = 1
    BY <1>4, <1>6 DEF FoundSymbol, Conflicted
  <2>2. look.found # {}
    BY <2>1, FS_EmptySet
  <2>3. PICK c \in look.found : r.loc = c
    BY <1>4, <2>1, <2>2 DEF FoundSymbol, Resolution
  <2> QED BY <1>5, <2>3 DEF Scanning
<1>7. Resolves(look, r, store', during')
  BY <1>5, <1>6 DEF Resolves, Scanning, Fits
<1>8. look' = Resolved(look, r)
  BY <1>4 DEF resolveSymbol
<1> QED BY <1>1, <1>2, <1>3, <1>5, <1>7, <1>8, LookResolves

(* What a search registers are handles. *)
Registers(records, p, image, found) ==
  \/ records = [i \in DOMAIN found |-> SymbolRecord(p, image, found[i])]
  \/ records = [i \in DOMAIN found |-> RangeRecord(p, image, found[i])]
LEMMA RecordsGrow ==
  ASSUME StoreInv, NEW p \in Paths, NEW image, NEW found \in Seq(Nat), NEW records,
         Registers(records, p, image, found), store' = PutHandles(store, records)
  PROVE  Grows
<1>1. DOMAIN records = 1..Len(found) /\ Len(found) \in Nat
  BY DEF Registers
<1>2. ASSUME NEW i \in DOMAIN records PROVE IsHandle(records[i]) /\ records[i] \in Elems(records)
  <2>1. PICK s \in Nat : records[i] = SymbolRecord(p, image, s) \/ records[i] = RangeRecord(p, image, s)
    BY <1>1 DEF Registers
  <2>2. s + 1 \in Int
    OBVIOUS
  <2>3. IsHandle(records[i])
    BY <2>1, <2>2 DEF SymbolRecord, RangeRecord, rangeHandle, IsHandle, IsPlace
  <2> QED BY <2>3 DEF Elems
<1>3. records \in [1..Len(found) -> Elems(records)]
  <2>1. records = [i \in 1..Len(found) |-> records[i]]
    BY <1>1 DEF Registers
  <2> QED BY <1>1, <1>2, <2>1
<1>4. records \in Seq(Elems(records))
  BY <1>1, <1>3
<1>5. PICK t : t = PutHandles(store, records)
  OBVIOUS
<1>6. Adds(t, store, Elems(records), {})
  <2>1. PICK s : s = store
    OBVIOUS
  <2>2. Numbered(s)
    BY <2>1, StoreNumbered
  <2>3. Adds(t, s, Elems(records), {})
    BY <1>4, <1>5, <2>1, <2>2, PutHandlesAdds
  <2> QED BY <2>1, <2>3
<1>7. \A r \in Elems(records) : IsHandle(r)
  BY <1>2 DEF Elems
<1> QED BY <1>5, <1>6, <1>7, AddsGrows

LEMMA ResolveSymbolLocatorKeeps ==
  ASSUME IInv, ResolveSymbolLocator, UNCHANGED <<plan, preview>>
  PROVE  IInv'
<1>1. look.at = "find" /\ UNCHANGED <<disk, call, held, during>>
  BY DEF ResolveSymbolLocator
<1>2. LookGood(look, store, ws, during) /\ TreeInv /\ WsInv /\ StoreInv
  BY DEF IInv, LookInv
<1>3. LookShape(look) /\ look.path \in Paths /\ look.kind = "locator"
  BY <1>1, <1>2 DEF LookGood, LookAt
<1>0. PICK torn \in Torn : \E found, records, rest :
        /\ found = IF torn \/ ~IsText(disk[look.path]) THEN <<>> ELSE Declared(disk[look.path], look.name)
        /\ records = [i \in DOMAIN found |-> SymbolRecord(look.path, disk[look.path], found[i])]
        /\ store' = PutHandles(store, records)
        /\ ws' = Refresh(ws, look.path)
        /\ look' = NextHandle([look EXCEPT !.kind = "locator", !.rest = rest])
  BY DEF ResolveSymbolLocator
<1>4. PICK found, records, rest :
        /\ found = IF torn \/ ~IsText(disk[look.path]) THEN <<>> ELSE Declared(disk[look.path], look.name)
        /\ records = [i \in DOMAIN found |-> SymbolRecord(look.path, disk[look.path], found[i])]
        /\ store' = PutHandles(store, records)
        /\ ws' = Refresh(ws, look.path)
        /\ look' = NextHandle([look EXCEPT !.kind = "locator", !.rest = rest])
  BY <1>0
<1>5. found \in Seq(Nat)
  <2>1. CASE found = <<>>
    BY <2>1
  <2>2. CASE IsText(disk[look.path]) /\ found = Declared(disk[look.path], look.name)
    <3>1. disk[look.path] \in Seq(Tokens)
      BY <1>2, <1>3, <2>2, ImageParts DEF TreeInv
    <3> QED BY <2>2, <3>1, DeclaredOf
  <2> QED BY <1>4, <2>1, <2>2
<1>6. Moves /\ Grows
  <2>1. Moves
    BY <1>2, <1>3, <1>4, RefreshMoves
  <2>2. PICK p \in Paths : p = look.path
    BY <1>3
  <2>3. PICK image : p = look.path /\ image = disk[look.path]
    BY <2>2
  <2>4. Registers(records, p, image, found)
    BY <1>4, <2>3 DEF Registers
  <2> QED BY <1>2, <1>4, <1>5, <2>1, <2>4, RecordsGrow
<1>7. PICK l : l = [look EXCEPT !.kind = "locator", !.rest = rest]
  OBVIOUS
<1>8. LookShape(l) /\ l.kind = "locator"
  BY <1>3, <1>7 DEF LookShape
<1>9. PICK s, w, d, m : s = store' /\ w = ws' /\ d = during' /\ m = NextHandle(l)
  OBVIOUS
<1>10. LookGood(m, s, w, d) /\ m.kind = l.kind
  BY <1>8, <1>9, LooksOn DEF Bears
<1>11. LookGood(look', store', ws', during') /\ look'.kind = look.kind
  BY <1>3, <1>4, <1>7, <1>8, <1>9, <1>10
<1> QED BY <1>1, <1>6, <1>11, LookupKeeps

LEMMA SelectSymbolKeeps ==
  ASSUME IInv, SelectSymbol, UNCHANGED <<plan, preview>>
  PROVE  IInv'
<1>1. look.at = "select" /\ UNCHANGED <<disk, ws, store, call, held, during>>
  BY DEF SelectSymbol
<1>2. Moves /\ Grows
  BY <1>1, StillMoves, StillGrows DEF IInv
<1>3. LookShape(look) /\ look.kind = "locator"
  BY <1>1 DEF IInv, LookInv, LookGood, LookAt
<1>4. CASE look' = Failed(look)
  <2>1. PICK s, w, d, l, m : s = store' /\ w = ws' /\ d = during' /\ l = look /\ m = Failed(l)
    OBVIOUS
  <2>2. LookGood(m, s, w, d) /\ m.kind = l.kind
    BY <1>3, <2>1, LooksFail
  <2>3. LookGood(look', store', ws', during') /\ look'.kind = look.kind
    BY <1>4, <2>1, <2>2
  <2> QED BY <1>1, <1>2, <2>3, LookupKeeps
<1>5. ASSUME NEW id, look' = [Answered(look) EXCEPT !.id = id]
      PROVE  IInv'
  <2>1. PICK m : m = [look EXCEPT !.at = "done", !.ok = TRUE, !.id = id]
    OBVIOUS
  <2>2. LookShape(m) /\ m.kind = "locator" /\ m.at = "done"
    BY <1>3, <2>1 DEF LookShape
  <2>3. LookGood(m, store', ws', during')
    BY <2>2 DEF LookGood, LookAt
  <2>4. look' = m
    BY <1>5, <2>1 DEF Answered
  <2>5. LookGood(look', store', ws', during') /\ look'.kind = look.kind
    BY <1>3, <2>2, <2>3, <2>4
  <2> QED BY <1>1, <1>2, <2>5, LookupKeeps
<1>6. look' = Failed(look) \/ \E id : look' = [Answered(look) EXCEPT !.id = id]
  BY DEF SelectSymbol
<1> QED BY <1>4, <1>5, <1>6

(* A lookup that fails within a step, and one that is as good as the invariant
   asks. *)
LEMMA LookFails ==
  ASSUME IInv, Moves, Grows, UNCHANGED <<disk, call, during, plan>>, look.at # "idle", look' = Failed(look)
  PROVE  IInv'
<1>1. PICK s, w, d, l, m : s = store' /\ w = ws' /\ d = during' /\ l = look /\ m = Failed(l)
  OBVIOUS
<1>2. LookShape(l)
  BY <1>1 DEF IInv, LookInv, LookGood
<1>3. LookGood(m, s, w, d) /\ m.kind = l.kind
  BY <1>1, <1>2, LooksFail
<1>4. LookGood(look', store', ws', during') /\ look'.kind = look.kind
  BY <1>1, <1>3
<1> QED BY <1>4, LookupKeeps

LEMMA InspectResultSetKeeps ==
  ASSUME IInv, InspectResultSet, UNCHANGED <<plan, preview>>
  PROVE  IInv'
<1>1. look.at = "inspect" /\ UNCHANGED <<disk, ws, call, held, during>>
  BY DEF InspectResultSet
<1>2. TreeInv /\ WsInv /\ StoreInv /\ DuringInv /\ Moves
  BY <1>1, StillMoves DEF IInv
<1>3. LookShape(look) /\ look.kind \in {"all", "set"}
  BY <1>1 DEF IInv, LookInv, LookGood, LookAt
<1>4. CASE ~LiveSet(look.id)
  <2>1. PICK k : /\ k = store.sets \/ k = Narrow(store.sets, DOMAIN store.sets \ {look.id})
                 /\ store' = [store EXCEPT !.sets = k]
    BY <1>2, <1>4 DEF InspectResultSet, StoreInv
  <2>2. \A x \in DOMAIN k : x \in DOMAIN store.sets /\ k[x] = store.sets[x]
    BY <2>1 DEF Narrow
  <2>3. Shape(store) /\ store.next \in Nat
    BY <1>2, StoreNumbered DEF Numbered
  <2>4. Shape(store)' /\ store'.handles = store.handles /\ store'.next = store.next /\ store'.sets = k
    BY <2>1, <2>3 DEF Shape
  <2>5. Grows
    BY <1>2, <2>2, <2>3, <2>4 DEF Grows, StoreInv
  <2>6. look' = Failed(look)
    BY <1>4 DEF InspectResultSet
  <2> QED BY <1>1, <1>2, <2>5, <2>6, LookFails
<1>5. CASE LiveSet(look.id)
  <2>1. PICK S : S = store.sets[look.id]
    OBVIOUS
  <2>2. SetInv(S, ws) /\ SetShape(S)
    BY <1>2, <1>5, <2>1 DEF LiveSet, StoreInv, SetInv
  <2>3. Grows
    BY <1>2, <1>5, StillGrows DEF InspectResultSet
  <2>4. CASE look' = Failed(look)
    BY <1>1, <1>2, <2>3, <2>4, LookFails
  <2>5. CASE S.kind = "historical" /\ look' = [look EXCEPT !.at = "seq", !.set = S]
    <3>1. PICK m : m = [look EXCEPT !.at = "seq", !.set = S]
      OBVIOUS
    <3>2. LookShape(m) /\ m.at = "seq" /\ m.kind = look.kind /\ m.set = S
      BY <1>3, <3>1 DEF LookShape
    <3>3. LookGood(m, store', ws', during')
      BY <1>1, <1>3, <2>2, <2>5, <3>2 DEF LookGood, LookAt, Inspecting
    <3>4. LookGood(look', store', ws', during') /\ look'.kind = look.kind
      BY <2>5, <3>1, <3>2, <3>3
    <3> QED BY <1>1, <1>2, <2>3, <3>4, LookupKeeps
  <2>6. PICK I : I = {i \in DOMAIN PathSeq : PathSeq[i] \in DOMAIN S.revs}
    OBVIOUS
  <2>7. PICK todo : todo = Kept(PathSeq, I)
    OBVIOUS
  <2>8. CASE S.kind = "current" /\ SourceFiles(S) /\ look' = [look EXCEPT !.at = "revisions", !.set = S, !.todo = todo]
    <3>1. todo \in Seq(Paths) /\ Elems(todo) = {PathSeq[i] : i \in I}
      BY <2>6, <2>7, KeptMembers, PathsAssumption
    <3>2. DOMAIN S.revs \subseteq Elems(todo)
      <4>1. DOMAIN S.revs \subseteq Paths
        BY <2>2, <2>8 DEF SetInv, Backed, SetShape, Elems
      <4> QED BY <2>6, <3>1, <4>1 DEF Paths
    <3>3. PICK m : m = [look EXCEPT !.at = "revisions", !.set = S, !.todo = todo]
      OBVIOUS
    <3>4. LookShape(m) /\ m.at = "revisions" /\ m.kind = look.kind /\ m.set = S /\ m.todo = todo
      BY <1>3, <3>1, <3>3 DEF LookShape
    <3>5. Unlisted(S, during)
      <4>1. S.scope \in SUBSET Paths /\ S.files = collectScopedFiles(S.scope)
        BY <2>2, <2>8 DEF SetShape, SourceFiles
      <4>2. Len(S.files) < MaxFiles => \A p \in S.scope \ Elems(S.files) : disk[p] = Missing
        <5>1. PICK scope \in SUBSET Paths : scope = S.scope
          BY <4>1
        <5>2. PICK files : scope = S.scope /\ files = S.files
          BY <5>1
        <5>3. files = collectScopedFiles(scope)
          BY <4>1, <5>2
        <5>4. Len(files) < MaxFiles => \A p \in scope \ Elems(files) : disk[p] = Missing
          BY <5>3, ListingOf
        <5> QED BY <5>2, <5>4
      <4>3. \A p \in S.scope : disk[p] \in during[p]
        BY <1>1, <1>2, <4>1 DEF DuringInv
      <4> QED BY <4>2, <4>3 DEF Unlisted
    <3>6. Inspecting(m, ws, during)
      BY <2>2, <2>8, <3>2, <3>4, <3>5 DEF Inspecting
    <3>7. LookGood(m, store', ws', during')
      BY <1>1, <1>3, <3>4, <3>6 DEF LookGood, LookAt
    <3>8. LookGood(look', store', ws', during') /\ look'.kind = look.kind
      BY <2>8, <3>3, <3>4, <3>7
    <3> QED BY <1>1, <1>2, <2>3, <3>8, LookupKeeps
  <2>9. S.kind \in {"current", "historical"}
    BY <2>2 DEF SetShape
  <2> QED BY <1>5, <2>1, <2>4, <2>5, <2>6, <2>7, <2>8, <2>9 DEF InspectResultSet
<1> QED BY <1>4, <1>5

LEMMA InspectRevisionKeeps ==
  ASSUME IInv, InspectRevision, UNCHANGED <<plan, preview>>
  PROVE  IInv'
<1>1. look.at = "revisions" /\ look.todo # <<>> /\ UNCHANGED <<disk, store, call, held, during>>
  BY DEF InspectRevision
<1>2. TreeInv /\ WsInv /\ StoreInv /\ DuringInv /\ Grows
  BY <1>1, StillGrows DEF IInv
<1>3. LookShape(look) /\ look.kind \in {"all", "set"} /\ Inspecting(look, ws, during)
  BY <1>1 DEF IInv, LookInv, LookGood, LookAt
<1>4. PICK p, todo : p = Head(look.todo) /\ todo = Tail(look.todo)
  OBVIOUS
<1>5. look.todo \in Seq(Paths)
  BY <1>3 DEF LookShape
<1>6. p \in Paths /\ todo \in Seq(Paths) /\ Elems(look.todo) \subseteq Elems(todo) \cup {p}
  <2>1. p \in Paths /\ todo \in Seq(Paths) /\ Len(todo) = Len(look.todo) - 1 /\ Len(look.todo) \in Nat
    BY <1>1, <1>4, <1>5
  <2>2. look.todo[1] = p /\ \A i \in 1..Len(todo) : todo[i] = look.todo[i + 1]
    BY <1>1, <1>4, <1>5
  <2>3. ASSUME NEW i \in DOMAIN look.todo PROVE look.todo[i] \in Elems(todo) \cup {p}
    <3>1. i \in 1..Len(look.todo)
      BY <1>5
    <3>2. CASE i = 1
      BY <2>2, <3>2
    <3>3. CASE i # 1
      <4>1. i - 1 \in 1..Len(todo) /\ (i - 1) + 1 = i
        BY <2>1, <3>1, <3>3
      <4>2. todo[i - 1] = look.todo[i] /\ i - 1 \in DOMAIN todo
        BY <2>1, <2>2, <4>1
      <4> QED BY <4>2 DEF Elems
    <3> QED BY <3>2, <3>3
  <2> QED BY <2>1, <2>3 DEF Elems
<1>7. ws' = Refresh(ws, p)
  BY <1>4 DEF InspectRevision
<1>8. Moves /\ ws'.cache[p] = disk[p]
  BY <1>2, <1>6, <1>7, RefreshMoves
<1>9. CASE look' = Failed(look)
  BY <1>1, <1>2, <1>8, <1>9, LookFails
<1>10. PICK at : at = IF todo = <<>> THEN "seq" ELSE "revisions"
  OBVIOUS
<1>11. CASE Rev(disk[p]) = look.set.revs[p] /\ look' = [look EXCEPT !.todo = todo, !.at = at]
  <2>1. Inspecting(look, ws', during')
    BY <1>1, <1>2, <1>8, LookCarries DEF LookGood
  <2>2. PICK m : m = [look EXCEPT !.todo = todo, !.at = at]
    OBVIOUS
  <2>3. LookShape(m) /\ m.at = at /\ m.kind = look.kind /\ m.set = look.set /\ m.todo = todo
    BY <1>3, <1>6, <2>2 DEF LookShape
  <2>4. Image(look.set, p) = disk[p] /\ disk[p] \in during'[p]
    BY <1>1, <1>2, <1>6, <1>11 DEF Rev, Image, DuringInv
  <2>5. Inspecting(m, ws', during')
    BY <1>1, <1>6, <1>8, <1>10, <2>1, <2>3, <2>4 DEF Inspecting
  <2>6. LookGood(m, store', ws', during')
    BY <1>3, <1>10, <2>3, <2>5 DEF LookGood, LookAt
  <2>7. LookGood(look', store', ws', during') /\ look'.kind = look.kind
    BY <1>11, <2>2, <2>3, <2>6
  <2> QED BY <1>1, <1>2, <1>8, <2>7, LookupKeeps
<1>12. look' = Failed(look) \/ (Rev(disk[p]) = look.set.revs[p] /\ look' = [look EXCEPT !.todo = todo, !.at = at])
  BY <1>1, <1>3, <1>4, <1>10 DEF InspectRevision, LookShape
<1> QED BY <1>9, <1>11, <1>12

LEMMA InspectSequenceKeeps ==
  ASSUME IInv, InspectSequence, UNCHANGED <<plan, preview>>
  PROVE  IInv'
<1>1. look.at \in {"seq", "revisions"} /\ UNCHANGED <<disk, ws, store, call, held, during>>
  BY DEF InspectSequence
<1>2. TreeInv /\ WsInv /\ StoreInv /\ DuringInv /\ Moves /\ Grows
  BY <1>1, StillMoves, StillGrows DEF IInv
<1>3. LookShape(look) /\ look.kind \in {"all", "set"} /\ Inspecting(look, ws, during)
  BY <1>1 DEF IInv, LookInv, LookGood, LookAt
<1>4. CASE look' = Failed(look)
  BY <1>1, <1>2, <1>4, LookFails
<1>5. PICK S : S = look.set
  OBVIOUS
<1>6. ASSUME S.seq = ws.seq, S.kind = "current" PROVE Sure(S, ws', during')
  <2>1. SetInv(S, ws)
    BY <1>3, <1>5 DEF Inspecting
  <2>2. SetShape(S) /\ Backed(S, ws) /\ Unlisted(S, during)
    BY <1>3, <1>5, <1>6, <2>1 DEF Inspecting, SetInv
  <2>3. Elems(look.todo) = {}
    <3>1. look.todo = <<>>
      BY <1>3, <1>5, <1>6 DEF InspectSequence, Inspecting
    <3> QED BY <3>1 DEF Elems
  <2>4. ASSUME NEW p \in DOMAIN S.revs PROVE Image(S, p) \in during[p] /\ (S.complete => Right(S, p))
    <3>1. Image(S, p) \in during[p] /\ ws.cache[p] = Image(S, p)
      BY <1>3, <1>5, <1>6, <2>3 DEF Inspecting
    <3> QED BY <1>6, <2>1, <3>1 DEF SetInv
  <2> QED BY <1>1, <1>6, <2>2, <2>4 DEF Sure
<1>7. CASE look.kind = "set" /\ S.seq = ws.seq /\ S.kind = "current" /\ look' = [look EXCEPT !.at = "hydrate"]
  <2>1. PICK m : m = [look EXCEPT !.at = "hydrate"]
    OBVIOUS
  <2>2. LookShape(m) /\ m.at = "hydrate" /\ m.kind = look.kind /\ m.set = S
    BY <1>3, <1>5, <2>1 DEF LookShape
  <2>3. LookGood(m, store', ws', during')
    BY <1>6, <1>7, <2>2 DEF LookGood, LookAt
  <2>4. LookGood(look', store', ws', during') /\ look'.kind = look.kind
    BY <1>7, <2>1, <2>2, <2>3
  <2> QED BY <1>1, <1>2, <2>4, LookupKeeps
<1>8. PICK rest : rest = [i \in DOMAIN S.hits |-> S.hits[i].handle]
  OBVIOUS
<1>9. PICK l : l = [look EXCEPT !.rest = rest]
  OBVIOUS
<1>10. CASE look.kind = "all" /\ S.seq = ws.seq /\ S.kind = "current" /\ S.complete /\ look' = NextHandle(l)
  <2>1. LookShape(l) /\ l.kind = "all" /\ l.set = S
    BY <1>3, <1>5, <1>9, <1>10 DEF LookShape
  <2>2. PICK s, w, d, m : s = store' /\ w = ws' /\ d = during' /\ m = NextHandle(l)
    OBVIOUS
  <2>3. Bears(l, w, d)
    BY <1>6, <1>10, <2>1, <2>2 DEF Bears
  <2>4. LookGood(m, s, w, d) /\ m.kind = l.kind
    BY <2>1, <2>2, <2>3, LooksOn
  <2>5. LookGood(look', store', ws', during') /\ look'.kind = look.kind
    BY <1>10, <2>1, <2>2, <2>4
  <2> QED BY <1>1, <1>2, <2>5, LookupKeeps
<1>11. \/ look' = Failed(look)
       \/ look.kind = "set" /\ S.seq = ws.seq /\ S.kind = "current" /\ look' = [look EXCEPT !.at = "hydrate"]
       \/ look.kind = "all" /\ S.seq = ws.seq /\ S.kind = "current" /\ S.complete /\ look' = NextHandle(l)
  <2>1. S.kind \in {"current", "historical"}
    BY <1>3, <1>5 DEF Inspecting, SetInv, SetShape
  <2>2. CASE S.seq # ws.seq \/ S.kind = "historical"
    BY <1>5, <2>2 DEF InspectSequence
  <2>3. CASE S.seq = ws.seq /\ S.kind = "current" /\ look.kind = "set"
    BY <1>5, <2>3 DEF InspectSequence
  <2>4. CASE S.seq = ws.seq /\ S.kind = "current" /\ look.kind = "all"
    BY <1>5, <1>8, <1>9, <2>4 DEF InspectSequence
  <2> QED BY <1>3, <2>1, <2>2, <2>3, <2>4
<1> QED BY <1>4, <1>7, <1>10, <1>11

(* Reading a long match back changes nothing of it while the document is the
   one the set read. *)
LEMMA RightText ==
  ASSUME NEW S, NEW i \in DOMAIN S.hits, S.hits[i] \in HitSet,
         Right(S, S.hits[i].path), NEW image, image = Image(S, S.hits[i].path)
  PROVE  S.hits[i].text = image[S.hits[i].start + 1]
<1> DEFINE h == S.hits[i]
<1>1. <<h.start, h.text>> \in HitsAt(S.hits, h.path)
  BY DEF HitsAt
<1>2. <<h.start, h.text>> \in Wanted(S, image)
  BY <1>1 DEF Right
<1>3. PICK s : <<h.start, h.text>> = <<s, image[s + 1]>>
  BY <1>2 DEF Wanted
<1> QED BY <1>3

LEMMA hydrateHitsKeeps ==
  ASSUME IInv, hydrateHits, UNCHANGED <<plan, preview>>
  PROVE  IInv'
<1>1. look.at = "hydrate" /\ UNCHANGED <<disk, store, call, held, during>>
  BY DEF hydrateHits
<1>2. TreeInv /\ WsInv /\ StoreInv /\ DuringInv /\ Grows
  BY <1>1, StillGrows DEF IInv
<1>3. LookShape(look) /\ look.kind \in {"all", "set"} /\ LookGood(look, store, ws, during)
  BY <1>1 DEF IInv, LookInv, LookGood, LookAt
<1>4. PICK hits, S : hits = S.hits /\ S = look.set
  OBVIOUS
<1>5. PICK long : long = {i \in DOMAIN hits : hits[i].text \in Long}
  OBVIOUS
<1>6. ws' = RefreshAll(ws, {hits[i].path : i \in long})
  BY <1>4, <1>5 DEF hydrateHits
<1>7. Moves /\ \A p \in {hits[i].path : i \in long} \cap Paths : ws'.cache[p] = disk[p]
  BY <1>2, <1>6, RefreshAllMoves
<1>8. CASE look' = Failed(look)
  BY <1>1, <1>2, <1>7, <1>8, LookFails
<1>9. Sure(S, ws', during') /\ (look.kind = "all" => S.complete)
  BY <1>1, <1>2, <1>3, <1>4, <1>7, LookCarries DEF LookGood
<1>10. hits \in Seq(HitSet) /\ DOMAIN hits = 1..Len(hits) /\ Len(hits) \in Nat
  BY <1>4, <1>9 DEF Sure, SetShape
<1>11. PICK back : back = [i \in DOMAIN hits |-> IF i \in long
                            THEN [hits[i] EXCEPT !.text = disk[hits[i].path][hits[i].start + 1]] ELSE hits[i]]
  OBVIOUS
<1>12. CASE /\ \A i \in long : IsText(disk[hits[i].path]) /\ hits[i].start < Len(disk[hits[i].path])
            /\ look' = [look EXCEPT !.at = "done", !.ok = TRUE, !.hits = back]
  <2>1. ASSUME NEW i \in DOMAIN hits
        PROVE  /\ back[i] \in HitSet /\ back[i].path = hits[i].path
               /\ (ws'.cache[hits[i].path] = Image(S, hits[i].path) /\ S.complete) => back[i] = hits[i]
    <3>1. PICK h : h = hits[i]
      OBVIOUS
    <3>2. h \in HitSet
      BY <1>10, <3>1
    <3>3. CASE i \notin long
      BY <1>11, <3>1, <3>2, <3>3
    <3>4. CASE i \in long
      <4>1. h.path \in Paths /\ h.start \in Nat
        BY <3>2 DEF HitSet
      <4>2. PICK image : image = disk[h.path]
        OBVIOUS
      <4>3. image \in Seq(Tokens) /\ h.start < Len(image)
        BY <1>2, <1>12, <3>1, <3>4, <4>1, <4>2, ImageParts DEF TreeInv
      <4>4. PICK text \in Tokens : text = image[h.start + 1]
        <5>1. Len(image) \in Nat /\ h.start + 1 \in 1..Len(image)
          BY <4>1, <4>3
        <5> QED BY <4>3, <5>1
      <4>5. back[i] = [h EXCEPT !.text = text]
        BY <1>11, <3>1, <3>4, <4>2, <4>4
      <4>6. PICK b : b = [h EXCEPT !.text = text]
        OBVIOUS
      <4>7. b \in HitSet /\ b.path = h.path /\ (h.text = text => b = h)
        BY <3>2, <4>6 DEF HitSet
      <4>8. ASSUME ws'.cache[h.path] = Image(S, h.path), S.complete PROVE h.text = text
        <5>1. image = Image(S, h.path)
          BY <1>7, <3>1, <3>4, <4>1, <4>2, <4>8
        <5>2. Right(S, h.path)
          BY <1>4, <1>9, <3>1, <4>8 DEF Sure, Backed
        <5> QED BY <1>4, <3>1, <3>2, <4>4, <5>1, <5>2, RightText
      <4> QED BY <3>1, <4>5, <4>6, <4>7, <4>8
    <3> QED BY <3>3, <3>4
  <2>2. back \in Seq(HitSet) /\ DOMAIN back = DOMAIN hits
    <3>1. back \in [1..Len(hits) -> HitSet]
      BY <1>10, <1>11, <2>1
    <3> QED BY <1>10, <3>1
  <2>3. PICK m : m = [look EXCEPT !.at = "done", !.ok = TRUE, !.hits = back]
    OBVIOUS
  <2>4. LookShape(m) /\ m.at = "done" /\ m.kind = look.kind /\ m.set = S /\ m.hits = back
    BY <1>3, <1>4, <2>3 DEF LookShape
  <2>5. Hydrated(m, ws')
    BY <1>4, <2>1, <2>2, <2>4 DEF Hydrated
  <2>6. LookGood(m, store', ws', during')
    BY <1>3, <1>9, <2>4, <2>5 DEF LookGood, LookAt
  <2>7. LookGood(look', store', ws', during') /\ look'.kind = look.kind
    BY <1>12, <2>3, <2>4, <2>6
  <2> QED BY <1>1, <1>2, <1>7, <2>7, LookupKeeps
<1>13. \/ look' = Failed(look)
       \/ /\ \A i \in long : IsText(disk[hits[i].path]) /\ hits[i].start < Len(disk[hits[i].path])
          /\ look' = [look EXCEPT !.at = "done", !.ok = TRUE, !.hits = back]
  BY <1>4, <1>5, <1>11 DEF hydrateHits, Answered
<1> QED BY <1>8, <1>12, <1>13

-----------------------------------------------------------------------------
(* The calls of the session. *)

(* A step that looks nothing up: the lookup under way, if any, stays good. *)
LEMMA CallKeeps ==
  ASSUME IInv, Moves, Grows, UNCHANGED <<disk, look, during>>, PlanInv', CallInv',
         call.kind # "refine", call'.kind # "refine"
  PROVE  IInv'
<1>1. TreeInv' /\ WsInv' /\ DuringInv'
  BY DEF IInv, TreeInv, WsInv, DuringInv, Moves
<1>2. StoreInv'
  BY StoreStep DEF IInv
<1>3. look.kind # "set"
  BY DEF IInv, LookInv
<1>4. LookGood(look, store', ws', during')
  BY <1>3, LookCarries
<1>5. LookInv'
  BY <1>3, <1>4 DEF LookInv
<1> QED BY <1>1, <1>2, <1>5 DEF IInv

(* A step that begins a lookup or ends one. *)
Turned == during' = Marked \/ (during' = Unmarked /\ look'.at = "idle")
LEMMA LookTurns ==
  ASSUME IInv, Moves, Grows, disk' = disk, PlanInv', CallInv', Turned,
         LookGood(look', store', ws', during'), look'.kind = "set" <=> call'.kind = "refine"
  PROVE  IInv'
<1>1. TreeInv' /\ WsInv'
  BY DEF IInv, TreeInv, WsInv, Moves
<1>2. DuringInv'
  <2>1. \A p \in Paths : disk[p] \in Images
    BY DEF IInv, TreeInv
  <2>2. CASE during' = Marked
    BY <2>1, <2>2 DEF DuringInv, Marked
  <2>3. CASE during' = Unmarked /\ look'.at = "idle"
    BY <2>3 DEF DuringInv, Unmarked
  <2> QED BY <2>2, <2>3 DEF Turned
<1>3. StoreInv'
  BY StoreStep DEF IInv
<1>4. LookInv'
  BY DEF LookInv
<1> QED BY <1>1, <1>2, <1>3, <1>4 DEF IInv

LEMMA PlanStays ==
  ASSUME IInv, plan' = plan
  PROVE  PlanInv'
BY DEF IInv, PlanInv, OnPaths

LEMMA CallShapes ==
  /\ CallShape(NoCall)
  /\ \A n : \A c : c = [NoCall EXCEPT !.asked = n] => CallShape(c) /\ c.kind = "none"
  /\ \A kind, n : \A c : c = [NoCall EXCEPT !.kind = kind, !.asked = n] => CallShape(c) /\ c.kind = kind
<1>1. CallShape(NoCall)
  BY DEF CallShape, NoCall
<1>2. ASSUME NEW n, NEW c, c = [NoCall EXCEPT !.asked = n] PROVE CallShape(c) /\ c.kind = "none"
  BY <1>1, <1>2 DEF CallShape, NoCall
<1>3. ASSUME NEW kind, NEW n, NEW c, c = [NoCall EXCEPT !.kind = kind, !.asked = n] PROVE CallShape(c) /\ c.kind = kind
  BY <1>1, <1>3 DEF CallShape, NoCall
<1> QED BY <1>1, <1>2, <1>3

(* A call that returns. *)
LEMMA CallReturns ==
  ASSUME call' = Return
  PROVE  CallInv' /\ call'.kind = "none"
<1>1. PICK c : c = Return
  OBVIOUS
<1>2. CallShape(c) /\ c.kind = "none"
  BY <1>1, CallShapes DEF Return
<1>3. CallShape(call') /\ call'.kind = "none"
  BY <1>1, <1>2
<1> QED BY <1>3 DEF CallInv

LEMMA CallAsks ==
  ASSUME NEW kind, kind # "search", call' = Ask(kind)
  PROVE  CallInv' /\ call'.kind = kind
<1>1. PICK c, n : c = [NoCall EXCEPT !.kind = kind, !.asked = n] /\ n = call.asked + 1
  OBVIOUS
<1>2. CallShape(c) /\ c.kind = kind
  BY <1>1, CallShapes
<1>3. CallShape(call') /\ call'.kind = kind
  BY <1>1, <1>2 DEF Ask
<1> QED BY <1>3 DEF CallInv

(* The rest of a list of different documents. *)
Distinct(list) == \A i, j \in DOMAIN list : list[i] = list[j] => i = j
LEMMA TailOf ==
  ASSUME NEW list \in Seq(Paths), list # <<>>, Distinct(list),
         NEW p, NEW todo, p = Head(list), todo = Tail(list)
  PROVE  /\ p \in Paths /\ todo \in Seq(Paths)
         /\ Elems(list) = Elems(todo) \cup {p} /\ p \notin Elems(todo)
         /\ Distinct(todo)
<1>1. p \in Paths /\ todo \in Seq(Paths) /\ Len(todo) = Len(list) - 1 /\ Len(list) \in Nat /\ Len(list) >= 1
  OBVIOUS
<1>2. list[1] = p /\ \A i \in 1..Len(todo) : todo[i] = list[i + 1]
  OBVIOUS
<1>3. DOMAIN list = 1..Len(list) /\ DOMAIN todo = 1..Len(todo) /\ 1 \in DOMAIN list
  BY <1>1
<1>4. ASSUME NEW i \in DOMAIN list PROVE list[i] \in Elems(todo) \cup {p}
  <2>1. CASE i = 1
    BY <1>2, <2>1
  <2>2. CASE i # 1
    <3>1. i - 1 \in DOMAIN todo /\ (i - 1) + 1 = i
      BY <1>1, <1>3, <2>2
    <3>2. todo[i - 1] = list[i]
      BY <1>2, <1>3, <3>1
    <3> QED BY <3>1, <3>2 DEF Elems
  <2> QED BY <2>1, <2>2
<1>5. ASSUME NEW i \in DOMAIN todo PROVE todo[i] \in Elems(list) /\ todo[i] # p /\ i + 1 \in DOMAIN list /\ todo[i] = list[i + 1]
  <2>1. i + 1 \in DOMAIN list /\ i + 1 # 1 /\ todo[i] = list[i + 1]
    BY <1>1, <1>2, <1>3
  <2> QED BY <1>2, <1>3, <2>1 DEF Elems, Distinct
<1>6. Elems(list) = Elems(todo) \cup {p} /\ p \notin Elems(todo)
  <2>1. \A x \in Elems(list) : x \in Elems(todo) \cup {p}
    BY <1>4 DEF Elems
  <2>2. p \in Elems(list)
    BY <1>2, <1>3 DEF Elems
  <2>3. \A x \in Elems(todo) : x \in Elems(list) /\ x # p
    BY <1>5 DEF Elems
  <2> QED BY <2>1, <2>2, <2>3
<1>7. ASSUME NEW i \in DOMAIN todo, NEW j \in DOMAIN todo, todo[i] = todo[j] PROVE i = j
  <2>1. i + 1 \in DOMAIN list /\ j + 1 \in DOMAIN list /\ list[i + 1] = list[j + 1]
    BY <1>5, <1>7
  <2>2. i + 1 = j + 1
    BY <2>1 DEF Distinct
  <2> QED BY <2>2, <1>3
<1> QED BY <1>1, <1>6, <1>7 DEF Distinct

LEMMA BeginSearchKeeps ==
  ASSUME IInv, NEW scope \in SUBSET Paths, BeginSearch(scope), UNCHANGED <<plan, preview>>
  PROVE  IInv'
<1>1. call.kind = "none" /\ UNCHANGED <<disk, ws, store, look, held, during>>
  BY DEF BeginSearch, Free
<1>2. Moves /\ Grows /\ PlanInv'
  BY <1>1, StillMoves, StillGrows, PlanStays DEF IInv
<1>3. PICK files : files = collectScopedFiles(scope)
  OBVIOUS
<1>4. files \in Seq(Paths) /\ \A i, j \in DOMAIN files : files[i] = files[j] => i = j
  BY <1>3, ListingOf
<1>5. PICK a : a = Ask("search")
  OBVIOUS
<1>6. CallShape(a) /\ a.kind = "search" /\ a.hits = <<>> /\ a.revs = <<>>
  <2>1. PICK n : n = call.asked + 1
    OBVIOUS
  <2>2. a = [NoCall EXCEPT !.kind = "search", !.asked = n]
    BY <1>5, <2>1 DEF Ask
  <2>3. CallShape(a) /\ a.kind = "search"
    BY <2>2, CallShapes
  <2> QED BY <2>2, <2>3 DEF NoCall
<1>7. PICK all \in BOOLEAN : all = CompleteListing(scope)
  <2>1. CompleteListing(scope) \in BOOLEAN
    BY DEF CompleteListing
  <2> QED BY <2>1
<1>8. PICK c : c = [a EXCEPT !.scope = scope, !.files = files, !.todo = files, !.complete = all]
  OBVIOUS
<1>9. /\ CallShape(c) /\ c.kind = "search" /\ c.files = files /\ c.todo = files
      /\ c.hits = <<>> /\ c.revs = <<>>
  BY <1>4, <1>6, <1>8 DEF CallShape
<1>10. Searching(c, ws')
  BY <1>4, <1>9 DEF Searching
<1>11. call' = c
  BY <1>3, <1>5, <1>7, <1>8 DEF BeginSearch
<1>12. CallInv' /\ call'.kind = "search"
  BY <1>9, <1>10, <1>11 DEF CallInv
<1> QED BY <1>1, <1>2, <1>12, CallKeeps

LEMMA FindSymbolsKeeps ==
  ASSUME IInv, NEW name, FindSymbols(name), UNCHANGED <<plan, preview>>
  PROVE  IInv'
<1>1. call.kind = "none" /\ UNCHANGED <<disk, ws, store, look, held, during>>
  BY DEF FindSymbols, Free
<1>2. Moves /\ Grows /\ PlanInv'
  BY <1>1, StillMoves, StillGrows, PlanStays DEF IInv
<1>3. PICK files : files = collectScopedFiles(Paths)
  OBVIOUS
<1>4. files \in Seq(Paths)
  BY <1>3, ListingOf
<1>5. PICK a, n : n = call.asked + 1 /\ a = [NoCall EXCEPT !.kind = "find", !.asked = n]
  OBVIOUS
<1>6. CallShape(a) /\ a.kind = "find"
  BY <1>5, CallShapes
<1>7. PICK c : c = [a EXCEPT !.name = name, !.todo = files]
  OBVIOUS
<1>8. CallShape(c) /\ c.kind = "find"
  BY <1>4, <1>6, <1>7 DEF CallShape
<1>9. call' = c
  BY <1>3, <1>5, <1>7 DEF FindSymbols, Ask
<1>10. CallInv' /\ call'.kind = "find"
  BY <1>8, <1>9 DEF CallInv
<1> QED BY <1>1, <1>2, <1>10, CallKeeps

LEMMA FindInFileKeeps ==
  ASSUME IInv, FindInFile, UNCHANGED <<plan, preview>>
  PROVE  IInv'
<1>1. call.kind = "find" /\ call.todo # <<>> /\ UNCHANGED <<disk, look, held, during>>
  BY DEF FindInFile
<1>2. TreeInv /\ WsInv /\ StoreInv /\ CallShape(call) /\ PlanInv'
  BY PlanStays DEF IInv, CallInv
<1>3. PICK p, todo : p = Head(call.todo) /\ todo = Tail(call.todo)
  OBVIOUS
<1>4. call.todo \in Seq(Paths)
  BY <1>2 DEF CallShape
<1>5. p \in Paths /\ todo \in Seq(Paths)
  BY <1>1, <1>3, <1>4
<1>0. PICK torn \in Torn : \E found, records :
        /\ found = IF torn \/ ~IsText(disk[p]) THEN <<>> ELSE Declared(disk[p], call.name)
        /\ records = [i \in DOMAIN found |-> SymbolRecord(p, disk[p], found[i])]
        /\ store' = PutHandles(store, records)
        /\ ws' = Refresh(ws, p)
        /\ call' = [call EXCEPT !.todo = Tail(@), !.ids = @ \o [i \in DOMAIN found |-> store.next + i - 1]]
  BY <1>3 DEF FindInFile
<1>6. PICK found, records :
        /\ found = IF torn \/ ~IsText(disk[p]) THEN <<>> ELSE Declared(disk[p], call.name)
        /\ records = [i \in DOMAIN found |-> SymbolRecord(p, disk[p], found[i])]
        /\ store' = PutHandles(store, records)
        /\ ws' = Refresh(ws, p)
        /\ call' = [call EXCEPT !.todo = Tail(@), !.ids = @ \o [i \in DOMAIN found |-> store.next + i - 1]]
  BY <1>0
<1>7. found \in Seq(Nat)
  <2>1. CASE found = <<>>
    BY <2>1
  <2>2. CASE IsText(disk[p]) /\ found = Declared(disk[p], call.name)
    <3>1. disk[p] \in Seq(Tokens)
      BY <1>2, <1>5, <2>2, ImageParts DEF TreeInv
    <3> QED BY <2>2, <3>1, DeclaredOf
  <2> QED BY <1>6, <2>1, <2>2
<1>8. Moves /\ Grows
  <2>1. Moves
    BY <1>2, <1>5, <1>6, RefreshMoves
  <2>2. PICK image : image = disk[p]
    OBVIOUS
  <2>3. Registers(records, p, image, found)
    BY <1>6, <2>2 DEF Registers
  <2> QED BY <1>2, <1>5, <1>6, <1>7, <2>1, <2>3, RecordsGrow
<1>9. PICK ids : ids = call.ids \o [i \in DOMAIN found |-> store.next + i - 1]
  OBVIOUS
<1>10. PICK c : c = [call EXCEPT !.todo = todo, !.ids = ids]
  OBVIOUS
<1>11. CallShape(c) /\ c.kind = "find"
  BY <1>1, <1>2, <1>5, <1>10 DEF CallShape
<1>12. call' = c
  BY <1>2, <1>3, <1>6, <1>9, <1>10 DEF CallShape
<1>13. CallInv' /\ call'.kind = "find"
  BY <1>11, <1>12 DEF CallInv
<1> QED BY <1>1, <1>2, <1>8, <1>13, CallKeeps

LEMMA symbolFindKeeps ==
  ASSUME IInv, symbolFind, UNCHANGED <<plan, preview>>
  PROVE  IInv'
<1>1. call.kind = "find" /\ UNCHANGED <<disk, ws, store, look, during>> /\ call' = Return
  BY DEF symbolFind
<1>2. Moves /\ Grows /\ PlanInv'
  BY <1>1, StillMoves, StillGrows, PlanStays DEF IInv
<1>3. CallInv' /\ call'.kind = "none"
  BY <1>1, CallReturns
<1> QED BY <1>1, <1>2, <1>3, CallKeeps

LEMMA readSearchableKeeps ==
  ASSUME IInv, readSearchable, UNCHANGED <<plan, preview>>
  PROVE  IInv'
<1>1. call.kind = "search" /\ call.todo # <<>> /\ UNCHANGED <<disk, store, look, held, during>>
  BY DEF readSearchable
<1>2. TreeInv /\ WsInv /\ StoreInv /\ CallShape(call) /\ Searching(call, ws) /\ PlanInv'
  BY <1>1, PlanStays DEF IInv, CallInv
<1>3. PICK p, todo : p = Head(call.todo) /\ todo = Tail(call.todo)
  OBVIOUS
<1>4. /\ p \in Paths /\ todo \in Seq(Paths)
      /\ Elems(call.todo) = Elems(todo) \cup {p} /\ p \notin Elems(todo)
      /\ Distinct(todo)
  <2>1. call.todo \in Seq(Paths) /\ Distinct(call.todo)
    BY <1>2 DEF CallShape, Searching, Distinct
  <2>2. PICK list : list = call.todo
    OBVIOUS
  <2>3. /\ list \in Seq(Paths) /\ list # <<>> /\ Distinct(list)
        /\ p = Head(list) /\ todo = Tail(list)
    BY <1>1, <1>3, <2>1, <2>2
  <2> QED BY <2>2, <2>3, TailOf
<1>0. PICK complete \in BOOLEAN : \E links :
        /\ call' = [call EXCEPT !.todo = todo, !.complete = complete, !.links = links]
        /\ complete => call.complete /\ links = call.links \cup {p}
        /\ ws' = ws \/ ws' = Refresh(ws, p)
  <2>1. CASE disk[p] \in {Link, Binary} /\ ws' = ws
             /\ call' = [[call EXCEPT !.todo = todo] EXCEPT !.complete = @ /\ disk[p] = Link,
                                !.links = IF disk[p] = Link THEN @ \cup {p} ELSE @]
    <3>1. PICK links : links = IF disk[p] = Link THEN call.links \cup {p} ELSE call.links
      OBVIOUS
    <3>2. PICK complete \in BOOLEAN : complete = (call.complete /\ disk[p] = Link)
      OBVIOUS
    <3>3. call' = [call EXCEPT !.todo = todo, !.complete = complete, !.links = links]
      BY <1>2, <2>1, <3>1, <3>2 DEF CallShape
    <3> QED BY <2>1, <3>1, <3>2, <3>3
  <2>2. CASE ws' = Refresh(ws, p) /\ call' = [[call EXCEPT !.todo = todo] EXCEPT !.complete = FALSE]
    <3>1. call' = [call EXCEPT !.todo = todo, !.complete = FALSE, !.links = call.links]
      BY <1>2, <2>2 DEF CallShape
    <3> QED BY <2>2, <3>1
  <2> QED BY <1>3, <2>1, <2>2 DEF readSearchable
<1>5. PICK links :
        /\ call' = [call EXCEPT !.todo = todo, !.complete = complete, !.links = links]
        /\ complete => call.complete /\ links = call.links \cup {p}
        /\ ws' = ws \/ ws' = Refresh(ws, p)
  BY <1>0
<1>6. Moves /\ Grows
  BY <1>1, <1>2, <1>4, <1>5, RefreshMoves, StillMoves, StillGrows
<1>7. PICK c : c = [call EXCEPT !.todo = todo, !.complete = complete, !.links = links]
  OBVIOUS
<1>8. /\ CallShape(c) /\ c.kind = "search" /\ c.todo = todo /\ c.complete = complete /\ c.links = links
      /\ c.files = call.files /\ c.revs = call.revs /\ c.hits = call.hits
  BY <1>1, <1>2, <1>4, <1>7 DEF CallShape
<1>9. \A q \in DOMAIN call.revs : q \in Paths /\ ws'.cache[q] # Unseen
  <2>1. \A q \in DOMAIN call.revs : q \in Paths /\ ws.cache[q] # Unseen
    BY <1>2 DEF Searching, CallShape, Elems
  <2> QED BY <1>6, <2>1 DEF Moves
<1>10. Searching(c, ws')
  <2>1. /\ Elems(todo) \cap DOMAIN call.revs = {}
        /\ Elems(todo) \cup DOMAIN call.revs \subseteq Elems(call.files)
    BY <1>2, <1>4 DEF Searching
  <2>2. c.complete => Elems(c.files) \subseteq Elems(c.todo) \cup DOMAIN c.revs \cup c.links
    BY <1>2, <1>4, <1>5, <1>8 DEF Searching
  <2>3. \A i \in DOMAIN c.hits : c.hits[i].path \in DOMAIN c.revs
    BY <1>2, <1>8 DEF Searching
  <2>4. \A q \in DOMAIN c.revs :
          /\ IsText(Image(c, q)) /\ Image(c, q) \in Images /\ ws'.cache[q] # Unseen
          /\ c.complete => HitsAt(c.hits, q) = MatchesIn(Image(c, q))
    BY <1>2, <1>5, <1>8, <1>9 DEF Searching, Image
  <2> QED BY <1>4, <1>8, <2>1, <2>2, <2>3, <2>4 DEF Searching, Distinct
<1>11. CallInv' /\ call'.kind = "search"
  BY <1>5, <1>7, <1>8, <1>10 DEF CallInv
<1> QED BY <1>1, <1>2, <1>6, <1>11, CallKeeps

LEMMA SetGrows ==
  ASSUME StoreInv, NEW S, SetInv(S, ws'), store' = putSetLocked(store, S)
  PROVE  Grows
<1>1. PICK s, t : s = store /\ t = putSetLocked(s, S)
  OBVIOUS
<1>2. Numbered(s)
  BY <1>1, StoreNumbered
<1>3. Adds(t, s, {}, {S})
  BY <1>1, <1>2, PutSetAdds
<1>4. Adds(t, store, {}, {S}) /\ store' = t
  BY <1>1, <1>3
<1> QED BY <1>4, AddsGrows

LEMMA FreezeSearchKeeps ==
  ASSUME IInv, FreezeSearch, UNCHANGED <<plan, preview>>
  PROVE  IInv'
<1>1. call.kind = "search" /\ UNCHANGED <<disk, ws, look, during>> /\ call' = Return
  BY DEF FreezeSearch
<1>2. TreeInv /\ WsInv /\ StoreInv /\ CallShape(call) /\ Searching(call, ws) /\ PlanInv' /\ Moves
  BY <1>1, PlanStays, StillMoves DEF IInv, CallInv
<1>3. PICK complete \in BOOLEAN : complete = (call.complete /\ call.todo = <<>>)
  OBVIOUS
<1>4. PICK S : S = CurrentSet(call.scope, call.files, call.revs, call.hits, complete, call.links, Paths, Tokens)
  OBVIOUS
<1>5. store' = putSetLocked(store, S)
  BY <1>3, <1>4 DEF FreezeSearch
<1>6. /\ S.kind = "current" /\ S.seq = ws.seq /\ S.scope = call.scope /\ S.files = call.files
      /\ S.revs = call.revs /\ S.hits = call.hits /\ S.complete = complete /\ S.links = call.links
      /\ S.paths = Paths /\ S.toks = Tokens
  BY <1>4 DEF CurrentSet
<1>7. SetShape(S) /\ S.seq \in Nat
  BY <1>2, <1>6 DEF SetShape, CallShape, WsInv
<1>8. complete => call.complete /\ Elems(call.todo) = {}
  <2>1. call.complete \in BOOLEAN
    BY <1>2 DEF CallShape
  <2>2. complete => call.complete /\ call.todo = <<>>
    BY <1>3, <2>1
  <2> QED BY <2>2 DEF Elems
<1>9. Backed(S, ws)
  BY <1>2, <1>6, <1>8 DEF Backed, Searching, Image
<1>10. ASSUME S.complete, NEW p \in DOMAIN S.revs PROVE Right(S, p)
  <2>1. IsText(Image(S, p)) /\ Image(S, p) \in Images /\ HitsAt(S.hits, p) = MatchesIn(Image(S, p)) /\ p \in S.paths
    BY <1>2, <1>6, <1>8, <1>10 DEF Searching, Image, CallShape, Elems
  <2>2. PICK image : image = Image(S, p)
    OBVIOUS
  <2>3. image \in Seq(Tokens)
    BY <2>1, <2>2, ImageParts
  <2>4. \A s \in Elems(matchRanges(image)) : image[s + 1] \in Tokens
    <3>1. \A s \in Elems(matchRanges(image)) : s \in 0..(Len(image) - 1)
      BY <2>3, MatchesOf
    <3> QED BY <2>3, <3>1
  <2>5. Wanted(S, image) = MatchesIn(image)
    BY <1>6, <2>1, <2>2, <2>4 DEF Wanted, MatchesIn
  <2> QED BY <2>1, <2>2, <2>5 DEF Right
<1>11. SetInv(S, ws')
  BY <1>1, <1>6, <1>7, <1>9, <1>10 DEF SetInv
<1>12. Grows
  BY <1>2, <1>5, <1>11, SetGrows
<1>13. CallInv' /\ call'.kind = "none"
  BY <1>1, CallReturns
<1> QED BY <1>1, <1>2, <1>12, <1>13, CallKeeps

(* The matches of a document, as hits. *)
AsHits(new, p, text, taken, n) == new = [i \in DOMAIN taken |-> Hit(p, text, taken[i], n + i - 1)]
LEMMA NewHits ==
  ASSUME NEW p \in Paths, NEW text \in Seq(Tokens), NEW taken \in Seq(Nat),
         Elems(taken) \subseteq Elems(matchRanges(text)), NEW n \in Nat,
         NEW new, AsHits(new, p, text, taken, n)
  PROVE  /\ new \in Seq(HitSet) /\ \A i \in DOMAIN new : new[i].path = p
         /\ HitsAt(new, p) = {<<s, text[s + 1]>> : s \in Elems(taken)}
<1>1. DOMAIN taken = 1..Len(taken) /\ Len(taken) \in Nat /\ DOMAIN new = DOMAIN taken
  BY DEF AsHits
<1>2. ASSUME NEW i \in DOMAIN taken
      PROVE  new[i] \in HitSet /\ new[i].path = p /\ <<new[i].start, new[i].text>> = <<taken[i], text[taken[i] + 1]>>
  <2>1. taken[i] \in Elems(matchRanges(text))
    BY DEF Elems
  <2>2. taken[i] \in 0..(Len(text) - 1) /\ Len(text) \in Nat
    BY <2>1, MatchesOf
  <2>3. taken[i] + 1 \in 1..Len(text) /\ text[taken[i] + 1] \in Tokens /\ taken[i] \in Nat
    BY <2>2
  <2>4. n + i - 1 \in Nat
    BY <1>1
  <2>5. new[i] = Hit(p, text, taken[i], n + i - 1)
    BY DEF AsHits
  <2> QED BY <2>3, <2>4, <2>5 DEF Hit, HitSet
<1>3. PICK m \in Nat : m = Len(taken)
  BY <1>1
<1>4. new \in Seq(HitSet)
  <2>1. new \in [1..m -> HitSet]
    BY <1>1, <1>2, <1>3 DEF AsHits
  <2> QED BY <2>1
<1>5. HitsAt(new, p) = {<<taken[i], text[taken[i] + 1]>> : i \in DOMAIN taken}
  <2>1. {i \in DOMAIN new : new[i].path = p} = DOMAIN taken
    BY <1>1, <1>2
  <2>2. \A x \in HitsAt(new, p) : \E i \in DOMAIN taken : x = <<taken[i], text[taken[i] + 1]>>
    <3>1. \A x \in HitsAt(new, p) : \E i \in DOMAIN taken : x = <<new[i].start, new[i].text>>
      BY <2>1 DEF HitsAt
    <3>2. ASSUME NEW x \in HitsAt(new, p) PROVE \E i \in DOMAIN taken : x = <<taken[i], text[taken[i] + 1]>>
      <4>1. PICK i \in DOMAIN taken : x = <<new[i].start, new[i].text>>
        BY <3>1
      <4>2. new[i].start = taken[i] /\ new[i].text = text[taken[i] + 1]
        BY <1>2
      <4>3. x = <<taken[i], text[taken[i] + 1]>>
        BY <4>1, <4>2
      <4> QED BY <4>3
    <3> QED BY <3>2
  <2>3. \A i \in DOMAIN taken : <<taken[i], text[taken[i] + 1]>> \in HitsAt(new, p)
    <3>1. \A i \in DOMAIN taken : <<new[i].start, new[i].text>> \in HitsAt(new, p)
      BY <2>1 DEF HitsAt
    <3> QED BY <1>2, <3>1
  <2> QED BY <2>2, <2>3
<1>6. {<<s, text[s + 1]>> : s \in Elems(taken)} = {<<taken[i], text[taken[i] + 1]>> : i \in DOMAIN taken}
  BY DEF Elems
<1> QED BY <1>1, <1>2, <1>4, <1>5, <1>6

Joined(c, a, b) == c = a \o b
LEMMA MoreHits ==
  ASSUME NEW a \in Seq(HitSet), NEW b \in Seq(HitSet), NEW c, Joined(c, a, b)
  PROVE  /\ c \in Seq(HitSet)
         /\ \A i \in DOMAIN c : (\E j \in DOMAIN a : c[i] = a[j]) \/ (\E j \in DOMAIN b : c[i] = b[j])
         /\ \A p : HitsAt(c, p) = HitsAt(a, p) \cup HitsAt(b, p)
<1>1. /\ c \in Seq(HitSet) /\ Len(c) = Len(a) + Len(b) /\ Len(a) \in Nat /\ Len(b) \in Nat
      /\ DOMAIN a = 1..Len(a) /\ DOMAIN b = 1..Len(b) /\ DOMAIN c = 1..Len(c)
  BY DEF Joined
<1>2. \A i \in DOMAIN a : i \in DOMAIN c /\ c[i] = a[i]
  BY <1>1 DEF Joined
<1>3. \A j \in DOMAIN b : Len(a) + j \in DOMAIN c /\ c[Len(a) + j] = b[j]
  BY <1>1 DEF Joined
<1>4. ASSUME NEW i \in DOMAIN c
      PROVE  (\E j \in DOMAIN a : i = j /\ c[i] = a[j]) \/ (\E j \in DOMAIN b : i = Len(a) + j /\ c[i] = b[j])
  <2>1. CASE i <= Len(a)
    BY <1>1, <1>2, <2>1
  <2>2. CASE i > Len(a)
    <3>1. i - Len(a) \in DOMAIN b /\ i = Len(a) + (i - Len(a))
      BY <1>1, <2>2
    <3> QED BY <1>3, <3>1
  <2> QED BY <1>1, <2>1, <2>2
<1>5. ASSUME NEW p PROVE HitsAt(c, p) = HitsAt(a, p) \cup HitsAt(b, p)
  <2>1. \A x \in HitsAt(c, p) : x \in HitsAt(a, p) \cup HitsAt(b, p)
    BY <1>4 DEF HitsAt
  <2>2. \A x \in HitsAt(a, p) : x \in HitsAt(c, p)
    BY <1>2 DEF HitsAt
  <2>3. \A x \in HitsAt(b, p) : x \in HitsAt(c, p)
    BY <1>3 DEF HitsAt
  <2> QED BY <2>1, <2>2, <2>3
<1> QED BY <1>1, <1>4, <1>5

(* The first of a document's matches, and all of them if there is room. *)
LEMMA TakenOf ==
  ASSUME NEW text \in Seq(Tokens), NEW room \in Nat,
         NEW taken, taken = SubSeq(matchRanges(text), 1, IF Len(matchRanges(text)) > room THEN room ELSE Len(matchRanges(text)))
  PROVE  /\ taken \in Seq(Nat) /\ Elems(taken) \subseteq Elems(matchRanges(text))
         /\ Len(matchRanges(text)) <= room => Elems(taken) = Elems(matchRanges(text))
<1>1. PICK found \in Seq(Nat) : found = matchRanges(text)
  BY MatchesOf
<1>2. Len(found) \in Nat
  OBVIOUS
<1>3. PICK n : n = IF Len(found) > room THEN room ELSE Len(found)
  OBVIOUS
<1>4. n \in 0..Len(found) /\ taken = SubSeq(found, 1, n) /\ (Len(found) <= room => n = Len(found))
  BY <1>1, <1>2, <1>3
<1>5. taken \in Seq(Nat) /\ Len(taken) = n /\ DOMAIN taken = 1..n /\ \A i \in 1..n : taken[i] = found[i] /\ i \in DOMAIN found
  BY <1>1, <1>4
<1>6. Elems(taken) \subseteq Elems(found)
  BY <1>5 DEF Elems
<1>7. ASSUME Len(found) <= room PROVE Elems(found) \subseteq Elems(taken)
  <2>1. n = Len(found) /\ DOMAIN found = 1..n
    BY <1>1, <1>4, <1>7
  <2> QED BY <1>5, <2>1 DEF Elems
<1> QED BY <1>1, <1>5, <1>6, <1>7

LEMMA matchHitsKeeps ==
  ASSUME IInv, matchHits, UNCHANGED <<plan, preview>>
  PROVE  IInv'
<1>1. call.kind = "search" /\ call.todo # <<>> /\ Len(call.hits) < MaxMatches /\ UNCHANGED <<disk, look, held, during>>
  BY DEF matchHits
<1>2. TreeInv /\ WsInv /\ StoreInv /\ CallShape(call) /\ Searching(call, ws) /\ PlanInv'
  BY <1>1, PlanStays DEF IInv, CallInv
<1>3. PICK p, todo, list, text :
        p = Head(list) /\ todo = Tail(list) /\ list = call.todo /\ text = disk[p]
  OBVIOUS
<1>4. /\ p \in Paths /\ todo \in Seq(Paths)
      /\ Elems(call.todo) = Elems(todo) \cup {p} /\ p \notin Elems(todo)
      /\ Distinct(todo)
  <2>1. list \in Seq(Paths) /\ Distinct(list) /\ list # <<>>
    BY <1>1, <1>2, <1>3 DEF CallShape, Searching, Distinct
  <2>2. /\ p \in Paths /\ todo \in Seq(Paths)
        /\ Elems(list) = Elems(todo) \cup {p} /\ p \notin Elems(todo)
        /\ Distinct(todo)
    BY <1>3, <2>1, TailOf
  <2> QED BY <1>3, <2>2
<1>5. IsText(text) /\ ws' = Refresh(ws, p)
  BY <1>3 DEF matchHits
<1>6. Moves /\ ws'.cache[p] = disk[p]
  BY <1>2, <1>4, <1>5, RefreshMoves
<1>7. text \in Images /\ text \in Seq(Tokens) /\ text # Unseen
  BY <1>2, <1>3, <1>4, <1>5, ImageParts, ImagesAssumption DEF TreeInv
<1>8. CASE call' = Return /\ store' = store
  <2>1. CallInv' /\ call'.kind = "none" /\ Grows
    BY <1>2, <1>8, CallReturns, StillGrows
  <2> QED BY <1>1, <1>2, <1>6, <2>1, CallKeeps
<1>9. PICK found, room, taken :
        /\ found = matchRanges(text) /\ room = MaxMatches - Len(call.hits)
        /\ taken = SubSeq(found, 1, IF Len(found) > room THEN room ELSE Len(found))
  OBVIOUS
<1>10. room \in Nat /\ call.hits \in Seq(HitSet)
  <2>1. call.hits \in Seq(HitSet) /\ MaxMatches \in Nat
    BY <1>2, CapsAssumption DEF CallShape
  <2> QED BY <1>1, <1>9, <2>1
<1>11. taken \in Seq(Nat) /\ Elems(taken) \subseteq Elems(found) /\ (Len(found) <= room => Elems(taken) = Elems(found))
  BY <1>7, <1>9, <1>10, TakenOf
<1>12. PICK records, new, hits, revs :
         /\ records = [i \in DOMAIN taken |-> RangeRecord(p, text, taken[i])]
         /\ new = [i \in DOMAIN taken |-> Hit(p, text, taken[i], store.next + i - 1)]
         /\ hits = call.hits \o new
         /\ revs = Put(call.revs, p, Rev(text))
  OBVIOUS
<1>13. PICK complete \in BOOLEAN : complete = (call.complete /\ Len(found) <= room)
  OBVIOUS
<1>14. CASE /\ store' = PutHandles(store, records)
            /\ call' = [call EXCEPT !.todo = todo, !.revs = revs, !.complete = complete, !.hits = hits]
  <2>1. Registers(records, p, text, taken)
    BY <1>12 DEF Registers
  <2>2. Grows
    BY <1>2, <1>4, <1>11, <1>14, <2>1, RecordsGrow
  <2>3. PICK n \in Nat : n = store.next
    BY <1>2, StoreNumbered
  <2>4. /\ new \in Seq(HitSet) /\ \A i \in DOMAIN new : new[i].path = p
        /\ HitsAt(new, p) = {<<s, text[s + 1]>> : s \in Elems(taken)}
    <3>1. AsHits(new, p, text, taken, n)
      BY <1>12, <2>3 DEF AsHits
    <3>2. Elems(taken) \subseteq Elems(matchRanges(text))
      BY <1>9, <1>11
    <3> QED BY <1>4, <1>7, <1>11, <3>1, <3>2, NewHits
  <2>5. /\ hits \in Seq(HitSet)
        /\ \A i \in DOMAIN hits : (\E j \in DOMAIN call.hits : hits[i] = call.hits[j]) \/ (\E j \in DOMAIN new : hits[i] = new[j])
        /\ \A q : HitsAt(hits, q) = HitsAt(call.hits, q) \cup HitsAt(new, q)
    <3>1. PICK old \in Seq(HitSet) : old = call.hits
      BY <1>10
    <3>2. new \in Seq(HitSet) /\ Joined(hits, old, new)
      BY <1>12, <2>4, <3>1 DEF Joined
    <3>3. /\ hits \in Seq(HitSet)
          /\ \A i \in DOMAIN hits : (\E j \in DOMAIN old : hits[i] = old[j]) \/ (\E j \in DOMAIN new : hits[i] = new[j])
          /\ \A q : HitsAt(hits, q) = HitsAt(old, q) \cup HitsAt(new, q)
      BY <3>2, MoreHits
    <3> QED BY <3>1, <3>3
  <2>6. DOMAIN revs = DOMAIN call.revs \cup {p} /\ revs[p] = Rev(text) /\ \A q \in DOMAIN call.revs \ {p} : revs[q] = call.revs[q]
    BY <1>12 DEF Put
  <2>7. PICK c : c = [call EXCEPT !.todo = todo, !.revs = revs, !.complete = complete, !.hits = hits]
    OBVIOUS
  <2>8. /\ CallShape(c) /\ c.kind = "search" /\ c.todo = todo /\ c.revs = revs /\ c.complete = complete
        /\ c.hits = hits /\ c.files = call.files /\ c.links = call.links
    BY <1>1, <1>2, <1>4, <2>5, <2>7 DEF CallShape
  <2>9. p \notin DOMAIN call.revs /\ p \in Elems(call.files)
    BY <1>2, <1>4 DEF Searching
  <2>10. complete => call.complete /\ Len(found) <= room
    <3>1. call.complete \in BOOLEAN
      BY <1>2 DEF CallShape
    <3> QED BY <1>13, <3>1
  <2>11. ASSUME NEW q \in DOMAIN revs
         PROVE  /\ IsText(Image(c, q)) /\ Image(c, q) \in Images /\ ws'.cache[q] # Unseen
                /\ complete => HitsAt(hits, q) = MatchesIn(Image(c, q))
    <3>1. CASE q = p
      <4>1. Image(c, q) = text
        BY <2>6, <2>8, <3>1 DEF Image, Rev
      <4>2. HitsAt(call.hits, p) = {}
        <5>1. \A i \in DOMAIN call.hits : call.hits[i].path # p
          BY <1>2, <2>9 DEF Searching
        <5> QED BY <5>1 DEF HitsAt
      <4>3. complete => HitsAt(hits, p) = MatchesIn(text)
        BY <1>9, <1>11, <2>4, <2>5, <2>10, <4>2 DEF MatchesIn
      <4> QED BY <1>3, <1>5, <1>6, <1>7, <3>1, <4>1, <4>3
    <3>2. CASE q # p
      <4>1. q \in DOMAIN call.revs /\ Image(c, q) = Image(call, q)
        BY <2>6, <2>8, <3>2 DEF Image
      <4>2. q \in Paths /\ ws.cache[q] # Unseen /\ IsText(Image(call, q)) /\ Image(call, q) \in Images
        BY <1>2, <4>1 DEF Searching, CallShape, Elems
      <4>3. HitsAt(new, q) = {}
        BY <2>4, <3>2 DEF HitsAt
      <4>4. complete => HitsAt(hits, q) = MatchesIn(Image(call, q))
        <5>1. HitsAt(hits, q) = HitsAt(call.hits, q)
          BY <2>5, <4>3
        <5>2. call.complete => HitsAt(call.hits, q) = MatchesIn(Image(call, q))
          BY <1>2, <4>1 DEF Searching
        <5> QED BY <2>10, <5>1, <5>2
      <4> QED BY <1>6, <4>1, <4>2, <4>4 DEF Moves
    <3> QED BY <3>1, <3>2
  <2>12. \A i \in DOMAIN hits : hits[i].path \in DOMAIN revs
    BY <1>2, <2>4, <2>5, <2>6 DEF Searching
  <2>13. Elems(todo) \cap DOMAIN revs = {} /\ Elems(todo) \cup DOMAIN revs \subseteq Elems(call.files)
    BY <1>2, <1>4, <2>6, <2>9 DEF Searching
  <2>14. complete => Elems(call.files) \subseteq Elems(todo) \cup DOMAIN revs \cup call.links
    BY <1>2, <1>4, <2>6, <2>10 DEF Searching
  <2>15. Searching(c, ws')
    BY <1>4, <2>8, <2>11, <2>12, <2>13, <2>14 DEF Searching, Distinct
  <2>16. CallInv' /\ call'.kind = "search"
    BY <1>14, <2>7, <2>8, <2>15 DEF CallInv
  <2> QED BY <1>1, <1>2, <1>6, <2>2, <2>16, CallKeeps
<1>15. \/ call' = Return /\ store' = store
       \/ /\ store' = PutHandles(store, records)
          /\ call' = [call EXCEPT !.todo = todo, !.revs = revs, !.complete = complete, !.hits = hits]
  <2>1. CASE /\ store' = PutHandles(store, [i \in DOMAIN taken |-> RangeRecord(p, text, taken[i])])
             /\ call' = [call EXCEPT
                  !.todo = Tail(@), !.revs = Put(@, p, Rev(text)), !.complete = @ /\ Len(found) <= room,
                  !.hits = @ \o [i \in DOMAIN taken |-> Hit(p, text, taken[i], store.next + i - 1)]]
    <3>1. call' = [call EXCEPT !.todo = todo, !.revs = revs, !.complete = complete, !.hits = hits]
      BY <1>2, <1>3, <1>12, <1>13, <2>1 DEF CallShape
    <3> QED BY <1>12, <2>1, <3>1
  <2> QED BY <1>3, <1>9, <2>1, ZenonT(30) DEF matchHits
<1> QED BY <1>8, <1>14, <1>15

(* The lookups a step begins with. *)
Starting(l) ==
  \/ l \in {NoLook, Failed(NoLook)}
  \/ \E id : l = StartResolve(id)
  \/ \E id : \E kind \in {"all", "set"} : l = StartSet(kind, id)
  \/ \E p \in Paths : \E name : l = [NoLook EXCEPT !.kind = "locator", !.at = "find", !.path = p, !.name = name]
LEMMA LookStarts ==
  ASSUME Starting(look')
  PROVE  LookGood(look', store', ws', during')
<1>1. PICK s, w, d, l : s = store' /\ w = ws' /\ d = during' /\ l = look'
  OBVIOUS
<1>2. Starting(l)
  BY <1>1
<1>3. LookGood(l, s, w, d)
  <2>1. CASE l \in {NoLook, Failed(NoLook)}
    BY <2>1, LooksBegin
  <2>2. ASSUME NEW id, l = StartResolve(id) PROVE LookGood(l, s, w, d)
    BY <2>2, LooksBegin
  <2>3. ASSUME NEW id, NEW kind \in {"all", "set"}, l = StartSet(kind, id) PROVE LookGood(l, s, w, d)
    BY <2>3, LooksBegin
  <2>4. ASSUME NEW p \in Paths, NEW name,
               l = [NoLook EXCEPT !.kind = "locator", !.at = "find", !.path = p, !.name = name]
        PROVE  LookGood(l, s, w, d)
    BY <2>4, LooksBegin, Zenon
  <2> QED BY <1>2, <2>1, <2>2, <2>3, <2>4 DEF Starting
<1> QED BY <1>1, <1>3

LEMMA refineSearchKeeps ==
  ASSUME IInv, NEW paths, NEW toks, refineSearch(paths, toks), UNCHANGED <<plan, preview>>
  PROVE  IInv'
<1>1. /\ UNCHANGED <<disk, ws, store>> /\ during' = Marked /\ look' = StartSet("set", held.set)
  BY DEF refineSearch
<1>2. Moves /\ Grows /\ PlanInv' /\ Turned
  BY <1>1, StillMoves, StillGrows, PlanStays DEF IInv, Turned
<1>3. CallInv' /\ call'.kind = "refine"
  <2>1. PICK a, n : n = call.asked + 1 /\ a = [NoCall EXCEPT !.kind = "refine", !.asked = n]
    OBVIOUS
  <2>2. CallShape(a) /\ a.kind = "refine"
    BY <2>1, CallShapes
  <2>3. PICK c : c = [a EXCEPT !.paths = paths, !.toks = toks]
    OBVIOUS
  <2>4. CallShape(c) /\ c.kind = "refine"
    BY <2>2, <2>3 DEF CallShape
  <2>5. call' = c
    BY <2>1, <2>3 DEF refineSearch, Ask
  <2> QED BY <2>4, <2>5 DEF CallInv
<1>4. LookGood(look', store', ws', during')
  <2>1. Starting(look')
    BY <1>1 DEF Starting
  <2> QED BY <2>1, LookStarts
<1>5. look'.kind = "set"
  BY <1>1, LookKinds
<1> QED BY <1>1, <1>2, <1>3, <1>4, <1>5, LookTurns

(* A refinement keeps, of every document that is as it was, the matches it asks
   for. *)
LEMMA RefinesRight ==
  ASSUME NEW P, NEW S, NEW hits \in Seq(HitSet), NEW paths, NEW toks, NEW p,
         Right(P, p), DOMAIN hits = DOMAIN P.hits,
         \A i \in DOMAIN hits : hits[i].path = P.hits[i].path /\ (hits[i].path = p => hits[i] = P.hits[i]),
         \A x : x \in Elems(S.hits) <=> \E i \in DOMAIN hits : x = hits[i] /\ hits[i].path \in paths /\ hits[i].text \in toks,
         S.paths = P.paths \cap paths, S.toks = P.toks \cap toks, S.revs = P.revs
  PROVE  Right(S, p)
<1>1. PICK image : image = Image(P, p) /\ image = Image(S, p)
  BY DEF Image
<1>2. \A s, x : <<s, x>> \in HitsAt(S.hits, p) <=> \E h \in Elems(S.hits) : h.path = p /\ s = h.start /\ x = h.text
  BY DEF HitsAt, Elems
<1>3. \A s, x : <<s, x>> \in HitsAt(P.hits, p) <=> \E i \in DOMAIN P.hits : P.hits[i].path = p /\ s = P.hits[i].start /\ x = P.hits[i].text
  BY DEF HitsAt
<1>4. \A s, x : <<s, x>> \in HitsAt(S.hits, p) <=> <<s, x>> \in HitsAt(P.hits, p) /\ p \in paths /\ x \in toks
  <2>1. ASSUME NEW s, NEW x, <<s, x>> \in HitsAt(S.hits, p)
        PROVE  <<s, x>> \in HitsAt(P.hits, p) /\ p \in paths /\ x \in toks
    <3>1. PICK h \in Elems(S.hits) : h.path = p /\ s = h.start /\ x = h.text
      BY <1>2, <2>1
    <3>2. PICK i \in DOMAIN hits : h = hits[i] /\ hits[i].path \in paths /\ hits[i].text \in toks
      BY <3>1
    <3>3. h = P.hits[i] /\ i \in DOMAIN P.hits
      BY <3>1, <3>2
    <3> QED BY <1>3, <3>1, <3>2, <3>3
  <2>2. ASSUME NEW s, NEW x, <<s, x>> \in HitsAt(P.hits, p), p \in paths, x \in toks
        PROVE  <<s, x>> \in HitsAt(S.hits, p)
    <3>1. PICK i \in DOMAIN P.hits : P.hits[i].path = p /\ s = P.hits[i].start /\ x = P.hits[i].text
      BY <1>3, <2>2
    <3>2. i \in DOMAIN hits /\ hits[i] = P.hits[i]
      BY <3>1
    <3>3. hits[i] \in Elems(S.hits)
      BY <2>2, <3>1, <3>2
    <3> QED BY <1>2, <3>1, <3>2, <3>3
  <2> QED BY <2>1, <2>2
<1>5. \A s, x : <<s, x>> \in Wanted(S, image) <=> <<s, x>> \in Wanted(P, image) /\ x \in toks
  <2>1. CASE ~IsText(image)
    BY <2>1 DEF Wanted
  <2>2. CASE IsText(image)
    <3>1. \A s, x : <<s, x>> \in Wanted(S, image) <=> s \in Elems(matchRanges(image)) /\ x = image[s + 1] /\ x \in P.toks /\ x \in toks
      BY <2>2 DEF Wanted
    <3>2. \A s, x : <<s, x>> \in Wanted(P, image) <=> s \in Elems(matchRanges(image)) /\ x = image[s + 1] /\ x \in P.toks
      BY <2>2 DEF Wanted
    <3> QED BY <3>1, <3>2
  <2> QED BY <2>1, <2>2
<1>6. HitsAt(P.hits, p) = IF p \in P.paths THEN Wanted(P, image) ELSE {}
  BY <1>1 DEF Right
<1>7. ASSUME p \in S.paths PROVE HitsAt(S.hits, p) = Wanted(S, image)
  <2>1. p \in paths /\ HitsAt(P.hits, p) = Wanted(P, image)
    BY <1>6, <1>7
  <2>2. \A s, x : <<s, x>> \in HitsAt(S.hits, p) <=> <<s, x>> \in Wanted(S, image)
    <3>1. ASSUME NEW s, NEW x PROVE <<s, x>> \in HitsAt(S.hits, p) <=> <<s, x>> \in Wanted(S, image)
      <4>1. <<s, x>> \in HitsAt(S.hits, p) <=> <<s, x>> \in HitsAt(P.hits, p) /\ x \in toks
        BY <1>4, <2>1
      <4>2. <<s, x>> \in Wanted(S, image) <=> <<s, x>> \in Wanted(P, image) /\ x \in toks
        BY <1>5
      <4> QED BY <2>1, <4>1, <4>2
    <3> QED BY <3>1
  <2>3. \A y \in HitsAt(S.hits, p) : \E s, x : y = <<s, x>>
    BY DEF HitsAt
  <2>4. \A y \in Wanted(S, image) : \E s, x : y = <<s, x>>
    BY DEF Wanted
  <2>5. HitsAt(S.hits, p) \subseteq Wanted(S, image) /\ Wanted(S, image) \subseteq HitsAt(S.hits, p)
    <3>1. ASSUME NEW y \in HitsAt(S.hits, p) PROVE y \in Wanted(S, image)
      <4>1. PICK s, x : y = <<s, x>>
        BY <2>3
      <4> QED BY <2>2, <4>1
    <3>2. ASSUME NEW y \in Wanted(S, image) PROVE y \in HitsAt(S.hits, p)
      <4>1. PICK s, x : y = <<s, x>>
        BY <2>4
      <4> QED BY <2>2, <4>1
    <3> QED BY <3>1, <3>2
  <2> QED BY <2>5
<1>8. ASSUME p \notin S.paths PROVE HitsAt(S.hits, p) = {}
  <2>1. \A s, x : <<s, x>> \notin HitsAt(S.hits, p)
    BY <1>4, <1>6, <1>8
  <2>2. \A y \in HitsAt(S.hits, p) : \E s, x : y = <<s, x>>
    BY DEF HitsAt
  <2> QED BY <2>1, <2>2
<1> QED BY <1>1, <1>7, <1>8 DEF Right

LEMMA RefineResultSetKeeps ==
  ASSUME IInv, RefineResultSet, UNCHANGED <<plan, preview>>
  PROVE  IInv'
<1>1. /\ call.kind = "refine" /\ look.at = "done" /\ UNCHANGED <<disk, ws>>
      /\ call' = Return /\ look' = NoLook /\ during' = Unmarked
  BY DEF RefineResultSet
<1>2. Moves /\ PlanInv' /\ Turned /\ StoreInv /\ WsInv
  BY <1>1, StillMoves, PlanStays, LookKinds DEF IInv, Turned
<1>3. CallInv' /\ call'.kind = "none"
  BY <1>1, CallReturns
<1>4. LookGood(look', store', ws', during') /\ look'.kind = "none"
  <2>1. Starting(look')
    BY <1>1 DEF Starting
  <2> QED BY <1>1, <2>1, LookStarts, LookKinds
<1>5. SUFFICES Grows
  BY <1>1, <1>2, <1>3, <1>4, LookTurns
<1>6. CASE ~look.ok
  BY <1>2, <1>6, StillGrows DEF RefineResultSet
<1>7. CASE look.ok
  <2>1. look.kind = "set" /\ LookGood(look, store, ws, during)
    BY <1>1 DEF IInv, LookInv
  <2>2. PICK P, was : P = look.set /\ was = look.hits
    OBVIOUS
  <2>3. Sure(P, ws, during) /\ Hydrated(look, ws)
    BY <1>1, <1>7, <2>1, <2>2 DEF LookGood
  <2>4. PICK I : I = {i \in DOMAIN was : was[i].path \in call.paths /\ was[i].text \in call.toks}
    OBVIOUS
  <2>5. PICK hits : hits = Kept(was, I)
    OBVIOUS
  <2>6. was \in Seq(HitSet) /\ DOMAIN was = DOMAIN P.hits
    BY <2>2, <2>3 DEF Hydrated
  <2>7. hits \in Seq(HitSet) /\ Elems(hits) = {was[i] : i \in I}
    BY <2>4, <2>5, <2>6, KeptMembers
  <2>8. PICK S : S = CurrentSet(P.scope, P.files, P.revs, hits, P.complete, P.links, P.paths \cap call.paths, P.toks \cap call.toks)
    OBVIOUS
  <2>9. store' = putSetLocked(store, S)
    BY <1>7, <2>2, <2>4, <2>5, <2>8 DEF RefineResultSet
  <2>10. /\ S.kind = "current" /\ S.seq = ws.seq /\ S.scope = P.scope /\ S.files = P.files
         /\ S.revs = P.revs /\ S.hits = hits /\ S.complete = P.complete /\ S.links = P.links
         /\ S.paths = P.paths \cap call.paths /\ S.toks = P.toks \cap call.toks
    BY <2>8 DEF CurrentSet
  <2>11. SetShape(S)
    BY <1>2, <2>3, <2>7, <2>10 DEF Sure, SetShape, WsInv
  <2>12. \A i \in DOMAIN was : was[i].path = P.hits[i].path /\ P.hits[i].path \in DOMAIN P.revs
    BY <2>2, <2>3, <2>6 DEF Hydrated, Sure, Backed
  <2>13. ASSUME NEW i \in DOMAIN hits PROVE hits[i].path \in DOMAIN P.revs
    <3>1. hits[i] \in Elems(hits)
      BY DEF Elems
    <3>2. PICK j \in I : hits[i] = was[j]
      BY <2>7, <3>1
    <3> QED BY <2>4, <2>12, <3>2
  <2>14. Backed(S, ws)
    BY <2>3, <2>10, <2>13 DEF Backed, Sure, Image
  <2>15. ASSUME S.complete, NEW p \in DOMAIN S.revs, ws.cache[p] = Image(S, p) PROVE Right(S, p)
    <3>1. Right(P, p) /\ ws.cache[p] = Image(P, p) /\ P.complete
      BY <2>3, <2>10, <2>15 DEF Sure, Image
    <3>2. \A i \in DOMAIN was : was[i].path = P.hits[i].path /\ (was[i].path = p => was[i] = P.hits[i])
      BY <2>2, <2>3, <2>6, <2>12, <3>1 DEF Hydrated
    <3>3. \A x : x \in Elems(S.hits) <=> \E i \in DOMAIN was : x = was[i] /\ was[i].path \in call.paths /\ was[i].text \in call.toks
      BY <2>4, <2>7, <2>10
    <3>4. PICK paths, toks : paths = call.paths /\ toks = call.toks
      OBVIOUS
    <3>5. \A x : x \in Elems(S.hits) <=> \E i \in DOMAIN was : x = was[i] /\ was[i].path \in paths /\ was[i].text \in toks
      BY <3>3, <3>4
    <3>6. S.paths = P.paths \cap paths /\ S.toks = P.toks \cap toks /\ S.revs = P.revs
      BY <2>10, <3>4
    <3> QED BY <2>6, <3>1, <3>2, <3>5, <3>6, RefinesRight
  <2>16. SetInv(S, ws')
    BY <1>1, <1>2, <2>10, <2>11, <2>14, <2>15 DEF SetInv, WsInv
  <2> QED BY <1>2, <2>9, <2>16, SetGrows
<1> QED BY <1>6, <1>7

LEMMA readHandleKeeps ==
  ASSUME IInv, NEW id, readHandle(id), UNCHANGED <<plan, preview>>
  PROVE  IInv'
<1>1. /\ UNCHANGED <<disk, ws, store>> /\ during' = Marked /\ look' = StartResolve(id)
      /\ call' = Ask("read")
  BY DEF readHandle
<1>2. Moves /\ Grows /\ PlanInv' /\ Turned
  BY <1>1, StillMoves, StillGrows, PlanStays DEF IInv, Turned
<1>3. CallInv' /\ call'.kind = "read"
  BY <1>1, CallAsks
<1>4. LookGood(look', store', ws', during')
  <2>1. Starting(look')
    BY <1>1 DEF Starting
  <2> QED BY <2>1, LookStarts
<1>5. look'.kind = "handle"
  BY <1>1, LookKinds
<1> QED BY <1>1, <1>2, <1>3, <1>4, <1>5, LookTurns

LEMMA readSymbolKeeps ==
  ASSUME IInv, NEW p \in Paths, NEW name, readSymbol(p, name), UNCHANGED <<plan, preview>>
  PROVE  IInv'
<1>1. disk' = disk /\ during' = Marked /\ ws' = Refresh(ws, p) /\ call' = [Ask("read") EXCEPT !.paths = {p}]
  BY DEF readSymbol
<1>2. Moves /\ PlanInv' /\ Turned /\ StoreInv /\ TreeInv
  BY <1>1, RefreshMoves, PlanStays DEF IInv, Turned
<1>3. PICK found, image, records :
        /\ image = disk[p] /\ found = IF IsText(image) THEN Declared(image, name) ELSE <<>>
        /\ records = [i \in DOMAIN found |-> SymbolRecord(p, image, found[i])]
  OBVIOUS
<1>4. found \in Seq(Nat)
  <2>1. CASE ~IsText(image)
    BY <1>3, <2>1
  <2>2. CASE IsText(image)
    <3>1. image \in Seq(Tokens)
      BY <1>2, <1>3, <2>2, ImageParts DEF TreeInv
    <3> QED BY <1>3, <2>2, <3>1, DeclaredOf
  <2> QED BY <2>1, <2>2
<1>5. Grows
  <2>1. Registers(records, p, image, found)
    BY <1>3 DEF Registers
  <2>2. store' = PutHandles(store, records)
    BY <1>3 DEF readSymbol
  <2> QED BY <1>2, <1>4, <2>1, <2>2, RecordsGrow
<1>6. CallInv' /\ call'.kind = "read"
  <2>1. PICK a, n : n = call.asked + 1 /\ a = [NoCall EXCEPT !.kind = "read", !.asked = n]
    OBVIOUS
  <2>2. CallShape(a) /\ a.kind = "read"
    BY <2>1, CallShapes
  <2>3. PICK c : c = [a EXCEPT !.paths = {p}]
    OBVIOUS
  <2>4. CallShape(c) /\ c.kind = "read"
    BY <2>2, <2>3 DEF CallShape
  <2>5. call' = c
    BY <1>1, <2>1, <2>3 DEF Ask
  <2> QED BY <2>4, <2>5 DEF CallInv
<1>7. \/ look' = StartResolve(store.next) \/ look' = Failed(NoLook)
      \/ look' = [NoLook EXCEPT !.kind = "locator", !.at = "find", !.path = p, !.name = name]
  BY DEF readSymbol
<1>8. LookGood(look', store', ws', during')
  <2>1. Starting(look')
    BY <1>7 DEF Starting
  <2> QED BY <2>1, LookStarts
<1>9. look'.kind # "set"
  <2>1. CASE look' = [NoLook EXCEPT !.kind = "locator", !.at = "find", !.path = p, !.name = name]
    BY <2>1 DEF NoLook
  <2>2. CASE look' = StartResolve(store.next) \/ look' = Failed(NoLook)
    BY <2>2, LookKinds
  <2> QED BY <1>7, <2>1, <2>2
<1> QED BY <1>1, <1>2, <1>5, <1>6, <1>8, <1>9, LookTurns

LEMMA ReadSelectedKeeps ==
  ASSUME IInv, ReadSelected, UNCHANGED <<plan, preview>>
  PROVE  IInv'
<1>1. /\ UNCHANGED <<disk, ws, store, call>> /\ during' = Marked /\ look' = StartResolve(look.id)
      /\ call.kind = "read"
  BY DEF ReadSelected
<1>2. Moves /\ Grows /\ PlanInv' /\ Turned
  BY <1>1, StillMoves, StillGrows, PlanStays DEF IInv, Turned
<1>3. CallInv'
  BY <1>1, <1>2, CallStays DEF IInv
<1>4. LookGood(look', store', ws', during')
  <2>1. Starting(look')
    BY <1>1 DEF Starting
  <2> QED BY <2>1, LookStarts
<1>5. look'.kind = "handle"
  BY <1>1, LookKinds
<1> QED BY <1>1, <1>2, <1>3, <1>4, <1>5, LookTurns

LEMMA ReadResolvedKeeps ==
  ASSUME IInv, ReadResolved, UNCHANGED <<plan, preview>>
  PROVE  IInv'
<1>1. /\ UNCHANGED <<disk, store>> /\ during' = Unmarked /\ look' = NoLook /\ call' = Return
      /\ ws' = ws \/ \E ps : ws' = RefreshAll(ws, ps)
  BY DEF ReadResolved
<1>2. Moves
  BY <1>1, StillMoves, RefreshAllMoves DEF IInv
<1>3. Grows /\ PlanInv' /\ Turned
  BY <1>1, StillGrows, PlanStays, LookKinds DEF IInv, Turned
<1>4. CallInv' /\ call'.kind = "none"
  BY <1>1, CallReturns
<1>5. LookGood(look', store', ws', during')
  <2>1. Starting(look')
    BY <1>1 DEF Starting
  <2> QED BY <2>1, LookStarts
<1>6. look'.kind = "none"
  BY <1>1, LookKinds
<1> QED BY <1>1, <1>2, <1>3, <1>4, <1>5, <1>6, LookTurns

-----------------------------------------------------------------------------
(* Everyone else. *)
LEMMA OthersKeep ==
  ASSUME IInv, Moves, Grows, Remembers, TreeInv', DuringInv', UNCHANGED <<call, look, plan>>, ws'.cache = ws.cache
  PROVE  IInv'
<1>1. WsInv' /\ PlanInv' /\ StoreInv' /\ CallInv'
  BY StoreStep, CallStays, PlanStays DEF IInv, WsInv, Moves
<1>2. LookGood(look, store', ws', during')
  <2>1. PICK l : l = look
    OBVIOUS
  <2>2. LookGood(l, store, ws, during)
    BY <2>1 DEF IInv, LookInv
  <2>3. LookGood(l, store', ws', during')
    BY <2>2, LookStays DEF IInv
  <2> QED BY <2>1, <2>3
<1>3. LookInv'
  BY <1>2 DEF IInv, LookInv
<1> QED BY <1>1, <1>3 DEF IInv

LEMMA ExternalKeeps ==
  ASSUME IInv, NEW p \in Paths, NEW image \in Texts \cup {Missing, Binary, Link}, External(p, image),
         UNCHANGED <<plan, preview>>
  PROVE  IInv'
<1>1. /\ disk' = [disk EXCEPT ![p] = image] /\ UNCHANGED <<ws, store, call, look>>
      /\ during' = IF look.at = "idle" THEN during ELSE [during EXCEPT ![p] = during[p] \cup {image}]
  BY DEF External, IInv, DuringInv
<1>2. image \in Images
  BY TokensAssumption DEF Images
<1>3. Moves /\ Grows
  BY <1>1, StillMoves, StillGrows DEF IInv
<1>4. TreeInv /\ DuringInv
  BY DEF IInv
<1>5. TreeInv' /\ disk'[p] = image /\ \A q \in Paths \ {p} : disk'[q] = disk[q]
  BY <1>1, <1>2, <1>4 DEF TreeInv
<1>6. CASE look.at = "idle"
  BY <1>1, <1>3, <1>4, <1>5, <1>6, OthersKeep DEF DuringInv, Remembers
<1>7. CASE look.at # "idle"
  <2>1. during' = [during EXCEPT ![p] = during[p] \cup {image}]
    BY <1>1, <1>7
  <2>2. during' \in [Paths -> SUBSET Images] /\ during'[p] = during[p] \cup {image} /\ \A q \in Paths \ {p} : during'[q] = during[q]
    BY <1>2, <1>4, <2>1 DEF DuringInv
  <2>3. \A q \in Paths : disk'[q] \in during'[q]
    BY <1>4, <1>5, <1>7, <2>2 DEF DuringInv
  <2>4. DuringInv' /\ Remembers
    BY <2>2, <2>3 DEF DuringInv, Remembers
  <2> QED BY <1>1, <1>3, <1>5, <2>4, OthersKeep
<1> QED BY <1>6, <1>7

(* The tree as it is, and what is looked up as it was. *)
LEMMA OthersStay ==
  ASSUME IInv, UNCHANGED <<disk, look, during>>
  PROVE  TreeInv' /\ DuringInv' /\ Remembers
BY DEF IInv, TreeInv, DuringInv, Remembers

LEMMA SyncProviderEpochKeeps ==
  ASSUME IInv, SyncProviderEpoch, UNCHANGED <<plan, preview>>
  PROVE  IInv'
<1>1. ws' = [ws EXCEPT !.epoch = @ + 1, !.seq = @ + 1] /\ UNCHANGED <<disk, store, call, look, during>>
  BY DEF SyncProviderEpoch
<1>2. Moves /\ Grows /\ TreeInv' /\ DuringInv' /\ Remembers
  BY <1>1, StillMoves, StillGrows, OthersStay DEF IInv
<1>3. ws'.cache = ws.cache
  BY <1>1 DEF IInv, WsInv
<1> QED BY <1>1, <1>2, <1>3, OthersKeep

LEMMA ExpireKeeps ==
  ASSUME IInv, Expire, UNCHANGED <<plan, preview>>
  PROVE  IInv'
<1>1. store.expired < store.next - 1 /\ UNCHANGED <<disk, ws, call, look, during>>
  BY DEF Expire
<1>2. Moves /\ TreeInv' /\ DuringInv' /\ Remembers
  BY <1>1, StillMoves, OthersStay DEF IInv
<1>3. StoreInv /\ Shape(store) /\ store.next \in Nat /\ store.expired \in Nat
  BY DEF IInv, StoreInv, Shape
<1>4. PICK n \in Nat : n = store.next - 1
  BY <1>1, <1>3
<1>5. store' = [store EXCEPT !.expired = n, !.due = TRUE]
  BY <1>4 DEF Expire
<1>6. Shape(store)' /\ store'.next = store.next /\ store'.handles = store.handles /\ store'.sets = store.sets
  BY <1>3, <1>5 DEF Shape
<1>7. Grows
  BY <1>3, <1>6 DEF Grows, StoreInv
<1> QED BY <1>1, <1>2, <1>7, OthersKeep

(* The sets others store are sets. *)
LEMMA OtherSets ==
  ASSUME IInv, ws' = ws, NEW complete \in BOOLEAN, NEW S,
         S = CurrentSet(Paths, <<>>, <<>>, <<>>, complete, {}, Paths, Tokens)
  PROVE  SetInv(S, ws') /\ SetInv([S EXCEPT !.kind = "historical"], ws')
<1>1. /\ S.kind = "current" /\ S.seq = ws.seq /\ S.scope = Paths /\ S.files = <<>> /\ S.revs = <<>>
      /\ S.hits = <<>> /\ S.complete = complete /\ S.links = {}
  BY DEF CurrentSet
<1>2. SetShape(S)
  <2>1. <<>> \in Seq(Paths) /\ <<>> \in Seq(HitSet) /\ ws.seq \in Nat
    BY DEF IInv, WsInv
  <2> QED BY <1>1, <2>1 DEF SetShape
<1>3. Backed(S, ws')
  BY <1>1 DEF Backed, Elems
<1>4. SetInv(S, ws')
  BY <1>1, <1>2, <1>3 DEF SetInv, IInv, WsInv
<1>5. PICK H : H = [S EXCEPT !.kind = "historical"]
  OBVIOUS
<1>6. /\ H.kind = "historical" /\ H.seq = S.seq /\ H.scope = S.scope /\ H.files = S.files
      /\ H.hits = S.hits /\ H.complete = S.complete
  BY <1>5 DEF CurrentSet
<1>7. SetInv(H, ws')
  BY <1>2, <1>6 DEF SetInv, SetShape
<1> QED BY <1>4, <1>5, <1>7

LEMMA OtherSearchKeeps ==
  ASSUME IInv, OtherSearch, UNCHANGED <<plan, preview>>
  PROVE  IInv'
<1>1. UNCHANGED <<disk, ws, call, look, during>> /\ StoreInv
  BY DEF OtherSearch, IInv
<1>2. Moves /\ TreeInv' /\ DuringInv' /\ Remembers
  BY <1>1, StillMoves, OthersStay DEF IInv
<1>3. PICK p, text, r : /\ p \in Paths
                        /\ p = CHOOSE q \in Paths : TRUE
                        /\ text = <<CHOOSE t \in Tokens : TRUE>>
                        /\ r = RangeRecord(p, text, 0)
  BY PathsAssumption
<1>4. IsHandle(r)
  BY <1>3 DEF RangeRecord, rangeHandle, IsHandle, IsPlace
<1>5. PICK S : S = CurrentSet(Paths, <<>>, <<>>, <<>>, TRUE, {}, Paths, Tokens)
  OBVIOUS
<1>6. SetInv(S, ws')
  BY <1>1, <1>5, OtherSets
<1>7. PICK s, t, u : s = store /\ t = putHandleLocked(s, r) /\ u = putSetLocked(t, S)
  OBVIOUS
<1>8. store' = u
  BY <1>3, <1>5, <1>7 DEF OtherSearch
<1>9. Numbered(s) /\ s.next \in Nat
  BY <1>1, <1>7, StoreNumbered
<1>10. Adds(t, s, {r}, {}) /\ t.next = s.next + 1
  BY <1>7, <1>9, PutHandleAdds
<1>11. Numbered(t)
  BY <1>10 DEF Adds, Numbered
<1>12. Adds(u, t, {}, {S}) /\ u.next = t.next + 1
  BY <1>7, <1>11, PutSetAdds
<1>13. Adds(u, s, {r}, {S})
  <2>1. Shape(u) /\ u.next >= s.next
    BY <1>9, <1>10, <1>12 DEF Adds
  <2>2. ASSUME NEW id \in DOMAIN u.handles
        PROVE  /\ id \in Nat /\ id < u.next
               /\ IF id < s.next THEN id \in DOMAIN s.handles /\ u.handles[id] = s.handles[id] ELSE u.handles[id] \in {r}
    <3>1. id \in Nat /\ id < u.next /\ (id < t.next => id \in DOMAIN t.handles /\ u.handles[id] = t.handles[id]) /\ ~(id >= t.next)
      BY <1>9, <1>10, <1>12 DEF Adds
    <3>2. id \in DOMAIN t.handles /\ u.handles[id] = t.handles[id]
      BY <1>9, <1>10, <3>1
    <3> QED BY <1>10, <3>1, <3>2 DEF Adds
  <2>3. \A id \in DOMAIN u.sets : (id \in DOMAIN s.sets /\ u.sets[id] = s.sets[id]) \/ u.sets[id] \in {S}
    BY <1>10, <1>12 DEF Adds
  <2> QED BY <2>1, <2>2, <2>3 DEF Adds
<1>14. Grows
  <2>1. Adds(u, store, {r}, {S})
    BY <1>7, <1>13
  <2> QED BY <1>1, <1>4, <1>6, <1>8, <2>1, AddsGrows
<1> QED BY <1>1, <1>2, <1>14, OthersKeep

LEMMA FreezeHistoricalResultSetKeeps ==
  ASSUME IInv, FreezeHistoricalResultSet, UNCHANGED <<plan, preview>>
  PROVE  IInv'
<1>1. UNCHANGED <<disk, ws, call, look, during>> /\ StoreInv
  BY DEF FreezeHistoricalResultSet, IInv
<1>2. Moves /\ TreeInv' /\ DuringInv' /\ Remembers
  BY <1>1, StillMoves, OthersStay DEF IInv
<1>3. Shape(store) /\ store.next \in Nat
  BY <1>1, StoreNumbered DEF Numbered
<1>4. CASE store' = [putSetLocked(store, CurrentSet(Paths, <<>>, <<>>, <<>>, TRUE, {}, Paths, Tokens)) EXCEPT !.pending = store.next]
  <2>1. PICK S, s, t : /\ S = CurrentSet(Paths, <<>>, <<>>, <<>>, TRUE, {}, Paths, Tokens)
                       /\ s = store /\ t = putSetLocked(s, S)
    OBVIOUS
  <2>2. SetInv(S, ws')
    BY <1>1, <2>1, OtherSets
  <2>3. Numbered(s)
    BY <1>1, <2>1, StoreNumbered
  <2>4. Adds(t, s, {}, {S})
    BY <2>1, <2>3, PutSetAdds
  <2>5. PICK n, u : n \in Nat /\ n = store.next /\ u = [t EXCEPT !.pending = n]
    BY <1>3
  <2>6. Shape(u) /\ u.handles = t.handles /\ u.sets = t.sets /\ u.next = t.next
    <3>1. Shape(t)
      BY <2>4 DEF Adds
    <3> QED BY <2>5, <3>1 DEF Shape
  <2>7. Adds(u, store, {}, {S}) /\ store' = u
    <3>1. Adds(u, s, {}, {S})
      BY <2>4, <2>6 DEF Adds
    <3>2. store' = u
      BY <1>4, <2>1, <2>5
    <3> QED BY <2>1, <3>1, <3>2
  <2>8. Grows
    BY <1>1, <2>2, <2>7, AddsGrows
  <2> QED BY <1>1, <1>2, <2>8, OthersKeep
<1>5. CASE store' = [store EXCEPT !.pending = 0, !.sets = Put(@, store.pending,
                       [CurrentSet(Paths, <<>>, <<>>, <<>>, FALSE, {}, Paths, Tokens) EXCEPT !.kind = "historical"])]
  <2>1. PICK S, H, k : /\ S = CurrentSet(Paths, <<>>, <<>>, <<>>, FALSE, {}, Paths, Tokens)
                       /\ H = [S EXCEPT !.kind = "historical"] /\ k = Put(store.sets, store.pending, H)
    OBVIOUS
  <2>2. SetInv(H, ws')
    BY <1>1, <2>1, OtherSets
  <2>3. store' = [store EXCEPT !.pending = 0, !.sets = k]
    BY <1>3, <1>5, <2>1 DEF Shape
  <2>4. Shape(store)' /\ store'.handles = store.handles /\ store'.next = store.next /\ store'.sets = k
    BY <1>3, <2>3 DEF Shape
  <2>5. \A id \in DOMAIN k : (id \in DOMAIN store.sets /\ k[id] = store.sets[id]) \/ k[id] = H
    BY <2>1 DEF Put
  <2>6. Grows
    BY <1>1, <1>3, <2>2, <2>4, <2>5 DEF Grows, StoreInv
  <2> QED BY <1>1, <1>2, <2>6, OthersKeep
<1> QED BY <1>4, <1>5 DEF FreezeHistoricalResultSet

-----------------------------------------------------------------------------
(* The plan: its operations name paths of the tree. *)
LEMMA OnPathsWhen ==
  ASSUME NEW X, NEW list \in Seq(X), \A i \in DOMAIN list : list[i].op.path \in Paths
  PROVE  OnPaths(list)
<1>1. PICK n \in Nat : n = Len(list)
  OBVIOUS
<1>2. list \in [1..n -> X] /\ DOMAIN list = 1..n
  BY <1>1
<1>3. \A i \in 1..n : list[i] \in Elems(list)
  BY <1>2 DEF Elems
<1>4. list \in [1..n -> Elems(list)]
  BY <1>2, <1>3
<1>5. list \in Seq(Elems(list))
  BY <1>4
<1>6. \A b \in Elems(list) : b.op.path \in Paths
  BY DEF Elems
<1> QED BY <1>5, <1>6 DEF OnPaths

LEMMA OnPathsEach ==
  ASSUME NEW list, OnPaths(list)
  PROVE  /\ list \in Seq(Elems(list)) /\ Len(list) \in Nat /\ DOMAIN list = 1..Len(list)
         /\ \A i \in DOMAIN list : list[i] \in Elems(list) /\ list[i].op.path \in Paths
<1>1. list \in Seq(Elems(list))
  BY DEF OnPaths
<1>2. \A i \in DOMAIN list : list[i] \in Elems(list)
  BY DEF Elems
<1> QED BY <1>1, <1>2 DEF OnPaths

LEMMA OnPathsMap ==
  ASSUME NEW n \in Nat, NEW list, list = [i \in 1..n |-> list[i]], \A i \in 1..n : list[i].op.path \in Paths
  PROVE  OnPaths(list)
<1>1. list \in [1..n -> {list[i] : i \in 1..n}]
  OBVIOUS
<1>2. list \in Seq({list[i] : i \in 1..n}) /\ DOMAIN list = 1..n
  BY <1>1
<1> QED BY <1>2, OnPathsWhen

LEMMA NoneOnPaths == OnPaths(<<>>)
BY DEF OnPaths, Elems

LEMMA AppendOnPaths ==
  ASSUME NEW list, OnPaths(list), NEW b, b.op.path \in Paths
  PROVE  OnPaths(Append(list, b))
<1>0. PICK X : X = Elems(list) \cup {b}
  OBVIOUS
<1>1. PICK n \in Nat : n = Len(list)
  BY OnPathsEach
<1>2. list \in Seq(X) /\ b \in X /\ DOMAIN list = 1..n
  BY <1>0, <1>1, OnPathsEach
<1>3. PICK t : t = Append(list, b)
  OBVIOUS
<1>4. t \in Seq(X) /\ DOMAIN t = 1..(n + 1) /\ t[n + 1] = b /\ \A i \in 1..n : t[i] = list[i]
  BY <1>1, <1>2, <1>3
<1>5. \A i \in 1..n : list[i].op.path \in Paths
  BY <1>2, OnPathsEach
<1>6. \A i \in DOMAIN t : t[i].op.path \in Paths
  BY <1>4, <1>5
<1> QED BY <1>3, <1>4, <1>6, OnPathsWhen

LEMMA JoinOnPaths ==
  ASSUME NEW a, OnPaths(a), NEW b, OnPaths(b)
  PROVE  OnPaths(a \o b)
<1>0. PICK X : X = Elems(a) \cup Elems(b)
  OBVIOUS
<1>1. PICK m \in Nat, n \in Nat : m = Len(a) /\ n = Len(b)
  BY OnPathsEach
<1>2. a \in Seq(X) /\ b \in Seq(X) /\ DOMAIN a = 1..m /\ DOMAIN b = 1..n
  BY <1>0, <1>1, OnPathsEach
<1>3. PICK t : t = a \o b
  OBVIOUS
<1>4. /\ t \in Seq(X) /\ DOMAIN t = 1..(m + n)
      /\ \A i \in 1..m : t[i] = a[i]
      /\ \A i \in 1..(m + n) : i > m => t[i] = b[i - m] /\ i - m \in 1..n
  BY <1>1, <1>2, <1>3
<1>5. (\A i \in 1..m : a[i].op.path \in Paths) /\ (\A i \in 1..n : b[i].op.path \in Paths)
  BY <1>2, OnPathsEach
<1>6. ASSUME NEW i \in DOMAIN t PROVE t[i].op.path \in Paths
  <2>1. CASE i <= m
    BY <1>4, <1>5, <2>1
  <2>2. CASE i > m
    BY <1>4, <1>5, <2>2
  <2> QED BY <1>4, <2>1, <2>2
<1> QED BY <1>3, <1>4, <1>6, OnPathsWhen

LEMMA EditOnPaths ==
  ASSUME NEW ops, OnPaths(ops), NEW edit \in Edits, ~EditRefused(ops, edit)
  PROVE  OnPaths(applyPlanEdit(ops, edit))
<1>1. /\ edit.mode \in {"add", "update", "remove", "reorder", "replace_all"}
      /\ OnPaths(edit.ops) /\ edit.ids \in Seq(Elems(edit.ids))
  BY PlansAssumption
<1> DEFINE named(list, id) == CHOOSE b \in Elems(list) : b.op.id = id
<1>2. ASSUME NEW list, OnPaths(list), NEW id \in IdsOf(list) PROVE named(list, id).op.path \in Paths
  <2>1. \E b \in Elems(list) : b.op.id = id
    BY DEF IdsOf
  <2>2. named(list, id) \in Elems(list)
    BY <2>1
  <2> QED BY <1>2, <2>2 DEF OnPaths
<1>3. PICK n \in Nat : n = Len(ops) /\ DOMAIN ops = 1..n /\ \A i \in 1..n : ops[i].op.path \in Paths
  BY OnPathsEach
<1>4. CASE edit.mode = "add"
  BY <1>1, <1>4, JoinOnPaths DEF applyPlanEdit
<1>5. CASE edit.mode = "update"
  <2>1. PICK t : t = [i \in 1..n |-> IF ops[i].op.id \in IdsOf(edit.ops) THEN named(edit.ops, ops[i].op.id) ELSE ops[i]]
    OBVIOUS
  <2>2. \A i \in 1..n : t[i].op.path \in Paths
    <3> HIDE DEF named
    <3>1. ASSUME NEW i \in 1..n PROVE t[i].op.path \in Paths
      <4>1. CASE ops[i].op.id \in IdsOf(edit.ops)
        BY <1>1, <1>2, <2>1, <4>1
      <4>2. CASE ops[i].op.id \notin IdsOf(edit.ops)
        BY <1>3, <2>1, <4>2
      <4> QED BY <4>1, <4>2
    <3> QED BY <3>1
  <2>3. OnPaths(t)
    <3> HIDE DEF named
    <3>1. t = [i \in 1..n |-> t[i]]
      BY <2>1
    <3> QED BY <2>2, <3>1, OnPathsMap
  <2>4. applyPlanEdit(ops, edit) = t
    BY <1>3, <1>5, <2>1 DEF applyPlanEdit
  <2> QED BY <2>3, <2>4
<1>6. CASE edit.mode = "remove"
  <2>1. PICK I, t : I = {i \in DOMAIN ops : ops[i].op.id \notin Elems(edit.ids)} /\ t = Kept(ops, I)
    OBVIOUS
  <2>2. t \in Seq(Elems(ops)) /\ Elems(t) = {ops[i] : i \in I}
    BY <2>1, OnPathsEach, KeptMembers
  <2>3. \A i \in DOMAIN t : t[i] \in Elems(ops)
    BY <2>2
  <2>4. \A i \in DOMAIN t : t[i].op.path \in Paths
    BY <2>3 DEF OnPaths
  <2>5. OnPaths(t)
    BY <2>2, <2>4, OnPathsWhen
  <2> QED BY <1>6, <2>1, <2>5 DEF applyPlanEdit
<1>7. CASE edit.mode = "reorder"
  <2>1. PICK m \in Nat : m = Len(edit.ids) /\ DOMAIN edit.ids = 1..m
    BY <1>1
  <2>2. Elems(edit.ids) = IdsOf(ops)
    BY <1>7 DEF EditRefused
  <2>3. PICK t : t = [i \in 1..m |-> named(ops, edit.ids[i])]
    OBVIOUS
  <2>4. \A i \in 1..m : edit.ids[i] \in IdsOf(ops)
    BY <2>1, <2>2 DEF Elems
  <2>5. OnPaths(t)
    <3> HIDE DEF named
    <3>1. \A i \in 1..m : t[i].op.path \in Paths
      BY <1>2, <2>3, <2>4
    <3>2. t = [i \in 1..m |-> t[i]]
      BY <2>3
    <3> QED BY <3>1, <3>2, OnPathsMap
  <2>6. applyPlanEdit(ops, edit) = t
    BY <1>7, <2>1, <2>3 DEF applyPlanEdit
  <2> QED BY <2>5, <2>6
<1>8. CASE edit.mode = "replace_all"
  BY <1>1, <1>8 DEF applyPlanEdit
<1> QED BY <1>1, <1>4, <1>5, <1>6, <1>7, <1>8

(* What a step of the planning may do to the plan, the call and the cache. *)
Plotted == plan' = plan \/ plan' = Refused \/ \E b : b.op.path \in Paths /\ Bind(b)
Calls ==
  \/ call' = call \/ call' = Return
  \/ call.kind = "none" /\ \E kind : kind \notin {"search", "refine"} /\ call' = [call EXCEPT !.kind = kind]
Reads == ws' = ws \/ \E ps : ws' = RefreshAll(ws, ps)

LEMMA PlotKeeps ==
  ASSUME PlanInv, Plotted
  PROVE  PlanInv'
<1>1. /\ plan \in [at : {plan.at}, template : {plan.template}, ops : {plan.ops}, kept : {plan.kept}, edited : {plan.edited}]
      /\ OnPaths(plan.template) /\ OnPaths(plan.ops) /\ OnPaths(plan.kept)
  BY DEF PlanInv
<1>2. CASE plan' = plan
  BY <1>2 DEF PlanInv, OnPaths
<1>3. CASE plan' = Refused
  <2>1. PICK p : p = Refused
    OBVIOUS
  <2>2. CASE call.kind = "edit"
    <3>1. p = [plan EXCEPT !.ops = plan.kept]
      BY <2>1, <2>2 DEF Refused
    <3>2. /\ p \in [at : {p.at}, template : {p.template}, ops : {p.ops}, kept : {p.kept}, edited : {p.edited}]
          /\ OnPaths(p.template) /\ OnPaths(p.ops) /\ OnPaths(p.kept)
      BY <1>1, <3>1
    <3> QED BY <1>3, <2>1, <3>2 DEF PlanInv, OnPaths
  <2>3. CASE call.kind # "edit"
    <3>1. p = [NoPlan EXCEPT !.at = "refused"]
      BY <2>1, <2>3 DEF Refused
    <3>2. /\ p \in [at : {p.at}, template : {p.template}, ops : {p.ops}, kept : {p.kept}, edited : {p.edited}]
          /\ p.template = <<>> /\ p.ops = <<>> /\ p.kept = <<>>
      BY <3>1 DEF NoPlan
    <3>3. OnPaths(p.template) /\ OnPaths(p.ops) /\ OnPaths(p.kept)
      BY <3>2, NoneOnPaths
    <3> QED BY <1>3, <2>1, <3>2, <3>3 DEF PlanInv, OnPaths
  <2> QED BY <2>2, <2>3
<1>4. ASSUME NEW b, b.op.path \in Paths, Bind(b) PROVE PlanInv'
  <2>1. PICK o : o = Append(plan.ops, b)
    OBVIOUS
  <2>2. OnPaths(o)
    BY <1>1, <1>4, <2>1, AppendOnPaths
  <2>3. PICK p : p = [plan EXCEPT !.ops = o]
    OBVIOUS
  <2>4. /\ p \in [at : {p.at}, template : {p.template}, ops : {p.ops}, kept : {p.kept}, edited : {p.edited}]
        /\ OnPaths(p.template) /\ OnPaths(p.ops) /\ OnPaths(p.kept)
    BY <1>1, <2>2, <2>3
  <2>5. plan' = p
    BY <1>4, <2>1, <2>3 DEF Bind
  <2> QED BY <2>4, <2>5 DEF PlanInv, OnPaths
<1> QED BY <1>2, <1>3, <1>4 DEF Plotted

LEMMA CallGoes ==
  ASSUME WsInv, Moves, CallInv, Calls, call.kind # "refine"
  PROVE  CallInv' /\ call'.kind # "refine"
<1>1. CASE call' = call
  BY <1>1, CallStays
<1>2. CASE call' = Return
  BY <1>2, CallReturns
<1>3. ASSUME NEW kind, kind \notin {"search", "refine"}, call' = [call EXCEPT !.kind = kind]
      PROVE  CallInv' /\ call'.kind # "refine"
  <2>1. PICK c : c = [call EXCEPT !.kind = kind]
    OBVIOUS
  <2>2. CallShape(c) /\ c.kind = kind
    BY <2>1 DEF CallInv, CallShape
  <2> QED BY <1>3, <2>1, <2>2 DEF CallInv
<1> QED BY <1>1, <1>2, <1>3 DEF Calls

LEMMA PlanningKeeps ==
  ASSUME IInv, UNCHANGED <<disk, store, look, during>>, Reads, Calls, PlanInv', call.kind # "refine"
  PROVE  IInv'
<1>1. Moves
  BY StillMoves, RefreshAllMoves DEF IInv, Reads
<1>2. Grows
  BY StillGrows DEF IInv
<1>3. CallInv' /\ call'.kind # "refine"
  BY <1>1, CallGoes DEF IInv
<1> QED BY <1>1, <1>2, <1>3, CallKeeps

LEMMA PlanningTurns ==
  ASSUME IInv, UNCHANGED <<disk, store>>, Reads, Calls, PlanInv', call.kind # "refine",
         Turned, Starting(look'), look'.kind # "set"
  PROVE  IInv'
<1>1. Moves
  BY StillMoves, RefreshAllMoves DEF IInv, Reads
<1>2. Grows
  BY StillGrows DEF IInv
<1>3. CallInv' /\ call'.kind # "refine"
  BY <1>1, CallGoes DEF IInv
<1> QED BY <1>1, <1>2, <1>3, LookStarts, LookTurns

(* The operation that is normalized next names a path of the tree. *)
LEMMA NamesPath ==
  ASSUME PlanInv, Unnormalized
  PROVE  Entry.op.path \in Paths /\ Operation = Entry.op /\ call.kind \in {"create", "edit"}
<1>1. PICK t : t = plan.template
  OBVIOUS
<1>2. PICK o : o = plan.ops
  OBVIOUS
<1>3. OnPaths(t) /\ OnPaths(o) /\ Len(o) < Len(t)
  BY <1>1, <1>2 DEF PlanInv, Unnormalized
<1>4. Len(o) \in Nat /\ Len(t) \in Nat /\ DOMAIN t = 1..Len(t) /\ \A i \in DOMAIN t : t[i].op.path \in Paths
  BY <1>3, OnPathsEach
<1>5. t[Len(o) + 1].op.path \in Paths
  BY <1>3, <1>4
<1> QED BY <1>1, <1>2, <1>5 DEF Entry, Operation, Unnormalized

LEMMA BoundOps == \A op, loc, rev, toRev : Bound(op, loc, rev, toRev).op = op /\ Unbound(op).op = op
BY DEF Bound, Unbound

-----------------------------------------------------------------------------
(* The steps of the planning. *)
LEMMA CreatePlanKeeps ==
  ASSUME IInv, NEW ops \in Plans, CreatePlan(ops)
  PROVE  IInv'
<1>1. call' = [call EXCEPT !.kind = "create"] /\ call.kind = "none" /\ UNCHANGED <<disk, ws, store, look, during>>
  BY DEF CreatePlan
<1>2. PICK t : t = [i \in DOMAIN ops |-> Unbound(ops[i])]
  OBVIOUS
<1>3. ops \in Seq(Elems(ops)) /\ \A op \in Elems(ops) : op.path \in Paths
  BY PlansAssumption
<1>4. PICK n \in Nat : DOMAIN ops = 1..n
  BY <1>3
<1>5. OnPaths(t)
  <2>1. \A i \in 1..n : ops[i].path \in Paths
    BY <1>3, <1>4 DEF Elems
  <2>2. \A i \in 1..n : t[i].op.path \in Paths
    BY <1>2, <1>4, <2>1, BoundOps
  <2>3. t = [i \in 1..n |-> t[i]]
    BY <1>2, <1>4
  <2> QED BY <2>2, <2>3, OnPathsMap
<1>6. PICK p : p = [NoPlan EXCEPT !.at = "open", !.template = t]
  OBVIOUS
<1>7. /\ p \in [at : {p.at}, template : {p.template}, ops : {p.ops}, kept : {p.kept}, edited : {p.edited}]
      /\ p.template = t /\ p.ops = <<>> /\ p.kept = <<>>
  BY <1>6 DEF NoPlan
<1>8. OnPaths(p.template) /\ OnPaths(p.ops) /\ OnPaths(p.kept)
  BY <1>5, <1>7, NoneOnPaths
<1>9. plan' = p
  BY <1>2, <1>6 DEF CreatePlan, Unbounds
<1>10. PlanInv'
  BY <1>7, <1>8, <1>9 DEF PlanInv, OnPaths
<1> QED BY <1>1, <1>10, PlanningKeeps DEF Reads, Calls

LEMMA EditPlanKeeps ==
  ASSUME IInv, NEW edit \in Edits, EditPlan(edit)
  PROVE  IInv'
<1>1. call.kind = "none" /\ UNCHANGED <<disk, ws, store, look, during>>
  BY DEF EditPlan
<1>2. /\ plan \in [at : {plan.at}, template : {plan.template}, ops : {plan.ops}, kept : {plan.kept}, edited : {plan.edited}]
      /\ OnPaths(plan.template) /\ OnPaths(plan.ops) /\ OnPaths(plan.kept)
  BY DEF IInv, PlanInv
<1>3. CASE EditRefused(plan.ops, edit)
  <2>1. PICK p : p = [plan EXCEPT !.edited = TRUE]
    OBVIOUS
  <2>2. /\ p \in [at : {p.at}, template : {p.template}, ops : {p.ops}, kept : {p.kept}, edited : {p.edited}]
        /\ OnPaths(p.template) /\ OnPaths(p.ops) /\ OnPaths(p.kept)
    BY <1>2, <2>1
  <2>3. plan' = p /\ call' = call
    BY <1>3, <2>1 DEF EditPlan
  <2>4. PlanInv'
    BY <2>2, <2>3 DEF PlanInv, OnPaths
  <2> QED BY <1>1, <2>3, <2>4, PlanningKeeps DEF Reads, Calls
<1>4. CASE ~EditRefused(plan.ops, edit)
  <2>1. PICK o : o = plan.ops
    OBVIOUS
  <2>2. PICK t : t = applyPlanEdit(o, edit)
    OBVIOUS
  <2>3. OnPaths(t)
    BY <1>2, <1>4, <2>1, <2>2, EditOnPaths
  <2>4. PICK p : p = [plan EXCEPT !.template = t, !.ops = <<>>, !.kept = o, !.edited = TRUE]
    OBVIOUS
  <2>5. /\ p \in [at : {p.at}, template : {p.template}, ops : {p.ops}, kept : {p.kept}, edited : {p.edited}]
        /\ OnPaths(p.template) /\ OnPaths(p.ops) /\ OnPaths(p.kept)
    BY <1>2, <2>1, <2>3, <2>4, NoneOnPaths
  <2>6. plan' = p /\ call' = [call EXCEPT !.kind = "edit"]
    BY <1>4, <2>1, <2>2, <2>4 DEF EditPlan
  <2>7. PlanInv'
    BY <2>5, <2>6 DEF PlanInv, OnPaths
  <2> QED BY <1>1, <2>6, <2>7, PlanningKeeps DEF Reads, Calls
<1> QED BY <1>3, <1>4

LEMMA BindFileKeeps ==
  ASSUME IInv, NEW ps, NEW legal, NEW b, b.op.path \in Paths, BindFile(ps, legal, b), call.kind # "refine"
  PROVE  IInv'
<1>1. UNCHANGED <<disk, store, look, during>> /\ Reads /\ Calls /\ Plotted
  BY DEF BindFile, Snapshots, Reads, Calls, Plotted, Refuse
<1>2. PlanInv'
  BY <1>1, PlotKeeps DEF IInv
<1> QED BY <1>1, <1>2, PlanningKeeps

LEMMA BindFilesKeep ==
  ASSUME IInv, normalizeCreateFile \/ normalizeDeleteFile \/ normalizeMoveFile \/ normalizeCopyFile
  PROVE  IInv'
<1>1. Unnormalized
  BY DEF normalizeCreateFile, normalizeDeleteFile, normalizeMoveFile, normalizeCopyFile, Fresh, Normalizing
<1>2. Entry.op.path \in Paths /\ Operation = Entry.op /\ call.kind # "refine"
  BY <1>1, NamesPath DEF IInv
<1>3. PICK op : op = Operation
  OBVIOUS
<1>4. \E ps, legal, loc, rev, toRev :
        BindFile(ps, legal, Bound(op, loc, rev, toRev)) \/ BindFile(ps, legal, Entry)
  BY <1>3, Zenon DEF normalizeCreateFile, normalizeDeleteFile, normalizeMoveFile, normalizeCopyFile
<1>5. PICK ps, legal, loc, rev, toRev :
        BindFile(ps, legal, Bound(op, loc, rev, toRev)) \/ BindFile(ps, legal, Entry)
  BY <1>4
<1>6. CASE BindFile(ps, legal, Bound(op, loc, rev, toRev))
  <2>1. PICK b : b = Bound(op, loc, rev, toRev)
    OBVIOUS
  <2>2. b.op.path \in Paths
    BY <1>2, <1>3, <2>1, BoundOps
  <2> QED BY <1>2, <1>6, <2>1, <2>2, BindFileKeeps
<1>7. CASE BindFile(ps, legal, Entry)
  <2>1. PICK b : b = Entry
    OBVIOUS
  <2> QED BY <1>2, <1>7, <2>1, BindFileKeeps
<1> QED BY <1>5, <1>6, <1>7

(* The steps that change neither the tree, the store nor a lookup. *)
LEMMA SimulatesKeeps ==
  ASSUME IInv, UNCHANGED <<disk, store, look, during>>, Reads, Calls, Plotted, call.kind # "refine"
  PROVE  IInv'
<1>1. PlanInv'
  BY PlotKeeps DEF IInv
<1> QED BY <1>1, PlanningKeeps

LEMMA QuietKeeps ==
  ASSUME IInv,
         \/ RefuseDuplicate \/ KeepBound \/ normalizeOperations \/ buildPreview
         \/ validateOperation \/ finish
  PROVE  IInv'
<1>1. CASE RefuseDuplicate
  <2>1. call.kind # "refine"
    BY <1>1, NamesPath DEF IInv, RefuseDuplicate
  <2> QED BY <1>1, <2>1, SimulatesKeeps DEF RefuseDuplicate, Refuse, Reads, Calls, Plotted
<1>2. CASE KeepBound
  <2>1. Entry.op.path \in Paths /\ call.kind # "refine"
    BY <1>2, NamesPath DEF IInv, KeepBound, Normalizing
  <2>2. UNCHANGED <<disk, ws, store, look, during, call>> /\ Bind(Entry)
    BY <1>2 DEF KeepBound
  <2>3. PICK b : b = Entry
    OBVIOUS
  <2>4. Plotted
    BY <2>1, <2>2, <2>3 DEF Plotted
  <2> QED BY <2>1, <2>2, <2>4, SimulatesKeeps DEF Reads, Calls
<1>3. CASE normalizeOperations
  <2>1. UNCHANGED <<disk, ws, store, look, during>> /\ call' = Return /\ call.kind # "refine" /\ Plotted
    BY <1>3 DEF normalizeOperations, Plotted
  <2> QED BY <2>1, SimulatesKeeps DEF Reads, Calls
<1>4. CASE buildPreview
  <2>1. /\ UNCHANGED <<disk, ws, store, look, during, plan>> /\ call.kind = "none"
        /\ call' = [call EXCEPT !.kind = "preview"]
    BY <1>4 DEF buildPreview
  <2> QED BY <2>1, SimulatesKeeps DEF Reads, Calls, Plotted
<1>5. CASE validateOperation
  <2>1. UNCHANGED <<disk, store, look, during, plan, call>> /\ call.kind # "refine" /\ Reads
    BY <1>5 DEF validateOperation, Simulating, Snapshots, Reads
  <2> QED BY <2>1, SimulatesKeeps DEF Calls, Plotted
<1>6. CASE finish
  <2>1. UNCHANGED <<disk, ws, store, look, during, plan>> /\ call' = Return /\ call.kind # "refine"
    BY <1>6 DEF finish
  <2> QED BY <2>1, SimulatesKeeps DEF Reads, Calls, Plotted
<1> QED BY <1>1, <1>2, <1>3, <1>4, <1>5, <1>6

LEMMA AppliedKeeps ==
  ASSUME IInv, NEW kinds, NEW ps, NEW v, Applied(kinds, ps, v)
  PROVE  IInv'
<1>1. UNCHANGED <<disk, store, look, during, plan, call>> /\ call.kind # "refine" /\ Reads
  BY DEF Applied, Simulating, Snapshots, Reads
<1> QED BY <1>1, SimulatesKeeps DEF Calls, Plotted

LEMMA AppliesKeep ==
  ASSUME IInv, applyEdit \/ applyCreate \/ applyDelete \/ applyMove \/ applyCopy
  PROVE  IInv'
<1>1. /\ UNCHANGED <<disk, store, look, during, plan, call>> /\ call.kind # "refine"
      /\ \E ps : ws' = RefreshAll(ws, ps)
  BY DEF applyEdit, applyCreate, applyDelete, applyMove, applyCopy, Applied, Simulating, Snapshots
<1> QED BY <1>1, SimulatesKeeps DEF Calls, Plotted, Reads

(* The steps that begin a lookup for an operation, or end one. *)
LEMMA TargetsKeep ==
  ASSUME IInv, editRangeFromHandle \/ editRangeFromLocator \/ normalizeEditTarget
  PROVE  IInv'
<1>1. Unnormalized
  BY DEF editRangeFromHandle, editRangeFromLocator, normalizeEditTarget, Fresh, Normalizing
<1>2. Entry.op.path \in Paths /\ Operation = Entry.op /\ call.kind # "refine"
  BY <1>1, NamesPath DEF IInv
<1>3. CASE editRangeFromHandle
  <2>1. UNCHANGED <<disk, ws, store>> /\ Reads
    BY <1>3 DEF editRangeFromHandle, Reads
  <2>2. CASE Operation.nth \in DOMAIN held.handles
    <3>1. PICK id : id = held.handles[Operation.nth]
      OBVIOUS
    <3>2. look' = StartResolve(id) /\ plan' = plan /\ call' = call /\ during' = Marked
      BY <1>3, <2>2, <3>1 DEF editRangeFromHandle
    <3>3. Starting(look') /\ look'.kind # "set" /\ Turned
      BY <3>2, LookKinds DEF Starting, Turned
    <3>4. PlanInv'
      BY <3>2, PlanStays
    <3> QED BY <1>2, <2>1, <3>2, <3>3, <3>4, PlanningTurns DEF Calls
  <2>3. CASE Operation.nth \notin DOMAIN held.handles
    <3>1. Refuse /\ look' = look /\ during' = during
      BY <1>3, <2>3 DEF editRangeFromHandle
    <3> QED BY <1>2, <2>1, <3>1, SimulatesKeeps DEF Refuse, Calls, Plotted
  <2> QED BY <2>2, <2>3
<1>4. CASE editRangeFromLocator
  <2>1. UNCHANGED <<disk, ws, store, call, plan>> /\ Reads /\ Turned /\ Calls
    BY <1>4 DEF editRangeFromLocator, Reads, Turned, Calls
  <2>2. PICK p, name, id : p = Operation.path /\ name = Operation.name /\ id = look.id
    OBVIOUS
  <2>3. \/ look' = [NoLook EXCEPT !.kind = "locator", !.at = "find", !.path = p, !.name = name]
        \/ look' = StartResolve(id)
    BY <1>4, <2>2 DEF editRangeFromLocator
  <2>4. p \in Paths
    BY <1>2, <2>2
  <2>5. Starting(look')
    BY <2>3, <2>4 DEF Starting
  <2>6. look'.kind # "set"
    <3>1. CASE look' = [NoLook EXCEPT !.kind = "locator", !.at = "find", !.path = p, !.name = name]
      BY <3>1 DEF NoLook
    <3>2. CASE look' = StartResolve(id)
      BY <3>2, LookKinds
    <3> QED BY <2>3, <3>1, <3>2
  <2>7. PlanInv'
    BY <2>1, PlanStays
  <2> QED BY <1>2, <2>1, <2>5, <2>6, <2>7, PlanningTurns
<1>5. CASE normalizeEditTarget
  <2>1. UNCHANGED <<disk, ws, store>> /\ Reads /\ look' = NoLook /\ during' = Unmarked
    BY <1>5 DEF normalizeEditTarget, Reads
  <2>2. Starting(look') /\ look'.kind # "set" /\ Turned
    BY <2>1, LookKinds DEF Starting, Turned
  <2>3. PICK op, loc : op = Operation /\ loc = look.out.loc
    OBVIOUS
  <2>4. Calls /\ (Bind(Bound(op, loc, None, None)) \/ plan' = Refused)
    BY <1>5, <2>3 DEF normalizeEditTarget, Refuse, Calls
  <2>5. Plotted
    <3>1. PICK b : b = Bound(op, loc, None, None)
      OBVIOUS
    <3>2. b.op.path \in Paths
      BY <1>2, <2>3, <3>1, BoundOps
    <3> QED BY <2>4, <3>1, <3>2 DEF Plotted
  <2>6. PlanInv'
    BY <2>5, PlotKeeps DEF IInv
  <2> QED BY <1>2, <2>1, <2>2, <2>4, <2>6, PlanningTurns
<1> QED BY <1>3, <1>4, <1>5

LEMMA SetStarts ==
  ASSUME NEW id, look' = StartSet("all", id)
  PROVE  Starting(look') /\ look'.kind # "set"
<1>1. \E i : \E kind \in {"all", "set"} : look' = StartSet(kind, i)
  OBVIOUS
<1>2. StartSet("all", id).kind = "all"
  BY LookKinds
<1> QED BY <1>1, <1>2 DEF Starting

LEMMA normalizeReplaceMatchesKeeps ==
  ASSUME IInv, normalizeReplaceMatches
  PROVE  IInv'
<1>1. Unnormalized
  BY DEF normalizeReplaceMatches, Normalizing
<1>2. Entry.op.path \in Paths /\ Operation = Entry.op /\ call.kind # "refine"
  BY <1>1, NamesPath DEF IInv
<1>3. UNCHANGED <<disk, ws, store>> /\ Reads
  BY DEF normalizeReplaceMatches, Reads
<1>4. PICK id, got, op : /\ id = IF Entry.bound THEN Entry.loc.set ELSE held.set
                         /\ got = [set |-> look.id] /\ op = Operation
  OBVIOUS
<1>5. CASE look' = StartSet("all", id) /\ during' = Marked /\ UNCHANGED <<plan, call>>
  <2>1. Starting(look') /\ look'.kind # "set" /\ Turned
    BY <1>5, SetStarts DEF Turned
  <2>2. PlanInv'
    BY <1>5, PlanStays
  <2> QED BY <1>2, <1>3, <1>5, <2>1, <2>2, PlanningTurns DEF Calls
<1>6. CASE /\ look' = NoLook /\ during' = Unmarked
           /\ (Bind(Bound(op, got, None, None)) /\ UNCHANGED call) \/ Refuse
  <2>1. Starting(look') /\ look'.kind # "set" /\ Turned
    BY <1>6, LookKinds DEF Starting, Turned
  <2>2. Calls
    BY <1>6 DEF Calls, Refuse
  <2>3. Plotted
    <3>1. PICK b : b = Bound(op, got, None, None)
      OBVIOUS
    <3>2. b.op.path \in Paths
      BY <1>2, <1>4, <3>1, BoundOps
    <3> QED BY <1>6, <3>1, <3>2 DEF Plotted, Refuse
  <2>4. PlanInv'
    BY <2>3, PlotKeeps DEF IInv
  <2> QED BY <1>2, <1>3, <2>1, <2>2, <2>4, PlanningTurns
<1> QED BY <1>4, <1>5, <1>6 DEF normalizeReplaceMatches

LEMMA applyReplaceMatchesKeeps ==
  ASSUME IInv, applyReplaceMatches
  PROVE  IInv'
<1>1. UNCHANGED <<disk, store, plan, call>> /\ call.kind # "refine" /\ Calls
  BY DEF applyReplaceMatches, Simulating, Calls
<1>2. PlanInv'
  BY <1>1, PlanStays
<1>3. PICK id : id = Current.loc.set
  OBVIOUS
<1>4. Reads
  BY DEF applyReplaceMatches, Reads
<1>5. \/ look' = StartSet("all", id) /\ during' = Marked
      \/ look' = NoLook /\ during' = Unmarked
  BY <1>3 DEF applyReplaceMatches
<1>6. CASE look' = StartSet("all", id) /\ during' = Marked
  <2>1. Starting(look') /\ look'.kind # "set" /\ Turned
    BY <1>6, SetStarts DEF Turned
  <2> QED BY <1>1, <1>2, <1>4, <2>1, PlanningTurns
<1>7. CASE look' = NoLook /\ during' = Unmarked
  <2>1. Starting(look') /\ look'.kind # "set" /\ Turned
    BY <1>7, LookKinds DEF Starting, Turned
  <2> QED BY <1>1, <1>2, <1>4, <2>1, PlanningTurns
<1> QED BY <1>5, <1>6, <1>7

-----------------------------------------------------------------------------
(* The invariant holds of every behaviour. *)
LEMMA BeginsWell ==
  ASSUME Init
  PROVE  IInv
<1>1. disk \in [Paths -> Images] /\ TreeInv
  BY ImagesAssumption DEF Init, HandlesInit, TreeInv
<1>2. WsInv
  <2>1. [p \in Paths |-> Unseen] \in [Paths -> Images \cup {Unseen}]
    OBVIOUS
  <2> QED BY <2>1 DEF Init, HandlesInit, WsInv
<1>3. DuringInv
  BY DEF Init, HandlesInit, DuringInv, Unmarked, NoLook
<1>4. PlanInv
  BY NoneOnPaths DEF Init, PlanInv, NoPlan
<1>5. StoreInv
  BY DEF Init, HandlesInit, StoreInv, NewStore
<1>6. CallInv
  <2>1. CallShape(NoCall) /\ NoCall.kind = "none"
    BY CallShapes DEF NoCall
  <2> QED BY <2>1 DEF Init, HandlesInit, CallInv
<1>7. LookInv
  <2>1. PICK s, w, d : s = store /\ w = ws /\ d = during
    OBVIOUS
  <2>2. LookGood(NoLook, s, w, d)
    BY LooksBegin
  <2>3. NoCall.kind = "none" /\ NoLook.kind = "none"
    BY DEF NoCall, NoLook
  <2> QED BY <2>1, <2>2, <2>3 DEF Init, HandlesInit, LookInv
<1> QED BY <1>1, <1>2, <1>3, <1>4, <1>5, <1>6, <1>7 DEF IInv

LEMMA StutterKeeps ==
  ASSUME IInv, UNCHANGED planVars
  PROVE  IInv'
<1>1. UNCHANGED <<disk, ws, store, call, look, during, plan>>
  BY DEF planVars, vars
<1>2. Moves /\ Grows /\ Remembers
  BY <1>1, StillMoves, StillGrows DEF IInv, Remembers
<1>3. TreeInv' /\ DuringInv'
  BY <1>1 DEF IInv, TreeInv, DuringInv
<1> QED BY <1>1, <1>2, <1>3, OthersKeep

LEMMA LookupsKeep ==
  ASSUME IInv, Lookup, UNCHANGED <<plan, preview>>
  PROVE  IInv'
BY ResolveHandleKeeps, ScanFileKeeps, resolveSymbolKeeps, ResolveSymbolLocatorKeeps, SelectSymbolKeeps,
   InspectResultSetKeeps, InspectRevisionKeeps, InspectSequenceKeeps, hydrateHitsKeeps DEF Lookup

LEMMA SessionsKeep ==
  ASSUME IInv, Session, UNCHANGED <<plan, preview>>
  PROVE  IInv'
<1>1. CASE \E scope \in SUBSET Paths \ {{}} : BeginSearch(scope)
  BY <1>1, BeginSearchKeeps
<1>2. CASE \E name \in {Name[t] : t \in Tokens} : FindSymbols(name)
  BY <1>2, FindSymbolsKeeps
<1>3. CASE FindInFile \/ symbolFind \/ readSearchable \/ matchHits \/ FreezeSearch
  BY <1>3, FindInFileKeeps, symbolFindKeeps, readSearchableKeeps, matchHitsKeeps, FreezeSearchKeeps
<1>4. CASE \/ \E p \in Paths : refineSearch({p}, Tokens)
           \/ \E toks \in SUBSET Query \ {{}} : refineSearch(Paths, toks)
  BY <1>4, refineSearchKeeps
<1>5. CASE RefineResultSet \/ \E id \in Elems(held.handles) : readHandle(id)
  BY <1>5, RefineResultSetKeeps, readHandleKeeps
<1>6. CASE \E p \in Paths, name \in {Name[t] : t \in Tokens} : readSymbol(p, name)
  BY <1>6, readSymbolKeeps
<1>7. CASE ReadSelected \/ ReadResolved
  BY <1>7, ReadSelectedKeeps, ReadResolvedKeeps
<1> QED BY <1>1, <1>2, <1>3, <1>4, <1>5, <1>6, <1>7 DEF Session

LEMMA OthersPreserve ==
  ASSUME IInv, Others, UNCHANGED <<plan, preview>>
  PROVE  IInv'
<1>1. CASE \E p \in Paths, image \in Texts \cup {Missing, Binary, Link} : External(p, image)
  BY <1>1, ExternalKeeps, TokensAssumption DEF Images
<1>2. CASE SyncProviderEpoch \/ Expire \/ OtherSearch \/ FreezeHistoricalResultSet
  BY <1>2, SyncProviderEpochKeeps, ExpireKeeps, OtherSearchKeeps, FreezeHistoricalResultSetKeeps
<1> QED BY <1>1, <1>2 DEF Others

LEMMA PlansKeep ==
  ASSUME IInv, Planning
  PROVE  IInv'
<1>1. CASE (\E ops \in Plans : CreatePlan(ops)) \/ (\E edit \in Edits : EditPlan(edit))
  BY <1>1, CreatePlanKeeps, EditPlanKeeps
<1>2. CASE \/ RefuseDuplicate \/ KeepBound \/ normalizeOperations \/ buildPreview
           \/ validateOperation \/ finish
  BY <1>2, QuietKeeps
<1>3. CASE \/ editRangeFromHandle \/ editRangeFromLocator \/ normalizeEditTarget
           \/ normalizeReplaceMatches \/ applyReplaceMatches
  BY <1>3, TargetsKeep, normalizeReplaceMatchesKeeps, applyReplaceMatchesKeeps
<1>4. CASE normalizeCreateFile \/ normalizeDeleteFile \/ normalizeMoveFile \/ normalizeCopyFile
  BY <1>4, BindFilesKeep
<1>5. CASE applyEdit \/ applyCreate \/ applyDelete \/ applyMove \/ applyCopy
  BY <1>5, AppliesKeep
<1> QED BY <1>1, <1>2, <1>3, <1>4, <1>5 DEF Planning

(* The invariant the two promises follow from.  Of the store: a handle keeps the
   name it was given and names one place, and a set that has the sequence of now
   has the matches of every document it read that is still cached as it was
   read, since a change of a document that has been seen is counted when it is
   seen again (handles.go:200-330, :800-944).  Of a lookup: what it has found so
   far stood at a moment of the call, and the documents it has looked at are
   those of the set. *)
THEOREM HandlesInvariant == Spec => []IInv
<1>1. Init => IInv
  BY BeginsWell
<1>2. IInv /\ [Next]_planVars => IInv'
  <2> SUFFICES ASSUME IInv, [Next]_planVars PROVE IInv'
    OBVIOUS
  <2>1. CASE UNCHANGED planVars
    BY <2>1, StutterKeeps
  <2>2. CASE Planning
    BY <2>2, PlansKeep
  <2>3. CASE (Lookup \/ Session \/ Others) /\ UNCHANGED <<plan, preview>>
    BY <2>3, LookupsKeep, SessionsKeep, OthersPreserve
  <2> QED BY <2>1, <2>2, <2>3 DEF Next
<1> QED BY <1>1, <1>2, PTL DEF Spec

(* A handle that resolves names bytes that stood at that place of that file at a
   moment of the call, the bytes of a range and a declaration of the same name
   and fingerprints for a symbol, whoever wrote the tree while it was parsed
   (handles.go:541-735). *)
THEOREM ResolvedStands == Spec => []ResolvedStood
<1>1. IInv => ResolvedStood
  <2> SUFFICES ASSUME IInv, look.kind = "handle", look.at = "done", look.ok
               PROVE  /\ \E image \in during[look.out.loc.path] :
                           /\ IsText(image) /\ look.out.loc.end <= Len(image)
                           /\ Span(image, look.out.loc.start, look.out.loc.end) = look.out.loc.text
                      /\ look.id \in DOMAIN store.handles =>
                           LET r == store.handles[look.id] IN
                           IF r.kind = "range" THEN look.out.loc.text = r.loc.text
                           ELSE /\ Name[look.out.loc.text[1]] = NameOf(r)
                                /\ Fingerprint(look.out.loc.text) = Fingerprint(r.loc.text)
    BY DEF ResolvedStood
  <2>1. Answer(look, store, during)
    BY DEF IInv, LookInv, LookGood
  <2>2. \E image \in during[look.out.loc.path] :
          /\ IsText(image) /\ look.out.loc.end <= Len(image)
          /\ Span(image, look.out.loc.start, look.out.loc.end) = look.out.loc.text
    BY <2>1 DEF Answer, Stood
  <2>3. look.id \in DOMAIN store.handles => Fits(look.out.loc, store.handles[look.id])
    BY <2>1 DEF Answer
  <2> QED BY <2>2, <2>3 DEF Fits, Alike, NameOf
<1> QED BY <1>1, HandlesInvariant, PTL

(* ResolveAllMatches answers for the whole scope of a set: every file of it, if
   the listing was not cut at the cap, had at a moment of the call exactly the
   matches the answer gives it, though some were read when the set was frozen,
   some when it was inspected, and some only listed (handles.go:901, :944,
   text.go:832). *)
THEOREM AllMatchesAreComplete == Spec => []AllMatchesComplete
<1>1. ASSUME IInv, look.kind = "all", look.at = "done", look.ok,
             NEW p \in look.set.scope \ look.set.links,
             p \in Elems(look.set.files) \/ Len(look.set.files) < MaxFiles
      PROVE  \E image \in during[p] :
               /\ image # Binary
               /\ HitsAt(look.set.hits, p) = IF p \in look.set.paths THEN Wanted(look.set, image) ELSE {}
  <2>1. PICK S : S = look.set
    OBVIOUS
  <2>2. Sure(S, ws, during) /\ S.complete
    BY <1>1, <2>1 DEF IInv, LookInv, LookGood
  <2>3. CASE p \in Elems(S.files)
    <3>1. p \in DOMAIN S.revs
      BY <1>1, <2>1, <2>2, <2>3 DEF Sure, Backed
    <3>2. Image(S, p) \in during[p] /\ Right(S, p) /\ IsText(Image(S, p))
      BY <2>2, <3>1 DEF Sure, Backed
    <3>3. Image(S, p) # Binary
      BY <3>2 DEF IsText
    <3> QED BY <2>1, <3>2, <3>3 DEF Right
  <2>4. CASE p \notin Elems(S.files)
    <3>1. Missing \in during[p]
      BY <1>1, <2>1, <2>2, <2>4 DEF Sure, Unlisted
    <3>2. \A i \in DOMAIN S.hits : S.hits[i].path # p
      BY <2>2, <2>4 DEF Sure, Backed
    <3>3. HitsAt(S.hits, p) = {}
      BY <3>2 DEF HitsAt
    <3>4. Wanted(S, Missing) = {}
      BY ImageParts DEF Wanted
    <3> QED BY <2>1, <3>1, <3>3, <3>4, ImageParts
  <2> QED BY <2>3, <2>4
<1>2. IInv => AllMatchesComplete
  BY <1>1 DEF AllMatchesComplete
<1> QED BY <1>2, HandlesInvariant, PTL

=============================================================================
