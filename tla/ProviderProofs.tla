--------------------------- MODULE ProviderProofs ---------------------------
(***************************************************************************)
(* Proofs about DiagnosticLedger, for every set of findings, clients and   *)
(* calls, every analysis and every cap; and about EmbeddedProvider, for    *)
(* every set of callers, request IDs and kernels and every number of       *)
(* generations.                                                            *)
(*                                                                         *)
(* The ledger's proof goes by its operators.  Each takes a ledger that is  *)
(* Sound to one that is, and the lemma about it says so for any ledger;    *)
(* the actions are put together from them.                                 *)
(***************************************************************************)
EXTENDS EmbeddedProvider, DiagnosticLedger, FiniteSetTheorems, WellFoundedInduction, TLAPS

-----------------------------------------------------------------------------
(* Lists. *)

(* A set of naturals with a member has a least one. *)
LEMMA LeastOf ==
  ASSUME NEW T \in SUBSET Nat, T # {}
  PROVE  \E x \in T : \A y \in T : x <= y
<1> DEFINE R == {ss \in Nat \X Nat : ss[1] < ss[2]}
<1>1. IsWellFoundedOn(R, Nat)
  BY NatLessThanWellFounded DEF OpToRel
<1>2. \E x \in T : \A y \in T : ~(<<y, x>> \in R)
  <2> HIDE DEF R
  <2> QED BY <1>1, WFMin
<1>3. PICK x \in T : \A y \in T : ~(<<y, x>> \in R)
  BY <1>2
<1>4. ASSUME NEW y \in T PROVE x <= y
  <2>1. <<y, x>> \in Nat \X Nat /\ x \in Nat /\ y \in Nat
    OBVIOUS
  <2>2. ~(y < x)
    BY <1>3, <2>1
  <2> QED BY <2>1, <2>2
<1> QED BY <1>4

(* Induction over the naturals, for a set of them. *)
LEMMA NaturalsIn ==
  ASSUME NEW S, 0 \in S, \A n \in Nat : n \in S => n + 1 \in S
  PROVE  \A n \in Nat : n \in S
<1> SUFFICES ASSUME NEW n \in Nat, n \notin S PROVE FALSE
  OBVIOUS
<1> DEFINE T == {m \in Nat : m \notin S}
<1>1. T \in SUBSET Nat /\ T # {}
  OBVIOUS
<1>2. PICK x \in T : \A y \in T : x <= y
  <2> HIDE DEF T
  <2> QED BY <1>1, LeastOf
<1>3. x # 0 /\ x \in Nat
  OBVIOUS
<1>4. x - 1 \in Nat /\ ~(x <= x - 1)
  BY <1>3
<1>5. x - 1 \in S
  BY <1>2, <1>4
<1> QED BY <1>3, <1>4, <1>5

(* The positions in I can be listed in order. *)
Lists(f, I) ==
  /\ \A i \in I : \E n \in DOMAIN f : f[n] = i
  /\ \A m, n \in DOMAIN f : m < n => f[m] < f[n]
LEMMA Listable ==
  ASSUME NEW n \in Nat, NEW I \in SUBSET (1..n)
  PROVE  /\ IsFiniteSet(I) /\ Cardinality(I) \in Nat
         /\ \E f \in [1..Cardinality(I) -> I] : Lists(f, I)
<1> DEFINE S == {m \in Nat : \A J \in SUBSET (1..m) :
                    \E f \in [1..Cardinality(J) -> J] : Lists(f, J)}
<1>1. \A m \in Nat : \A J \in SUBSET (1..m) : IsFiniteSet(J) /\ Cardinality(J) \in Nat
  <2> SUFFICES ASSUME NEW m \in Nat, NEW J \in SUBSET (1..m) PROVE IsFiniteSet(J) /\ Cardinality(J) \in Nat
    OBVIOUS
  <2>1. IsFiniteSet(1..m)
    BY FS_Interval
  <2>2. IsFiniteSet(J)
    BY <2>1, FS_Subset
  <2> QED BY <2>2, FS_CardinalityType
<1>2. 0 \in S
  <2>1. 1..0 = {} /\ Cardinality({}) = 0
    BY FS_EmptySet
  <2>2. \E f \in [{} -> {}] : Lists(f, {})
    <3>1. [x \in {} |-> x] \in [{} -> {}]
      OBVIOUS
    <3> QED BY <3>1 DEF Lists
  <2>3. \A J \in SUBSET (1..0) : J = {}
    OBVIOUS
  <2> QED BY <2>1, <2>2, <2>3
<1>3. ASSUME NEW m \in Nat, m \in S PROVE m + 1 \in S
  <2>0. m + 1 \in Nat
    OBVIOUS
  <2> SUFFICES ASSUME NEW J \in SUBSET (1..(m + 1))
               PROVE  \E f \in [1..Cardinality(J) -> J] : Lists(f, J)
    BY <2>0, Zenon
  <2>1. CASE m + 1 \notin J
    <3>1. J \in SUBSET (1..m)
      BY <2>1
    <3> QED BY <1>3, <3>1
  <2>2. CASE m + 1 \in J
    <3> DEFINE K == J \ {m + 1}
    <3>1. K \in SUBSET (1..m) /\ J = K \cup {m + 1} /\ m + 1 \notin K
      BY <2>2
    <3>2. PICK f \in [1..Cardinality(K) -> K] : Lists(f, K)
      BY <1>3, <3>1
    <3>3. PICK k \in Nat : k = Cardinality(K)
      BY <1>1, <3>1
    <3>4. Cardinality(J) = k + 1
      BY <1>1, <3>1, <3>3, FS_AddElement
    <3> HIDE DEF K
    <3> DEFINE g == [i \in 1..(k + 1) |-> IF i = k + 1 THEN m + 1 ELSE f[i]]
    <3>5. \A i \in 1..k : f[i] \in K /\ g[i] = f[i]
      BY <3>2, <3>3
    <3>6. g[k + 1] = m + 1
      OBVIOUS
    <3>7. g \in [1..(k + 1) -> J]
      BY <3>1, <3>5, <3>6
    <3>8. ASSUME NEW i \in J PROVE \E l \in 1..(k + 1) : g[l] = i
      <4>1. CASE i = m + 1
        BY <4>1, <3>6
      <4>2. CASE i # m + 1
        <5>1. i \in K
          BY <4>2, <3>1
        <5>2. PICK l \in 1..k : f[l] = i
          BY <5>1, <3>2, <3>3 DEF Lists
        <5> QED BY <5>2, <3>5
      <4> QED BY <4>1, <4>2
    <3>9. ASSUME NEW i \in 1..(k + 1), NEW l \in 1..(k + 1), i < l PROVE g[i] < g[l]
      <4>1. i \in 1..k
        BY <3>9
      <4>2. CASE l = k + 1
        <5>1. f[i] \in 1..m
          BY <4>1, <3>5, <3>1
        <5> QED BY <5>1, <4>1, <4>2, <3>5, <3>6
      <4>3. CASE l # k + 1
        <5>1. l \in 1..k
          BY <4>3
        <5> QED BY <5>1, <4>1, <3>5, <3>9, <3>2, <3>3 DEF Lists
      <4> QED BY <4>2, <4>3
    <3>10. Lists(g, J) /\ DOMAIN g = 1..(k + 1)
      BY <3>8, <3>9 DEF Lists
    <3> QED BY <3>7, <3>10, <3>4
  <2> QED BY <2>1, <2>2
<1>4. \A m \in Nat : m \in S
  <2> HIDE DEF S
  <2> QED BY <1>2, <1>3, NaturalsIn
<1> QED BY <1>1, <1>4

(* What Kept keeps, and in which order. *)
Keeps(s, I, u) ==
  /\ \A n \in DOMAIN u : \E i \in I : u[n] = s[i]
  /\ \A i \in I : \E n \in DOMAIN u : u[n] = s[i]
  /\ \A m, n \in DOMAIN u : m < n => \E i, j \in I : i < j /\ u[m] = s[i] /\ u[n] = s[j]
LEMMA KeptFacts ==
  ASSUME NEW X, NEW s \in Seq(X), NEW I \in SUBSET DOMAIN s, NEW t, t = Kept(s, I)
  PROVE  t \in Seq(X) /\ Keeps(s, I, t)
<1> DEFINE k == Cardinality(I)
           f == CHOOSE f \in [1..k -> I] : Lists(f, I)
<1>1. Len(s) \in Nat /\ I \in SUBSET (1..Len(s))
  OBVIOUS
<1>2. k \in Nat /\ f \in [1..k -> I] /\ Lists(f, I)
  BY <1>1, Listable
<1>3. Kept(s, I) = [n \in DOMAIN f |-> s[f[n]]]
  BY DEF Kept, Lists
<1> HIDE DEF f, k
<1>4. DOMAIN f = 1..k /\ \A n \in 1..k : f[n] \in I /\ s[f[n]] \in X
  BY <1>2
<1>5. t = [n \in DOMAIN f |-> s[f[n]]]
  BY <1>3
<1>6. t \in [1..k -> X] /\ \A n \in 1..k : t[n] = s[f[n]]
  BY <1>4, <1>5
<1>7. t \in Seq(X) /\ DOMAIN t = 1..k
  BY <1>6, <1>2
<1>8. ASSUME NEW n \in DOMAIN t PROVE \E i \in I : t[n] = s[i]
  BY <1>6, <1>4, <1>7
<1>9. ASSUME NEW i \in I PROVE \E n \in DOMAIN t : t[n] = s[i]
  BY <1>6, <1>2, <1>4, <1>7 DEF Lists
<1>10. ASSUME NEW m \in DOMAIN t, NEW n \in DOMAIN t, m < n
       PROVE  \E i, j \in I : i < j /\ t[m] = s[i] /\ t[n] = s[j]
  <2>1. f[m] \in I /\ f[n] \in I /\ t[m] = s[f[m]] /\ t[n] = s[f[n]]
    BY <1>4, <1>6, <1>7
  <2>2. f[m] < f[n]
    BY <1>2, <1>4, <1>7, <1>10 DEF Lists
  <2> QED BY <2>1, <2>2
<1> QED BY <1>7, <1>8, <1>9, <1>10 DEF Keeps

(* Two lists in a row. *)
LEMMA InARow ==
  ASSUME NEW X, NEW s \in Seq(X), NEW u \in Seq(X)
  PROVE  /\ s \o u \in Seq(X) /\ Len(s \o u) = Len(s) + Len(u)
         /\ \A i \in 1..Len(s) : (s \o u)[i] = s[i]
         /\ \A i \in 1..Len(u) : (s \o u)[Len(s) + i] = u[i]
<1>1. Len(s) \in Nat /\ Len(u) \in Nat
  OBVIOUS
<1>2. s \o u \in Seq(X) /\ Len(s \o u) = Len(s) + Len(u)
  OBVIOUS
<1>3. \A i \in 1..Len(s) : (s \o u)[i] = s[i]
  BY <1>1
<1>4. ASSUME NEW i \in 1..Len(u) PROVE (s \o u)[Len(s) + i] = u[i]
  <2>1. Len(s) + i \in 1..(Len(s) + Len(u)) /\ Len(s) + i > Len(s) /\ Len(s) + i - Len(s) = i
    BY <1>1
  <2> QED BY <2>1, <1>1
<1> QED BY <1>2, <1>3, <1>4

(* Newest drops from the front. *)
Drops(s, t) == \E off \in Nat : Len(s) = Len(t) + off /\ \A i \in DOMAIN t : t[i] = s[i + off]
LEMMA NewestFacts ==
  ASSUME NEW X, NEW s \in Seq(X), NEW cap \in Nat \ {0}, NEW t, t = Newest(s, cap)
  PROVE  /\ t \in Seq(X)
         /\ s # <<>> => t # <<>> /\ Last(t) = Last(s)
         /\ Drops(s, t)
<1> DEFINE n == Len(s)
           from == Larger(1, n - cap + 1)
<1>1. n \in Nat /\ from \in Nat /\ from >= 1 /\ (n > 0 => from <= n) /\ (n = 0 => from = 1)
  BY DEF Larger
<1>2. t = SubSeq(s, from, n)
  BY DEF Newest
<1> HIDE DEF from
<1>3. Len(t) = n - from + 1 /\ t \in Seq(X) /\ \A i \in 1..(n - from + 1) : t[i] = s[from + i - 1]
  BY <1>1, <1>2
<1>4. ASSUME NEW i \in DOMAIN t PROVE t[i] = s[i + (from - 1)]
  <2>1. i \in 1..(n - from + 1) /\ i \in Nat
    BY <1>1, <1>3
  <2>2. from + i - 1 = i + (from - 1)
    BY <2>1, <1>1
  <2>3. t[i] = s[from + i - 1]
    BY <2>1, <1>3
  <2> QED BY <2>2, <2>3
<1>5. s # <<>> => t # <<>> /\ Last(t) = Last(s)
  BY <1>1, <1>3 DEF Last
<1>6. from - 1 \in Nat /\ n = Len(t) + (from - 1)
  BY <1>1, <1>3
<1> QED BY <1>3, <1>4, <1>5, <1>6 DEF Drops

-----------------------------------------------------------------------------
(* The sequence numbers of a ledger, and how they grow. *)

Numbered(L) ==
  /\ \A e \in L.evidence : e.id <= L.sequence
  /\ \A d, e \in L.evidence : d.id = e.id => d = e
  /\ \A i, j \in DOMAIN L.notices : i < j => L.notices[i].seq < L.notices[j].seq
  /\ \A i \in DOMAIN L.notices : L.notices[i].seq <= L.sequence
  /\ L.ack <= L.sequence /\ L.floor <= L.sequence

HeadOf(L) == IF L.notices = <<>> THEN L.floor ELSE Last(L.notices).seq

Grows(L, M) ==
  /\ L.sequence <= M.sequence /\ L.ack <= M.ack /\ HeadOf(L) <= HeadOf(M)
  /\ \A j \in DOMAIN M.notices : \/ L.sequence < M.notices[j].seq
                                 \/ \E i \in DOMAIN L.notices : L.notices[i].seq = M.notices[j].seq

LEMMA NoticesTyped ==
  ASSUME NEW L \in Ledger
  PROVE  /\ L.notices \in Seq(Notice) /\ Len(L.notices) \in Nat /\ DOMAIN L.notices = 1..Len(L.notices)
         /\ \A i \in DOMAIN L.notices : L.notices[i] \in Notice /\ L.notices[i].seq \in Nat
         /\ L.sequence \in Nat /\ L.ack \in Nat /\ L.floor \in Nat
         /\ HeadOf(L) \in Nat
<1>1. L.notices \in Seq(Notice) /\ L.sequence \in Nat /\ L.ack \in Nat /\ L.floor \in Nat
  BY DEF Ledger
<1>2. PICK s : s = L.notices
  OBVIOUS
<1>3. s \in Seq(Notice)
  BY <1>1, <1>2
<1>4. Len(s) \in Nat /\ DOMAIN s = 1..Len(s) /\ \A i \in DOMAIN s : s[i] \in Notice /\ s[i].seq \in Nat
  <2>1. Len(s) \in Nat /\ DOMAIN s = 1..Len(s) /\ \A i \in DOMAIN s : s[i] \in Notice
    BY <1>3
  <2>2. \A n \in Notice : n.seq \in Nat
    BY DEF Notice
  <2> QED BY <2>1, <2>2
<1>5. s # <<>> => Last(s).seq \in Nat
  <2>1. s # <<>> => Len(s) \in DOMAIN s
    BY <1>3, <1>4
  <2> QED BY <2>1, <1>4 DEF Last
<1> QED BY <1>1, <1>2, <1>4, <1>5 DEF HeadOf

LEMMA GrowsOn ==
  ASSUME NEW L \in Ledger, NEW M \in Ledger, NEW N \in Ledger, Grows(L, M), Grows(M, N)
  PROVE  Grows(L, N)
<1>1. L.sequence <= N.sequence /\ L.ack <= N.ack /\ HeadOf(L) <= HeadOf(N)
  BY NoticesTyped DEF Grows
<1>2. ASSUME NEW j \in DOMAIN N.notices
      PROVE  \/ L.sequence < N.notices[j].seq
             \/ \E i \in DOMAIN L.notices : L.notices[i].seq = N.notices[j].seq
  <2>1. CASE M.sequence < N.notices[j].seq
    BY <2>1, NoticesTyped DEF Grows
  <2>2. CASE \E i \in DOMAIN M.notices : M.notices[i].seq = N.notices[j].seq
    BY <2>2 DEF Grows
  <2> QED BY <2>1, <2>2 DEF Grows
<1> QED BY <1>1, <1>2 DEF Grows

(* What leaves the notices alone. *)
LEMMA GrowsAlone ==
  ASSUME NEW L \in Ledger, NEW M \in Ledger, M.notices = L.notices, M.floor = L.floor, M.ack = L.ack,
         L.sequence <= M.sequence
  PROVE  Grows(L, M)
<1>1. HeadOf(L) = HeadOf(M)
  BY DEF HeadOf
<1> QED BY <1>1, NoticesTyped DEF Grows

(* Findings are listed in some order. *)
LEMMA Orders ==
  ASSUME NEW S \in SUBSET Findings
  PROVE  SetToSeq(S) \in Seq(S)
<1>1. IsFiniteSet(S)
  BY FindingsAssumption, FS_Subset
<1>2. Cardinality(S) \in Nat /\ ExistsBijection(1..Cardinality(S), S)
  BY <1>1, FS_CardinalityType
<1>3. \E f \in [1..Cardinality(S) -> S] : IsInjective(f)
  BY <1>2 DEF ExistsBijection, Bijection, Injection
<1>4. SetToSeq(S) \in [1..Cardinality(S) -> S]
  BY <1>3 DEF SetToSeq
<1> QED BY <1>2, <1>4

NoticeKinds == {"new", "stale", "persisting", "resolved"}

LEMMA AddsNotices ==
  ASSUME NEW L \in Ledger, NEW items \in [Findings -> Item], NEW S \in SUBSET Findings,
         NEW kinds \in [S -> NoticeKinds], NEW M, M = addNotices(L, items, kinds)
  PROVE  /\ M \in Ledger /\ M.items = items
         /\ M.ack = L.ack /\ M.floor = L.floor /\ M.active = L.active /\ M.stale = L.stale
         /\ M.evidence = L.evidence /\ M.lanes = L.lanes /\ M.dimension = L.dimension
         /\ Numbered(L) => Numbered(M) /\ Grows(L, M)
<1> DEFINE order == SetToSeq(DOMAIN kinds)
           notice(i) == [seq |-> L.sequence + i, kind |-> kinds[order[i]], id |-> order[i],
                         baselineMissing |-> items[order[i]].baselineMissing]
<1>1. PICK q : q = SetToSeq(S)
  OBVIOUS
<1>2. q \in Seq(S) /\ order = q
  BY <1>1, Orders
<1>3. PICK n \in Nat : n = Len(q)
  BY <1>2
<1>4. DOMAIN q = 1..n /\ \A i \in 1..n : q[i] \in S
  BY <1>2, <1>3
<1>5. \A i \in 1..n : notice(i) \in Notice /\ notice(i).seq = L.sequence + i
  <2> TAKE i \in 1..n
  <2>1. q[i] \in S /\ q[i] \in Findings /\ kinds[q[i]] \in NoticeKinds /\ items[q[i]] \in Item
    BY <1>4
  <2>2. items[q[i]].baselineMissing \in BOOLEAN /\ L.sequence + i \in Nat
    BY <2>1, NoticesTyped DEF Item
  <2> QED BY <2>1, <2>2, <1>2 DEF Notice, NoticeKinds
<1>6. PICK added : added = [i \in 1..n |-> notice(i)]
  OBVIOUS
<1>7. added \in Seq(Notice) /\ Len(added) = n /\ \A i \in 1..n : added[i].seq = L.sequence + i
  BY <1>3, <1>5, <1>6
<1>8. PICK all : all = L.notices \o added
  OBVIOUS
<1>9. PICK m \in Nat : m = Len(L.notices)
  BY NoticesTyped
<1>10. /\ all \in Seq(Notice) /\ Len(all) = m + n
       /\ \A i \in 1..m : all[i] = L.notices[i]
       /\ \A i \in 1..n : all[m + i].seq = L.sequence + i
  <2>1. PICK s \in Seq(Notice) : s = L.notices
    BY NoticesTyped
  <2>2. /\ s \o added \in Seq(Notice) /\ Len(s \o added) = Len(s) + Len(added)
        /\ \A i \in 1..Len(s) : (s \o added)[i] = s[i]
        /\ \A i \in 1..Len(added) : (s \o added)[Len(s) + i] = added[i]
    <3>1. added \in Seq(Notice)
      BY <1>7
    <3> QED BY <2>1, <3>1, InARow
  <2>3. Len(s) = m /\ all = s \o added
    BY <2>1, <1>8, <1>9
  <2> QED BY <2>1, <2>2, <2>3, <1>7
<1>11. M = [L EXCEPT !.items = items, !.sequence = L.sequence + n, !.notices = all]
  <2>1. M = [L EXCEPT !.items = items, !.sequence = @ + Len(order), !.notices = @ \o [i \in DOMAIN order |-> notice(i)]]
    BY DEF addNotices
  <2>2. Len(order) = n /\ [i \in DOMAIN order |-> notice(i)] = added
    <3> HIDE DEF order, notice
    <3> QED BY <1>2, <1>3, <1>4, <1>6
  <2> HIDE DEF order, notice
  <2>3. L.sequence + Len(order) = L.sequence + n /\ L.notices \o [i \in DOMAIN order |-> notice(i)] = all
    BY <2>2, <1>8
  <2> QED BY <2>1, <2>3
<1>12. /\ M.items = items /\ M.sequence = L.sequence + n /\ M.notices = all
       /\ M.ack = L.ack /\ M.floor = L.floor /\ M.active = L.active /\ M.stale = L.stale
       /\ M.evidence = L.evidence /\ M.lanes = L.lanes /\ M.dimension = L.dimension
  BY <1>11 DEF Ledger
<1>13. M \in Ledger
  <2>1. L.sequence + n \in Nat
    BY NoticesTyped
  <2>2. all \in Seq(Notice)
    BY <1>10
  <2> HIDE DEF Item, Notice, Evidence, Dimension
  <2> QED BY <1>11, <2>1, <2>2 DEF Ledger
<1>14. \A i \in 1..(m + n) : \/ i \in 1..m /\ all[i] = L.notices[i]
                             \/ i - m \in 1..n /\ all[i].seq = L.sequence + (i - m)
  <2> TAKE i \in 1..(m + n)
  <2>1. CASE i <= m
    BY <2>1, <1>10
  <2>2. CASE i > m
    <3>1. i - m \in 1..n /\ m + (i - m) = i
      BY <2>2
    <3> QED BY <3>1, <1>10
  <2> QED BY <2>1, <2>2
<1>15. ASSUME Numbered(L) PROVE Numbered(M) /\ Grows(L, M)
  <2>1. L.sequence \in Nat /\ L.sequence <= M.sequence /\ \A i \in 1..m : L.notices[i].seq \in Nat /\ L.notices[i].seq <= L.sequence
    BY <1>12, <1>9, <1>15, NoticesTyped DEF Numbered
  <2>2. DOMAIN all = 1..(m + n) /\ DOMAIN L.notices = 1..m
    BY <1>10, <1>9, NoticesTyped
  <2>3. ASSUME NEW i \in 1..(m + n), NEW j \in 1..(m + n), i < j PROVE all[i].seq < all[j].seq
    <3>1. CASE i \in 1..m /\ j \in 1..m
      BY <3>1, <2>3, <2>2, <1>10, <1>15 DEF Numbered
    <3>2. CASE i \in 1..m /\ j \notin 1..m
      BY <3>2, <2>1, <1>14
    <3>3. CASE i \notin 1..m
      <4>1. j \notin 1..m
        BY <3>3, <2>3
      <4> QED BY <4>1, <3>3, <2>1, <2>3, <1>14
    <3> QED BY <3>1, <3>2, <3>3
  <2>4. \A i \in 1..(m + n) : all[i].seq <= M.sequence
    BY <2>1, <1>14, <1>12
  <2>5. \A e \in L.evidence : e.id <= M.sequence
    <3>1. \A e \in L.evidence : e.id <= L.sequence /\ e.id \in Nat
      BY <1>15 DEF Numbered, Ledger, Evidence
    <3> QED BY <3>1, <2>1, <1>12
  <2>6. Numbered(M)
    BY <2>1, <2>2, <2>3, <2>4, <2>5, <1>12, <1>15, NoticesTyped DEF Numbered
  <2>7. HeadOf(L) <= HeadOf(M)
    <3>1. CASE n = 0
      <4>1. all = L.notices
        BY <3>1, <1>10, <2>2, NoticesTyped
      <4> QED BY <4>1, <1>12, NoticesTyped DEF HeadOf
    <3>2. CASE n > 0
      <4>1. all # <<>> /\ Len(all) = m + n /\ all[m + n].seq = L.sequence + n
        BY <3>2, <1>10
      <4>2. HeadOf(M) = L.sequence + n
        BY <4>1, <1>12 DEF HeadOf, Last
      <4>3. HeadOf(L) <= L.sequence
        <5>1. CASE L.notices = <<>>
          BY <5>1, <1>15 DEF Numbered, HeadOf
        <5>2. CASE L.notices # <<>>
          <6>1. m \in 1..m
            BY <5>2, <1>9, NoticesTyped
          <6> QED BY <6>1, <5>2, <2>1, <1>9 DEF HeadOf, Last
        <5> QED BY <5>1, <5>2
      <4> QED BY <4>2, <4>3, <3>2, <2>1, NoticesTyped
    <3> QED BY <3>1, <3>2
  <2>8. \A j \in DOMAIN M.notices : \/ L.sequence < M.notices[j].seq
                                    \/ \E i \in DOMAIN L.notices : L.notices[i].seq = M.notices[j].seq
    BY <1>14, <1>12, <2>1, <2>2
  <2> QED BY <2>1, <2>6, <2>7, <2>8, <1>12, NoticesTyped DEF Grows
<1> QED BY <1>12, <1>13, <1>15

-----------------------------------------------------------------------------
(* What a batch does to a ledger. *)

LEMMA Capped == NoticeCap \in Nat \ {0} /\ RefCap \in Nat \ {0} /\ ClientCap \in Nat \ {0}
BY CapAssumption

(* References are bounded, and the newest comes last. *)
LEMMA Refs ==
  ASSUME NEW ids \in Seq(Nat), NEW id \in Nat, NEW r, r = recentEvidenceIDs(ids, id)
  PROVE  /\ r \in Seq(Nat) /\ r # <<>> /\ Last(r) = id
         /\ ToSet(r) \subseteq ToSet(ids) \cup {id}
<1>1. PICK I : I = {i \in DOMAIN ids : ids[i] # id}
  OBVIOUS
<1>2. PICK s : s = Kept(ids, I)
  OBVIOUS
<1>3. I \in SUBSET DOMAIN ids
  BY <1>1
<1>4. s \in Seq(Nat) /\ \A n \in DOMAIN s : \E i \in I : s[n] = ids[i]
  BY <1>2, <1>3, KeptFacts DEF Keeps
<1>5. PICK t : t = Append(s, id)
  OBVIOUS
<1>6. t \in Seq(Nat) /\ t # <<>> /\ Last(t) = id /\ \A n \in DOMAIN t : t[n] = id \/ (n \in DOMAIN s /\ t[n] = s[n])
  <2>1. t \in Seq(Nat) /\ Len(t) = Len(s) + 1 /\ Len(s) \in Nat /\ t[Len(s) + 1] = id
    BY <1>4, <1>5
  <2>2. \A n \in DOMAIN t : n = Len(s) + 1 \/ n \in 1..Len(s)
    BY <2>1
  <2>3. \A n \in 1..Len(s) : n \in DOMAIN s /\ t[n] = s[n]
    BY <1>4, <1>5
  <2> QED BY <2>1, <2>2, <2>3 DEF Last
<1>7. r = Newest(t, RefCap)
  BY <1>1, <1>2, <1>5 DEF recentEvidenceIDs
<1>8. r \in Seq(Nat) /\ r # <<>> /\ Last(r) = Last(t) /\ Drops(t, r)
  <2>1. t \in Seq(Nat) /\ t # <<>> /\ RefCap \in Nat \ {0}
    BY <1>6, Capped
  <2> QED BY <2>1, <1>7, NewestFacts
<1>9. ASSUME NEW i \in DOMAIN r PROVE r[i] \in ToSet(ids) \cup {id}
  <2>1. PICK off \in Nat : Len(t) = Len(r) + off /\ \A j \in DOMAIN r : r[j] = t[j + off]
    BY <1>8 DEF Drops
  <2>2. i + off \in DOMAIN t
    BY <2>1, <1>6, <1>8
  <2>3. r[i] = t[i + off]
    BY <2>1
  <2>4. CASE t[i + off] = id
    BY <2>3, <2>4
  <2>5. CASE i + off \in DOMAIN s /\ t[i + off] = s[i + off]
    <3>1. PICK j \in I : s[i + off] = ids[j]
      BY <1>4, <2>5
    <3> QED BY <3>1, <1>3, <2>3, <2>5 DEF ToSet
  <2> QED BY <2>2, <2>4, <2>5, <1>6
<1> QED BY <1>6, <1>8, <1>9 DEF ToSet

(* The weakest lane counts, and no stale finding goes with an authoritative one. *)
LEMMA Aggregates ==
  ASSUME NEW L \in Ledger, NEW M, M = Aggregated(L)
  PROVE  /\ M = [L EXCEPT !.dimension = M.dimension] /\ M \in Ledger
         /\ M.dimension = 3 => \A f \in L.active \cup L.stale : L.items[f].status # "stale"
<1> DEFINE S == {3} \cup {L.lanes[k].confidence : k \in Heard(L)}
<1>1. S \in SUBSET (0..3) /\ S # {} /\ S \in SUBSET Nat
  <2>1. \A k \in Heard(L) : L.lanes[k].confidence \in 0..3
    BY DEF Ledger, Dimension, Heard
  <2> QED BY <2>1
<1>2. PICK w \in S : w = Min(S)
  <2> HIDE DEF S
  <2>1. PICK x \in S : \A y \in S : x <= y
    BY <1>1, LeastOf
  <2> QED BY <2>1 DEF Min
<1>3. PICK doubt \in BOOLEAN :
        doubt = \E f \in L.active \cup L.stale : \/ L.items[f].kinds = {} \/ L.items[f].status = "stale"
                                                 \/ ~(L.items[f].kinds \subseteq Heard(L))
  OBVIOUS
<1>4. aggregateDimensionLocked(L) = IF doubt THEN Smaller(1, w) ELSE w
  BY <1>2, <1>3 DEF aggregateDimensionLocked
<1>5. w \in 0..3
  BY <1>1, <1>2
<1>6. PICK d : d = aggregateDimensionLocked(L)
  OBVIOUS
<1>7. d \in 0..3 /\ (d = 3 => ~doubt)
  BY <1>4, <1>5, <1>6 DEF Smaller
<1>8. M = [L EXCEPT !.dimension = d]
  BY <1>6 DEF Aggregated
<1>9. M.dimension = d /\ M \in Ledger
  BY <1>7, <1>8 DEF Ledger
<1> QED BY <1>3, <1>7, <1>8, <1>9

IdsOf(L) == {e.id : e \in L.evidence}
Follows(L, M) == M \in Ledger /\ Numbered(M) /\ Grows(L, M) /\ M.ack = L.ack /\ L.evidence \subseteq M.evidence

LEMMA FollowsOn ==
  ASSUME NEW L \in Ledger, NEW M, NEW N, Follows(L, M), Follows(M, N)
  PROVE  Follows(L, N)
BY GrowsOn DEF Follows

LEMMA ConfidenceIs ==
  ASSUME NEW b \in Batch
  PROVE  /\ confidenceFor(b) \in 0..3
         /\ b.kind \in Streams /\ confidenceFor(b) >= 2 => b.complete /\ currentPublication(b)
         /\ b.kind = "check" => confidenceFor(b) \in {0, 2}
         /\ b.kind \in Streams \/ b.kind = "check"
<1>1. b.kind \in Streams \cup {"check"} /\ b.complete \in BOOLEAN
  BY DEF Batch
<1>2. "check" \notin Streams
  BY DEF Streams
<1>3. CASE b.kind = "check"
  BY <1>1, <1>2, <1>3 DEF confidenceFor
<1>4. CASE b.kind \in Streams
  <2>1. b.kind # "check"
    BY <1>2, <1>4
  <2>2. confidenceFor(b) = IF b.complete /\ currentPublication(b) THEN 3 ELSE 1
    BY <2>1, <1>4 DEF confidenceFor
  <2> QED BY <2>1, <2>2, <1>4
<1> QED BY <1>1, <1>3, <1>4

LEMMA Stores ==
  ASSUME NEW L \in Ledger, NEW b \in Batch, Numbered(L), NEW M, M = storeEvidence(L, b)
  PROVE  /\ Follows(L, M) /\ evidenceID(L, b) \in Nat /\ evidenceID(L, b) \in IdsOf(M)
         /\ M = [L EXCEPT !.sequence = M.sequence, !.evidence = M.evidence]
<1>1. CASE baselineProof(L, b) # {}
  <2>1. M = L
    BY <1>1 DEF storeEvidence
  <2>2. PICK e \in L.evidence : e = CHOOSE x \in baselineProof(L, b) : TRUE
    BY <1>1 DEF baselineProof
  <2>3. evidenceID(L, b) = e.id
    BY <2>2, <1>1 DEF evidenceID
  <2>4. e.id \in Nat
    BY <2>2 DEF Ledger, Evidence
  <2>5. M = [L EXCEPT !.sequence = M.sequence, !.evidence = M.evidence]
    BY <2>1 DEF Ledger
  <2>6. Grows(L, M)
    BY <2>1, GrowsAlone, NoticesTyped
  <2> QED BY <2>1, <2>2, <2>3, <2>4, <2>5, <2>6 DEF Follows, IdsOf
<1>2. CASE baselineProof(L, b) = {}
  <2>1. PICK n, e : n = L.sequence + 1 /\ e = [id |-> n, batch |-> b]
    OBVIOUS
  <2>2. n \in Nat /\ n > L.sequence /\ e \in Evidence /\ e.id = n
    BY <2>1, NoticesTyped DEF Evidence
  <2>3. M = [L EXCEPT !.sequence = n, !.evidence = L.evidence \cup {e}] /\ evidenceID(L, b) = n
    BY <1>2, <2>1 DEF storeEvidence, evidenceID
  <2>4. /\ M.sequence = n /\ M.evidence = L.evidence \cup {e} /\ M.notices = L.notices
        /\ M.floor = L.floor /\ M.ack = L.ack
        /\ M = [L EXCEPT !.sequence = M.sequence, !.evidence = M.evidence]
    BY <2>3 DEF Ledger
  <2>5. M \in Ledger
    <3>1. L.evidence \cup {e} \in SUBSET Evidence
      BY <2>2 DEF Ledger
    <3> HIDE DEF Item, Notice, Evidence, Dimension
    <3> QED BY <2>3, <2>2, <3>1 DEF Ledger
  <2>6. Grows(L, M)
    <3>1. L.sequence <= M.sequence
      BY <2>2, <2>4, NoticesTyped
    <3> QED BY <3>1, <2>4, <2>5, GrowsAlone
  <2>7. Numbered(M)
    <3>1. \A d \in L.evidence : d.id \in Nat /\ d.id <= L.sequence
      BY DEF Numbered, Ledger, Evidence
    <3> QED BY <3>1, <2>2, <2>4, NoticesTyped DEF Numbered
  <2>8. evidenceID(L, b) \in IdsOf(M)
    BY <2>2, <2>3, <2>4 DEF IdsOf
  <2> QED BY <2>2, <2>3, <2>4, <2>5, <2>6, <2>7, <2>8 DEF Follows
<1> QED BY <1>1, <1>2

(* Evidence that is named stays, whatever else is stored. *)
LEMMA ThereToo ==
  ASSUME NEW L, NEW M, L.evidence \subseteq M.evidence, M.items = L.items, M.lanes = L.lanes, EvidenceThere(L)
  PROVE  EvidenceThere(M)
BY DEF EvidenceThere, Referenced

LEMMA NamedThere ==
  ASSUME NEW L
  PROVE  EvidenceThere(L) <=> /\ \A f \in Findings : ToSet(L.items[f].evidence) \subseteq IdsOf(L)
                              /\ \A k \in Streams : ToSet(L.lanes[k].evidence) \subseteq IdsOf(L)
BY DEF EvidenceThere, Referenced, IdsOf

(* The evidence of a batch is stored, and named by its lane. *)
LEMMA RecordsEvidence ==
  ASSUME NEW L \in Ledger, NEW b \in Batch, Numbered(L), EvidenceThere(L), NEW M, M = recordEvidenceLocked(L, b)
  PROVE  /\ Follows(L, M) /\ M.items = L.items /\ M.active = L.active /\ M.stale = L.stale
         /\ EvidenceThere(M) /\ evidenceID(L, b) \in Nat /\ evidenceID(L, b) \in IdsOf(M)
         /\ b.kind = "check" => M.dimension # 3
         /\ b.kind \in Streams => M.lanes[b.kind].evidence # <<>>
<1>1. PICK S : S = storeEvidence(L, b)
  OBVIOUS
<1>2. PICK ev : ev = evidenceID(L, b)
  OBVIOUS
<1>3. /\ Follows(L, S) /\ ev \in Nat /\ ev \in IdsOf(S)
      /\ S = [L EXCEPT !.sequence = S.sequence, !.evidence = S.evidence]
  BY <1>1, <1>2, Stores
<1>4. /\ S \in Ledger /\ Numbered(S) /\ Grows(L, S) /\ S.ack = L.ack /\ L.evidence \subseteq S.evidence
      /\ S.items = L.items /\ S.active = L.active /\ S.stale = L.stale /\ S.lanes = L.lanes
      /\ S.notices = L.notices /\ S.floor = L.floor /\ L.sequence <= S.sequence
  <2>1. S \in Ledger /\ Numbered(S) /\ Grows(L, S) /\ S.ack = L.ack /\ L.evidence \subseteq S.evidence
    BY <1>3 DEF Follows
  <2>2. /\ S.items = L.items /\ S.active = L.active /\ S.stale = L.stale /\ S.lanes = L.lanes
        /\ S.notices = L.notices /\ S.floor = L.floor
    BY <1>3, <2>1 DEF Ledger
  <2> QED BY <2>1, <2>2 DEF Grows
<1>5. EvidenceThere(S)
  BY <1>4, ThereToo
<1>6. CASE b.kind = "check"
  <2>1. PICK d : d = confidenceFor(b)
    OBVIOUS
  <2>2. d \in 0..3 /\ d # 3
    BY <1>6, <2>1, ConfidenceIs
  <2>3. M = [S EXCEPT !.dimension = d]
    BY <1>1, <1>6, <2>1 DEF recordEvidenceLocked
  <2>4. /\ M \in Ledger /\ M.items = S.items /\ M.active = S.active /\ M.stale = S.stale /\ M.lanes = S.lanes
        /\ M.notices = S.notices /\ M.floor = S.floor /\ M.ack = S.ack /\ M.sequence = S.sequence
        /\ M.evidence = S.evidence /\ M.dimension = d
    BY <1>4, <2>2, <2>3 DEF Ledger
  <2>5. Follows(S, M)
    <3>1. Numbered(M)
      BY <1>4, <2>4 DEF Numbered
    <3>2. S.sequence <= M.sequence
      BY <2>4, NoticesTyped
    <3> QED BY <3>1, <3>2, <1>4, <2>4, GrowsAlone DEF Follows
  <2>6. Follows(L, M)
    BY <2>5, <1>3, FollowsOn
  <2>7. EvidenceThere(M)
    BY <1>5, <2>4, ThereToo
  <2>8. "check" \notin Streams
    BY DEF Streams
  <2> QED BY <2>2, <2>4, <2>6, <2>7, <2>8, <1>2, <1>3, <1>4, <1>6 DEF IdsOf
<1>7. CASE b.kind \in Streams
  <2>1. PICK k \in Streams : k = b.kind
    BY <1>7
  <2>2. PICK old : old = L.lanes[k].evidence
    OBVIOUS
  <2>3. old \in Seq(Nat)
    BY <2>2 DEF Ledger, Dimension
  <2>4. PICK r : r = recentEvidenceIDs(old, ev)
    OBVIOUS
  <2>5. r \in Seq(Nat) /\ r # <<>> /\ ToSet(r) \subseteq ToSet(old) \cup {ev}
    BY <2>3, <2>4, <1>3, Refs
  <2>6. PICK lane : lane = [confidence |-> confidenceFor(b), evidence |-> r]
    OBVIOUS
  <2>7. lane \in Dimension /\ lane.evidence = r
    BY <2>5, <2>6, ConfidenceIs DEF Dimension
  <2>8. PICK N : N = [S EXCEPT !.lanes[k] = lane]
    OBVIOUS
  <2>9. M = Aggregated(N)
    <3>1. "check" # k
      BY DEF Streams
    <3>2. S.lanes[k].evidence = old
      BY <1>4, <2>2
    <3>3. [S EXCEPT !.lanes[k] = [confidence |-> confidenceFor(b), evidence |-> recentEvidenceIDs(@.evidence, ev)]] = N
      BY <3>2, <2>4, <2>6, <2>8
    <3> QED BY <3>1, <3>3, <1>1, <1>2, <2>1 DEF recordEvidenceLocked
  <2>10. N.lanes = [S.lanes EXCEPT ![k] = lane] /\ N.lanes \in [Streams -> Dimension] /\ N.lanes[k] = lane
         /\ \A l \in Streams \ {k} : N.lanes[l] = S.lanes[l]
    <3>1. S.lanes \in [Streams -> Dimension]
      BY <1>4 DEF Ledger
    <3>2. N.lanes = [S.lanes EXCEPT ![k] = lane]
      BY <2>8, <1>4 DEF Ledger
    <3> QED BY <3>1, <3>2, <2>7
  <2>11. /\ N.items = S.items /\ N.active = S.active /\ N.stale = S.stale
         /\ N.notices = S.notices /\ N.floor = S.floor /\ N.ack = S.ack /\ N.sequence = S.sequence
         /\ N.evidence = S.evidence
    BY <2>8, <1>4 DEF Ledger
  <2>12. N \in Ledger
    <3>1. N = [S EXCEPT !.lanes = N.lanes]
      BY <2>8, <2>10, <1>4 DEF Ledger
    <3> HIDE DEF Item, Notice, Evidence, Dimension
    <3> QED BY <3>1, <2>10, <1>4 DEF Ledger
  <2>13. M = [N EXCEPT !.dimension = M.dimension] /\ M \in Ledger
    BY <2>9, <2>12, Aggregates
  <2>14. /\ M.items = N.items /\ M.active = N.active /\ M.stale = N.stale /\ M.lanes = N.lanes
         /\ M.notices = N.notices /\ M.floor = N.floor /\ M.ack = N.ack /\ M.sequence = N.sequence
         /\ M.evidence = N.evidence
    BY <2>12, <2>13 DEF Ledger
  <2>15. Follows(S, M)
    <3>1. Numbered(M)
      BY <1>4, <2>11, <2>14 DEF Numbered
    <3>2. S.sequence <= M.sequence
      BY <2>11, <2>14, <1>4, NoticesTyped
    <3>3. /\ M.notices = S.notices /\ M.floor = S.floor /\ M.ack = S.ack /\ S.evidence \subseteq M.evidence
      BY <2>11, <2>14
    <3> QED BY <3>1, <3>2, <3>3, <1>4, <2>13, GrowsAlone DEF Follows
  <2>16. Follows(L, M)
    BY <2>15, <1>3, FollowsOn
  <2>17. EvidenceThere(M)
    <3>1. IdsOf(M) = IdsOf(S) /\ M.items = S.items
      BY <2>11, <2>14 DEF IdsOf
    <3>2. \A f \in Findings : ToSet(M.items[f].evidence) \subseteq IdsOf(M)
      BY <3>1, <1>5, NamedThere
    <3>3. ASSUME NEW l \in Streams PROVE ToSet(M.lanes[l].evidence) \subseteq IdsOf(M)
      <4>1. ToSet(S.lanes[l].evidence) \subseteq IdsOf(S)
        BY <1>5, NamedThere
      <4>2. CASE l = k
        <5>1. M.lanes[l].evidence = r /\ S.lanes[l].evidence = old
          BY <4>2, <2>14, <2>10, <2>7, <2>2, <1>4
        <5> QED BY <5>1, <4>1, <2>5, <1>3, <3>1
      <4>3. CASE l # k
        BY <4>3, <4>1, <2>14, <2>10, <3>1
      <4> QED BY <4>2, <4>3
    <3> QED BY <3>2, <3>3, NamedThere
  <2>18. M.lanes[b.kind].evidence # <<>>
    BY <2>1, <2>5, <2>7, <2>10, <2>14
  <2>19. ev \in IdsOf(M)
    BY <2>11, <2>14, <1>3 DEF IdsOf
  <2>20. "check" # b.kind
    BY <1>7 DEF Streams
  <2> QED BY <2>11, <2>14, <2>16, <2>17, <2>18, <2>19, <2>20, <1>2, <1>3, <1>4
<1> QED BY <1>6, <1>7, ConfidenceIs

(* The findings of a batch are current, with its evidence; the others stay. *)
LEMMA RecordsFindings ==
  ASSUME NEW L \in Ledger, NEW b \in Batch, b.kind \in Streams, NEW ev \in Nat, NEW known0 \in BOOLEAN,
         Numbered(L), EvidenceThere(L), ev \in IdsOf(L), NEW M, M = recordFindingsLocked(L, b, ev, known0)
  PROVE  /\ Follows(L, M) /\ M.active = L.active /\ M.stale = L.stale /\ M.lanes = L.lanes
         /\ EvidenceThere(M)
         /\ \A f \in b.findings : M.items[f].status = "current"
         /\ \A f \in Findings \ b.findings : M.items[f] = L.items[f]
<1> DEFINE new(f) == recordedItem(L, b, ev, known0, f)
<1>1. PICK items : items = [f \in Findings |-> IF f \in b.findings THEN new(f) ELSE L.items[f]]
  OBVIOUS
<1>2. PICK S : S = Announced(L, b) \cup Persisting(L, b)
  OBVIOUS
<1>3. PICK kinds : kinds = [f \in S |-> IF f \in Announced(L, b) THEN "new" ELSE "persisting"]
  OBVIOUS
<1>4. M = addNotices(L, items, kinds)
  BY <1>1, <1>2, <1>3 DEF recordFindingsLocked
<1>5. b.findings \subseteq Findings /\ b.kind \in Streams /\ b.baseline \in BOOLEAN /\ b.revision \in 0..MaxVersions
  BY DEF Batch
<1>6. ASSUME NEW f \in Findings
      PROVE  /\ new(f) \in Item /\ new(f).status = "current"
             /\ ToSet(new(f).evidence) \subseteq ToSet(L.items[f].evidence) \cup {ev}
  <2>1. L.items[f] \in Item
    BY DEF Ledger
  <2>2. PICK ids : ids = L.items[f].evidence
    OBVIOUS
  <2>3. ids \in Seq(Nat) /\ L.items[f].kinds \in SUBSET Streams /\ L.items[f].baselineMissing \in BOOLEAN
    BY <2>1, <2>2 DEF Item
  <2>4. PICK r : r = recentEvidenceIDs(ids, ev)
    OBVIOUS
  <2>5. r \in Seq(Nat) /\ ToSet(r) \subseteq ToSet(ids) \cup {ev}
    BY <2>3, <2>4, Refs
  <2>6. PICK bm \in BOOLEAN :
          bm = (~b.baseline /\ (IF f \in Announced(L, b) THEN ~known0 ELSE L.items[f].baselineMissing))
    BY <2>3, <1>5
  <2>7. new(f) = [status |-> "current", revision |-> b.revision, kinds |-> L.items[f].kinds \cup {b.kind},
                  evidence |-> r, withdrawn |-> 0, baselineMissing |-> bm]
    BY <2>2, <2>4, <2>6 DEF recordedItem
  <2>8. L.items[f].kinds \cup {b.kind} \in SUBSET Streams /\ 0 \in 0..MaxVersions
    BY <2>3, <1>5, EventAssumption
  <2>9. new(f) \in Item
    BY <2>5, <2>7, <2>8, <1>5 DEF Item
  <2> QED BY <2>2, <2>5, <2>7, <2>9
<1> HIDE DEF new
<1>7. L.items \in [Findings -> Item]
  BY DEF Ledger
<1>8. items \in [Findings -> Item]
  BY <1>1, <1>6, <1>7
<1>9. S \in SUBSET Findings
  BY <1>2, <1>5 DEF Announced, Persisting
<1>10. kinds \in [S -> NoticeKinds]
  BY <1>3 DEF NoticeKinds
<1>11. /\ M \in Ledger /\ M.items = items
       /\ M.ack = L.ack /\ M.floor = L.floor /\ M.active = L.active /\ M.stale = L.stale
       /\ M.evidence = L.evidence /\ M.lanes = L.lanes
       /\ Numbered(L) => Numbered(M) /\ Grows(L, M)
  BY <1>4, <1>8, <1>9, <1>10, AddsNotices
<1>12. Follows(L, M)
  BY <1>11 DEF Follows
<1>13. IdsOf(M) = IdsOf(L)
  BY <1>11 DEF IdsOf
<1>14. ASSUME NEW f \in Findings PROVE ToSet(M.items[f].evidence) \subseteq IdsOf(M)
  <2>1. ToSet(L.items[f].evidence) \subseteq IdsOf(L)
    BY NamedThere
  <2> QED BY <2>1, <1>1, <1>6, <1>11, <1>13
<1>15. \A k \in Streams : ToSet(M.lanes[k].evidence) \subseteq IdsOf(M)
  BY <1>11, <1>13, NamedThere
<1>16. EvidenceThere(M)
  BY <1>14, <1>15, NamedThere
<1>17. \A f \in b.findings : f \in Findings /\ M.items[f].status = "current"
  BY <1>1, <1>5, <1>6, <1>11
<1>18. \A f \in Findings \ b.findings : M.items[f] = L.items[f]
  BY <1>1, <1>11
<1> QED BY <1>11, <1>12, <1>16, <1>17, <1>18

(* What a batch is silent about is resolved by its version. *)
LEMMA Resolves ==
  ASSUME NEW L \in Ledger, NEW b \in Batch, b.version \in Versions, NEW ids \in SUBSET Findings,
         Numbered(L), EvidenceThere(L), NEW M, M = resolveAbsentLocked(L, b, ids)
  PROVE  /\ Follows(L, M) /\ M.active = L.active /\ M.stale = L.stale /\ M.lanes = L.lanes
         /\ EvidenceThere(M)
         /\ \A f \in Findings :
              \/ M.items[f] = L.items[f]
              \/ /\ f \in ids /\ M.items[f].status = "resolved" /\ M.items[f].withdrawn = b.version
                 /\ M.items[f].kinds = {b.kind}
<1> DEFINE item(f) == [L.items[f] EXCEPT !.status = "resolved", !.withdrawn = b.version]
<1>1. PICK absent : absent = {f \in ids : streamCoversItem(L.items[f], b.kind)}
  OBVIOUS
<1>2. PICK items : items = [f \in Findings |-> IF f \in absent THEN item(f) ELSE L.items[f]]
  OBVIOUS
<1>3. PICK kinds : kinds = [f \in absent |-> "resolved"]
  OBVIOUS
<1>4. M = addNotices(L, items, kinds)
  BY <1>1, <1>2, <1>3 DEF resolveAbsentLocked
<1>5. b.version \in 0..MaxVersions
  BY DEF Versions
<1>6. \A f \in Findings : /\ item(f) \in Item /\ item(f).status = "resolved" /\ item(f).withdrawn = b.version
                          /\ item(f).kinds = L.items[f].kinds /\ item(f).evidence = L.items[f].evidence
  <2> TAKE f \in Findings
  <2>1. L.items[f] \in Item
    BY DEF Ledger
  <2> QED BY <2>1, <1>5 DEF Item
<1> HIDE DEF item
<1>7. items \in [Findings -> Item]
  <2>1. L.items \in [Findings -> Item]
    BY DEF Ledger
  <2> QED BY <2>1, <1>2, <1>6
<1>8. absent \in SUBSET Findings /\ kinds \in [absent -> NoticeKinds]
  BY <1>1, <1>3 DEF NoticeKinds
<1>9. /\ M \in Ledger /\ M.items = items
      /\ M.ack = L.ack /\ M.floor = L.floor /\ M.active = L.active /\ M.stale = L.stale
      /\ M.evidence = L.evidence /\ M.lanes = L.lanes
      /\ Numbered(L) => Numbered(M) /\ Grows(L, M)
  BY <1>4, <1>7, <1>8, AddsNotices
<1>10. Follows(L, M)
  BY <1>9 DEF Follows
<1>11. \A f \in Findings : \/ M.items[f] = L.items[f]
                           \/ /\ f \in ids /\ M.items[f].status = "resolved" /\ M.items[f].withdrawn = b.version
                              /\ M.items[f].kinds = {b.kind}
  BY <1>1, <1>2, <1>6, <1>9 DEF streamCoversItem
<1>12. \A f \in Findings : M.items[f].evidence = L.items[f].evidence
  BY <1>2, <1>6, <1>9
<1>13. IdsOf(M) = IdsOf(L)
  BY <1>9 DEF IdsOf
<1>14. EvidenceThere(M)
  <2>1. \A f \in Findings : ToSet(M.items[f].evidence) \subseteq IdsOf(M)
    BY <1>12, <1>13, NamedThere
  <2>2. \A k \in Streams : ToSet(M.lanes[k].evidence) \subseteq IdsOf(M)
    BY <1>9, <1>13, NamedThere
  <2> QED BY <2>1, <2>2, NamedThere
<1> QED BY <1>9, <1>10, <1>11, <1>14

-----------------------------------------------------------------------------
(* A ledger that holds together. *)

(* What is resolved was found by none of its streams in the version that resolved it. *)
WithdrawnBy(L, t) ==
  \A f \in Findings : L.items[f].status = "resolved" =>
    L.items[f].withdrawn \in Versions /\ \A k \in L.items[f].kinds : f \notin t[L.items[f].withdrawn][k]
Sound(L, t) ==
  /\ Numbered(L) /\ MembershipFollowsStatus(L) /\ EvidenceThere(L)
  /\ L.dimension = 3 => Heard(L) # {}
  /\ DimensionRests(L) /\ WithdrawnBy(L, t)

(* A complete batch about a version lists what its stream finds there. *)
Proven(b, t) ==
  b.kind \in Streams /\ ~b.baseline /\ b.complete /\ currentPublication(b) => b.findings = t[b.version][b.kind]
Batches(t) == {b \in Batch : Proven(b, t)}

(* What leaves numbers, notices and evidence alone. *)
LEMMA FollowsAlone ==
  ASSUME NEW L \in Ledger, Numbered(L), NEW M \in Ledger, M.sequence = L.sequence, M.notices = L.notices,
         M.floor = L.floor, M.ack = L.ack, M.evidence = L.evidence
  PROVE  Follows(L, M)
<1>1. Numbered(M)
  BY DEF Numbered
<1>2. L.sequence <= M.sequence
  BY NoticesTyped
<1> QED BY <1>1, <1>2, GrowsAlone DEF Follows

(* Content that changes makes what was found in other content stale; where the lanes
   rest on the new content already, nothing stale is of that content. *)
LEMMA DocumentChanges ==
  ASSUME NEW L \in Ledger, NEW t, Sound(L, t), NEW v \in 0..MaxVersions, NEW M, M = documentChangedLocked(L, v)
  PROVE  Follows(L, M) /\ Sound(M, t)
<1> DEFINE item(f) == [L.items[f] EXCEPT !.status = "stale"]
           gone == {f \in L.active : Outdated(L, f, v)}
           weak == {k \in Heard(L) : ~LaneRests(L, k, v)}
           lane(k) == IF k \in weak THEN [L.lanes[k] EXCEPT !.confidence = Smaller(1, @)] ELSE L.lanes[k]
<1>1. PICK g : g = gone
  OBVIOUS
<1>2. PICK items : items = [f \in Findings |-> IF f \in g THEN item(f) ELSE L.items[f]]
  OBVIOUS
<1>3. PICK lanes : lanes = [k \in Streams |-> lane(k)]
  OBVIOUS
<1>4. PICK kinds : kinds = [f \in g |-> "stale"]
  OBVIOUS
<1>5. PICK S : S = addNotices(L, items, kinds)
  OBVIOUS
<1>6. PICK N : N = [S EXCEPT !.active = S.active \ g, !.stale = S.stale \cup g, !.lanes = lanes]
  OBVIOUS
<1>7. M = AggregatedUnless(weak = {}, N)
  <2> HIDE DEF item, lane
  <2> QED BY <1>1, <1>2, <1>3, <1>4, <1>5, <1>6 DEF documentChangedLocked, item, lane
<1>8. L.active \in SUBSET Findings /\ L.stale \in SUBSET Findings /\ L.items \in [Findings -> Item]
      /\ L.lanes \in [Streams -> Dimension]
  BY DEF Ledger
<1>9. \A f \in Findings : /\ item(f) \in Item /\ item(f).status = "stale" /\ item(f).evidence = L.items[f].evidence
                          /\ item(f).revision = L.items[f].revision
  <2> TAKE f \in Findings
  <2>1. L.items[f] \in Item
    BY <1>8
  <2> QED BY <2>1 DEF Item
<1>10. \A k \in Streams : lane(k) \in Dimension /\ lane(k).evidence = L.lanes[k].evidence
  <2> TAKE k \in Streams
  <2>1. L.lanes[k] \in Dimension
    BY <1>8
  <2> QED BY <2>1 DEF Dimension, Smaller
<1>11. g \in SUBSET Findings /\ g \subseteq L.active /\ \A f \in g : Outdated(L, f, v)
  BY <1>1, <1>8
<1>12. items \in [Findings -> Item]
  <2> HIDE DEF item
  <2> QED BY <1>2, <1>8, <1>9
<1>13. lanes \in [Streams -> Dimension] /\ \A k \in Streams : lanes[k].evidence = L.lanes[k].evidence
  <2> HIDE DEF lane
  <2> QED BY <1>3, <1>10
<1>14. /\ S \in Ledger /\ S.items = items
       /\ S.ack = L.ack /\ S.floor = L.floor /\ S.active = L.active /\ S.stale = L.stale
       /\ S.evidence = L.evidence /\ S.lanes = L.lanes /\ S.dimension = L.dimension
       /\ Numbered(L) => Numbered(S) /\ Grows(L, S)
  <2>1. kinds \in [g -> NoticeKinds]
    BY <1>4 DEF NoticeKinds
  <2> QED BY <2>1, <1>5, <1>11, <1>12, AddsNotices
<1>15. Follows(L, S)
  BY <1>14 DEF Follows, Sound
<1>16. /\ N.sequence = S.sequence /\ N.notices = S.notices /\ N.floor = S.floor /\ N.ack = S.ack
       /\ N.evidence = S.evidence /\ N.items = S.items /\ N.dimension = S.dimension
       /\ N.active = L.active \ g /\ N.stale = L.stale \cup g /\ N.lanes = lanes
  BY <1>6, <1>14 DEF Ledger
<1>17. N \in Ledger
  <2>1. L.active \ g \in SUBSET Findings /\ L.stale \cup g \in SUBSET Findings
    BY <1>8, <1>11
  <2>2. N = [S EXCEPT !.active = L.active \ g, !.stale = L.stale \cup g, !.lanes = lanes]
    BY <1>6, <1>14
  <2> HIDE DEF Item, Notice, Evidence, Dimension
  <2> QED BY <2>1, <2>2, <1>13, <1>14 DEF Ledger
<1>18. Follows(L, N)
  BY <1>14, <1>15, <1>16, <1>17, FollowsAlone, FollowsOn DEF Follows
<1>19. MembershipFollowsStatus(N)
  <2>1. ASSUME NEW f \in Findings
        PROVE  /\ f \in N.active <=> N.items[f].status = "current"
               /\ f \in N.stale <=> N.items[f].status = "stale"
    <3>1. /\ f \in L.active <=> L.items[f].status = "current"
          /\ f \in L.stale <=> L.items[f].status = "stale"
      BY DEF Sound, MembershipFollowsStatus
    <3>2. CASE f \in g
      <4>1. N.items[f].status = "stale"
        <5>1. N.items = items /\ items[f] = item(f)
          BY <3>2, <1>2, <1>14, <1>16
        <5> HIDE DEF item
        <5> QED BY <5>1, <1>9
      <4> QED BY <4>1, <3>2, <1>16
    <3>3. CASE f \notin g
      <4>1. N.items[f] = L.items[f]
        BY <3>3, <1>2, <1>14, <1>16
      <4> QED BY <4>1, <3>1, <3>3, <1>16
    <3> QED BY <3>2, <3>3
  <2> QED BY <2>1, <1>8, <1>11, <1>16 DEF MembershipFollowsStatus
<1>20. EvidenceThere(N)
  <2>1. IdsOf(N) = IdsOf(L) /\ EvidenceThere(L)
    BY <1>14, <1>16 DEF IdsOf, Sound
  <2>2. ASSUME NEW f \in Findings PROVE ToSet(N.items[f].evidence) \subseteq IdsOf(N)
    <3>1. N.items[f].evidence = L.items[f].evidence
      BY <1>2, <1>9, <1>14, <1>16
    <3> QED BY <3>1, <2>1, NamedThere
  <2>3. \A k \in Streams : ToSet(N.lanes[k].evidence) \subseteq IdsOf(N)
    BY <1>13, <1>16, <2>1, NamedThere
  <2> QED BY <2>2, <2>3, NamedThere
<1>21. WithdrawnBy(N, t)
  <2>1. \A f \in Findings : N.items[f].status = "resolved" => N.items[f] = L.items[f]
    BY <1>2, <1>9, <1>14, <1>16
  <2> HIDE DEF item
  <2> QED BY <2>1 DEF WithdrawnBy, Sound
<1>22. /\ Heard(N) = Heard(L)
       /\ \A k \in Streams : \A w : LaneRests(N, k, w) <=> LaneRests(L, k, w)
       /\ \A f \in Findings : \A w : Outdated(N, f, w) <=> Outdated(L, f, w)
  <2>1. \A f \in Findings : N.items[f].revision = L.items[f].revision
    BY <1>2, <1>9, <1>14, <1>16
  <2>2. \A k \in Streams : N.lanes[k].evidence = L.lanes[k].evidence
    BY <1>13, <1>16
  <2>3. N.evidence = L.evidence
    BY <1>14, <1>16
  <2> QED BY <2>1, <2>2, <2>3 DEF Heard, LaneRests, Outdated
<1>23. CASE weak = {}
  <2>1. M = N
    BY <1>7, <1>23 DEF AggregatedUnless
  <2>2. ASSUME N.dimension = 3 PROVE Heard(N) # {}
    BY <2>2, <1>14, <1>16, <1>22 DEF Sound
  <2>3. ASSUME N.dimension = 3 PROVE DimensionRests(N)
    <3>1. \A k \in Heard(L) : LaneRests(L, k, v)
      BY <1>23
    <3>2. PICK k \in Heard(L) : LaneRests(L, k, v)
      BY <2>2, <2>3, <1>22, <3>1
    <3>3. ASSUME NEW f \in L.stale PROVE Outdated(L, f, v)
      <4>1. L.dimension = 3 /\ L.stale # {}
        BY <2>3, <1>14, <1>16, <3>3
      <4>2. PICK w \in 0..MaxVersions : LaneRests(L, k, w) /\ Outdated(L, f, w)
        BY <4>1, <3>2 DEF Sound, DimensionRests
      <4>3. w = v
        BY <4>2, <3>2 DEF LaneRests, Sound, Numbered
      <4> QED BY <4>2, <4>3
    <3>4. \A f \in N.stale : Outdated(N, f, v)
      BY <3>3, <1>8, <1>11, <1>16, <1>22
    <3>5. \A l \in Heard(N) : LaneRests(N, l, v)
      BY <3>1, <1>22 DEF Heard
    <3> QED BY <3>4, <3>5 DEF DimensionRests
  <2>4. DimensionRests(N)
    BY <2>3 DEF DimensionRests
  <2> QED BY <2>1, <2>2, <2>4, <1>18, <1>19, <1>20, <1>21 DEF Sound, Follows
<1>24. CASE weak # {}
  <2>1. M = Aggregated(N)
    BY <1>7, <1>24 DEF AggregatedUnless
  <2>2. /\ M = [N EXCEPT !.dimension = M.dimension] /\ M \in Ledger
        /\ M.dimension = 3 => \A f \in N.active \cup N.stale : N.items[f].status # "stale"
    BY <2>1, <1>17, Aggregates
  <2>3. /\ M.sequence = N.sequence /\ M.notices = N.notices /\ M.floor = N.floor /\ M.ack = N.ack
        /\ M.evidence = N.evidence /\ M.items = N.items
        /\ M.active = N.active /\ M.stale = N.stale /\ M.lanes = N.lanes
    BY <2>2, <1>17 DEF Ledger
  <2>4. Follows(L, M)
    BY <2>2, <2>3, <1>18, FollowsAlone, FollowsOn DEF Follows
  <2>5. MembershipFollowsStatus(M)
    BY <2>3, <1>19 DEF MembershipFollowsStatus
  <2>6. EvidenceThere(M)
    BY <2>3, <1>20, ThereToo
  <2>7. WithdrawnBy(M, t)
    BY <2>3, <1>21 DEF WithdrawnBy
  <2>8. Heard(M) # {}
    <3>1. Heard(M) = Heard(L)
      BY <2>3, <1>22 DEF Heard
    <3> QED BY <3>1, <1>24
  <2>9. M.dimension = 3 => M.stale = {}
    <3>1. \A f \in N.stale : N.items[f].status = "stale"
      BY <1>19 DEF MembershipFollowsStatus
    <3> QED BY <3>1, <2>2, <2>3
  <2>10. DimensionRests(M)
    BY <2>9 DEF DimensionRests
  <2> QED BY <2>4, <2>5, <2>6, <2>7, <2>8, <2>10 DEF Sound, Follows
<1> QED BY <1>23, <1>24

(* The disk is read before a baseline. *)
LEMMA StartsSound ==
  ASSUME NEW L \in Ledger, NEW t, Sound(L, t), NEW b \in Batch, NEW M, M = Start(L, b)
  PROVE  Follows(L, M) /\ Sound(M, t)
<1>1. CASE b.baseline /\ known \notin {0, b.revision}
  <2>1. b.revision \in 0..MaxVersions
    BY DEF Batch
  <2>2. M = documentChangedLocked(L, b.revision)
    BY <1>1 DEF Start
  <2> QED BY <2>1, <2>2, DocumentChanges
<1>2. CASE ~(b.baseline /\ known \notin {0, b.revision})
  <2>1. M = L
    BY <1>2 DEF Start
  <2>2. Numbered(L)
    BY DEF Sound
  <2> QED BY <2>1, <2>2, FollowsAlone
<1> QED BY <1>1, <1>2

(* What a batch settles: it makes what it sees current, and resolves what it is
   silent about when it may. *)
LEMMA Settles ==
  ASSUME NEW L \in Ledger, NEW t, Sound(L, t), NEW b \in Batch, b.kind \in Streams, Proven(b, t),
         NEW T, T = Settled(Found(L, b), L, b)
  PROVE  /\ Follows(L, T) /\ T.active = L.active /\ T.stale = L.stale
         /\ EvidenceThere(T) /\ T.lanes[b.kind].evidence # <<>>
         /\ \A f \in Seen(b) : T.items[f].status = "current"
         /\ \A f \in Findings \ Seen(b) :
              \/ T.items[f] = L.items[f]
              \/ /\ f \in L.active \cup L.stale /\ T.items[f].status = "resolved"
                 /\ T.items[f].withdrawn \in Versions
                 /\ \A k \in T.items[f].kinds : f \notin t[T.items[f].withdrawn][k]
<1>1. /\ b.kind \in Streams \cup {"check"} /\ b.version \in 0..MaxVersions /\ b.expected \in 0..MaxVersions
      /\ b.complete \in BOOLEAN /\ b.baseline \in BOOLEAN /\ b.findings \in SUBSET Findings
  BY DEF Batch
<1>2. Numbered(L) /\ EvidenceThere(L)
  BY DEF Sound
<1>3. PICK E : E = recordEvidenceLocked(L, b)
  OBVIOUS
<1>4. PICK ev : ev = evidenceID(L, b)
  OBVIOUS
<1>5. /\ Follows(L, E) /\ E.items = L.items /\ E.active = L.active /\ E.stale = L.stale
      /\ EvidenceThere(E) /\ ev \in Nat /\ ev \in IdsOf(E) /\ E.lanes[b.kind].evidence # <<>>
  BY <1>2, <1>3, <1>4, RecordsEvidence
<1>6. PICK seen \in SUBSET Findings : seen = Seen(b)
  BY <1>1 DEF Seen
<1>7. PICK a : a = [b EXCEPT !.findings = seen]
  OBVIOUS
<1>8. a \in Batch /\ a.kind = b.kind /\ a.findings = seen
  BY <1>6, <1>7 DEF Batch
<1>9. PICK known0 \in BOOLEAN : known0 = baselineKnownLocked(L, b)
  BY <1>1 DEF baselineKnownLocked
<1>10. PICK F : F = recordFindingsLocked(E, a, ev, known0)
  OBVIOUS
<1>11. F = Found(L, b)
  BY <1>3, <1>4, <1>6, <1>7, <1>9, <1>10 DEF Found
<1>12. E \in Ledger /\ Numbered(E)
  BY <1>5 DEF Follows
<1>13. /\ Follows(E, F) /\ F.active = E.active /\ F.stale = E.stale /\ F.lanes = E.lanes
       /\ EvidenceThere(F)
       /\ \A f \in a.findings : F.items[f].status = "current"
       /\ \A f \in Findings \ a.findings : F.items[f] = E.items[f]
  BY <1>5, <1>8, <1>10, <1>12, RecordsFindings
<1>14. /\ Follows(L, F) /\ F.active = L.active /\ F.stale = L.stale /\ F.lanes[b.kind].evidence # <<>>
       /\ \A f \in seen : F.items[f].status = "current"
       /\ \A f \in Findings \ seen : F.items[f] = L.items[f]
  BY <1>5, <1>8, <1>13, FollowsOn
<1>15. CASE ~(~b.baseline /\ b.complete /\ confidenceFor(b) >= 2)
  <2>1. T = F
    BY <1>11, <1>15 DEF Settled
  <2> QED BY <2>1, <1>6, <1>13, <1>14
<1>16. CASE ~b.baseline /\ b.complete /\ confidenceFor(b) >= 2
  <2>1. currentPublication(b)
    BY <1>16, ConfidenceIs
  <2>2. b.version \in Versions /\ seen = b.findings /\ b.findings = t[b.version][b.kind]
    BY <2>1, <1>1, <1>6, <1>16 DEF currentPublication, Versions, Seen, Proven
  <2>3. PICK ids : ids = (L.active \cup L.stale) \ seen
    OBVIOUS
  <2>4. ids \in SUBSET Findings
    BY <2>3 DEF Ledger
  <2>5. T = resolveAbsentLocked(F, b, ids)
    BY <2>3, <1>6, <1>11, <1>16 DEF Settled
  <2>6. F \in Ledger /\ Numbered(F)
    BY <1>14 DEF Follows
  <2>7. /\ Follows(F, T) /\ T.active = F.active /\ T.stale = F.stale /\ T.lanes = F.lanes
        /\ EvidenceThere(T)
        /\ \A f \in Findings :
              \/ T.items[f] = F.items[f]
              \/ /\ f \in ids /\ T.items[f].status = "resolved" /\ T.items[f].withdrawn = b.version
                 /\ T.items[f].kinds = {b.kind}
    BY <2>2, <2>4, <2>5, <2>6, <1>13, Resolves
  <2>8. Follows(L, T) /\ T.active = L.active /\ T.stale = L.stale /\ T.lanes[b.kind].evidence # <<>>
    BY <2>7, <1>14, FollowsOn
  <2>9. ASSUME NEW f \in seen PROVE T.items[f].status = "current"
    BY <2>3, <2>7, <1>14
  <2>10. ASSUME NEW f \in Findings \ seen
         PROVE  \/ T.items[f] = L.items[f]
                \/ /\ f \in L.active \cup L.stale /\ T.items[f].status = "resolved"
                   /\ T.items[f].withdrawn \in Versions
                   /\ \A k \in T.items[f].kinds : f \notin t[T.items[f].withdrawn][k]
    <3>1. CASE T.items[f] = F.items[f]
      BY <3>1, <1>14
    <3>2. CASE /\ f \in ids /\ T.items[f].status = "resolved" /\ T.items[f].withdrawn = b.version
               /\ T.items[f].kinds = {b.kind}
      BY <3>2, <2>2, <2>3
    <3> QED BY <3>1, <3>2, <2>7
  <2> QED BY <2>7, <2>8, <2>9, <2>10, <1>6
<1> QED BY <1>15, <1>16

(* A batch keeps a ledger together. *)
LEMMA RecordsStarted ==
  ASSUME NEW L \in Ledger, NEW t, Sound(L, t), NEW b \in Batch, Proven(b, t), NEW M, M = recordStarted(L, b)
  PROVE  Follows(L, M) /\ Sound(M, t)
<1>1. CASE b.kind = "check"
  <2>1. M = recordEvidenceLocked(L, b) /\ Numbered(L) /\ EvidenceThere(L)
    BY <1>1 DEF recordStarted, Sound
  <2>2. /\ Follows(L, M) /\ M.items = L.items /\ M.active = L.active /\ M.stale = L.stale
        /\ EvidenceThere(M) /\ M.dimension # 3
    BY <2>1, <1>1, RecordsEvidence
  <2>3. MembershipFollowsStatus(M) /\ WithdrawnBy(M, t)
    BY <2>2 DEF Sound, MembershipFollowsStatus, WithdrawnBy
  <2> QED BY <2>2, <2>3 DEF Sound, Follows, DimensionRests
<1>2. CASE b.kind # "check"
  <2>1. b.kind \in Streams
    BY <1>2, ConfidenceIs
  <2>2. PICK T : T = Settled(Found(L, b), L, b)
    OBVIOUS
  <2>3. PICK seen \in SUBSET Findings : seen = Seen(b)
    BY DEF Seen, Batch
  <2>4. /\ Follows(L, T) /\ T.active = L.active /\ T.stale = L.stale
        /\ EvidenceThere(T) /\ T.lanes[b.kind].evidence # <<>>
        /\ \A f \in seen : T.items[f].status = "current"
        /\ \A f \in Findings \ seen :
              \/ T.items[f] = L.items[f]
              \/ /\ f \in L.active \cup L.stale /\ T.items[f].status = "resolved"
                 /\ T.items[f].withdrawn \in Versions
                 /\ \A k \in T.items[f].kinds : f \notin t[T.items[f].withdrawn][k]
    BY <2>1, <2>2, <2>3, Settles
  <2>5. PICK gone : gone = {f \in L.active \cup L.stale : T.items[f].status = "resolved"}
    OBVIOUS
  <2>6. PICK G : G = [T EXCEPT !.active = (L.active \ gone) \cup seen, !.stale = L.stale \ (gone \cup seen)]
    OBVIOUS
  <2>7. M = Aggregated(G)
    BY <2>2, <2>3, <2>4, <2>5, <2>6, <1>2 DEF recordStarted, Merged, Gathered, membership
  <2>8. T \in Ledger /\ Numbered(T) /\ L.active \in SUBSET Findings /\ L.stale \in SUBSET Findings
    BY <2>4 DEF Follows, Ledger
  <2>9. /\ G.sequence = T.sequence /\ G.notices = T.notices /\ G.floor = T.floor /\ G.ack = T.ack
        /\ G.evidence = T.evidence /\ G.items = T.items /\ G.lanes = T.lanes
        /\ G.active = (L.active \ gone) \cup seen /\ G.stale = L.stale \ (gone \cup seen)
    BY <2>6, <2>8 DEF Ledger
  <2>10. G \in Ledger
    <3>1. (L.active \ gone) \cup seen \in SUBSET Findings /\ L.stale \ (gone \cup seen) \in SUBSET Findings
      BY <2>8
    <3> HIDE DEF Item, Notice, Evidence, Dimension
    <3> QED BY <3>1, <2>6, <2>8 DEF Ledger
  <2>11. /\ M = [G EXCEPT !.dimension = M.dimension] /\ M \in Ledger
         /\ M.dimension = 3 => \A f \in G.active \cup G.stale : G.items[f].status # "stale"
    BY <2>7, <2>10, Aggregates
  <2>12. /\ M.sequence = T.sequence /\ M.notices = T.notices /\ M.floor = T.floor /\ M.ack = T.ack
         /\ M.evidence = T.evidence /\ M.items = T.items /\ M.lanes = T.lanes
         /\ M.active = G.active /\ M.stale = G.stale
    BY <2>9, <2>10, <2>11 DEF Ledger
  <2>13. Follows(T, M)
    BY <2>8, <2>11, <2>12, FollowsAlone
  <2>14. Follows(L, M)
    BY <2>4, <2>13, FollowsOn
  <2>15. EvidenceThere(M)
    BY <2>4, <2>12, ThereToo
  <2>16. MembershipFollowsStatus(M)
    <3>1. ASSUME NEW f \in Findings
          PROVE  /\ f \in M.active <=> M.items[f].status = "current"
                 /\ f \in M.stale <=> M.items[f].status = "stale"
      <4>1. /\ f \in L.active <=> L.items[f].status = "current"
            /\ f \in L.stale <=> L.items[f].status = "stale"
        BY DEF Sound, MembershipFollowsStatus
      <4>2. CASE f \in seen
        BY <4>2, <2>4, <2>9, <2>12
      <4>3. CASE f \notin seen /\ T.items[f] = L.items[f]
        <5>1. f \notin gone
          BY <4>1, <4>3, <2>5
        <5> QED BY <5>1, <4>1, <4>3, <2>9, <2>12
      <4>4. CASE f \notin seen /\ f \in L.active \cup L.stale /\ T.items[f].status = "resolved"
        <5>1. f \in gone
          BY <4>4, <2>5
        <5> QED BY <5>1, <4>4, <2>9, <2>12
      <4> QED BY <4>2, <4>3, <4>4, <2>4
    <3>2. M.active \subseteq Findings /\ M.stale \subseteq Findings
      BY <2>8, <2>9, <2>12
    <3> QED BY <3>1, <3>2 DEF MembershipFollowsStatus
  <2>17. WithdrawnBy(M, t)
    <3>1. ASSUME NEW f \in Findings, M.items[f].status = "resolved"
          PROVE  M.items[f].withdrawn \in Versions /\ \A k \in M.items[f].kinds : f \notin t[M.items[f].withdrawn][k]
      <4>1. f \notin seen
        BY <3>1, <2>4, <2>12
      <4>2. CASE T.items[f] = L.items[f]
        BY <4>2, <3>1, <2>12 DEF Sound, WithdrawnBy
      <4> QED BY <4>1, <4>2, <2>4, <2>12
    <3> QED BY <3>1 DEF WithdrawnBy
  <2>18. M.dimension = 3 => M.stale = {}
    <3>1. \A f \in M.stale : M.items[f].status = "stale"
      BY <2>16 DEF MembershipFollowsStatus
    <3>2. M.items = G.items
      BY <2>9, <2>12
    <3> QED BY <3>1, <3>2, <2>11, <2>12
  <2>19. Heard(M) # {}
    BY <2>1, <2>4, <2>12 DEF Heard
  <2> QED BY <2>11, <2>14, <2>15, <2>16, <2>17, <2>18, <2>19 DEF Sound, Follows, DimensionRests
<1> QED BY <1>1, <1>2

LEMMA RecordsOne ==
  ASSUME NEW L \in Ledger, NEW t, Sound(L, t), NEW b \in Batch, Proven(b, t), NEW M, M = recordLocked(L, b)
  PROVE  Follows(L, M) /\ Sound(M, t)
<1>1. CASE b.staged
  <2>1. M = storeEvidence(L, b) /\ Numbered(L) /\ EvidenceThere(L)
    BY <1>1 DEF recordLocked, recordStagedLocked, Sound
  <2>2. Follows(L, M) /\ M = [L EXCEPT !.sequence = M.sequence, !.evidence = M.evidence]
    BY <2>1, Stores
  <2>3. /\ M.items = L.items /\ M.active = L.active /\ M.stale = L.stale /\ M.lanes = L.lanes
        /\ M.dimension = L.dimension
    BY <2>2 DEF Ledger
  <2>4. L.evidence \subseteq M.evidence
    BY <2>2 DEF Follows
  <2>5. EvidenceThere(M)
    BY <2>1, <2>3, <2>4, ThereToo
  <2>6. MembershipFollowsStatus(M) /\ WithdrawnBy(M, t)
    BY <2>3 DEF Sound, MembershipFollowsStatus, WithdrawnBy
  <2>7. Heard(M) = Heard(L)
    BY <2>3 DEF Heard
  <2>8. DimensionRests(M)
    <3>1. SUFFICES ASSUME M.dimension = 3, M.stale # {}
                   PROVE  \E v \in 0..MaxVersions : /\ \A k \in Heard(M) : LaneRests(M, k, v)
                                                   /\ \A f \in M.stale : Outdated(M, f, v)
      BY DEF DimensionRests
    <3>2. PICK v \in 0..MaxVersions : /\ \A k \in Heard(L) : LaneRests(L, k, v)
                                      /\ \A f \in L.stale : Outdated(L, f, v)
      BY <3>1, <2>3 DEF Sound, DimensionRests
    <3>3. \A k \in Heard(M) : LaneRests(M, k, v)
      BY <3>2, <2>3, <2>4, <2>7 DEF LaneRests
    <3>4. \A f \in M.stale : Outdated(M, f, v)
      BY <3>2, <2>3 DEF Outdated
    <3> QED BY <3>3, <3>4
  <2> QED BY <2>2, <2>3, <2>5, <2>6, <2>7, <2>8 DEF Sound, Follows
<1>2. CASE ~b.staged
  <2>1. PICK S : S = Start(L, b)
    OBVIOUS
  <2>2. Follows(L, S) /\ Sound(S, t) /\ S \in Ledger
    BY <2>1, StartsSound DEF Follows
  <2>3. M = recordStarted(S, b)
    BY <1>2, <2>1 DEF recordLocked
  <2>4. Follows(S, M) /\ Sound(M, t)
    BY <2>2, <2>3, RecordsStarted
  <2> QED BY <2>2, <2>4, FollowsOn
<1> QED BY <1>1, <1>2

(* Batches recorded one after another. *)
Records(f, L, batches, n) == f = [i \in 0..n |-> IF i = 0 THEN L ELSE recordLocked(f[i - 1], batches[i])]
LEMMA RecordsSome ==
  ASSUME NEW L, NEW batches, NEW n \in Nat
  PROVE  \E f : Records(f, L, batches, n)
<1> DEFINE S == {m \in Nat : \E f : Records(f, L, batches, m)}
<1>1. 0 \in S
  <2>1. PICK f : f = [i \in 0..0 |-> L]
    OBVIOUS
  <2>2. f = [i \in 0..0 |-> IF i = 0 THEN L ELSE recordLocked(f[i - 1], batches[i])]
    BY <2>1
  <2> QED BY <2>2 DEF Records
<1>2. ASSUME NEW m \in Nat, m \in S PROVE m + 1 \in S
  <2>1. PICK f : Records(f, L, batches, m)
    BY <1>2
  <2>2. PICK g : g = [i \in 0..(m + 1) |-> IF i = m + 1 THEN recordLocked(f[m], batches[m + 1]) ELSE f[i]]
    OBVIOUS
  <2>3. DOMAIN f = 0..m /\ \A i \in 0..m : f[i] = IF i = 0 THEN L ELSE recordLocked(f[i - 1], batches[i])
    BY <2>1 DEF Records
  <2>4. ASSUME NEW i \in 0..(m + 1) PROVE g[i] = IF i = 0 THEN L ELSE recordLocked(g[i - 1], batches[i])
    <3>1. CASE i = m + 1
      <4>1. i # 0 /\ i - 1 = m /\ m \in 0..(m + 1) /\ m # m + 1
        BY <3>1
      <4>2. g[i] = recordLocked(f[m], batches[m + 1]) /\ g[i - 1] = f[m]
        BY <3>1, <4>1, <2>2
      <4> QED BY <4>1, <4>2, <3>1
    <3>2. CASE i # m + 1
      <4>1. i \in 0..m /\ g[i] = f[i]
        BY <3>2, <2>2
      <4>2. CASE i = 0
        BY <4>1, <4>2, <2>3
      <4>3. CASE i # 0
        <5>1. i - 1 \in 0..m /\ i - 1 \in 0..(m + 1) /\ i - 1 # m + 1
          BY <4>1, <4>3
        <5>2. g[i - 1] = f[i - 1]
          BY <5>1, <2>2
        <5> QED BY <5>2, <4>1, <4>3, <2>3
      <4> QED BY <4>2, <4>3
    <3> QED BY <3>1, <3>2
  <2>5. g = [i \in 0..(m + 1) |-> IF i = 0 THEN L ELSE recordLocked(g[i - 1], batches[i])]
    <3>1. g = [i \in 0..(m + 1) |-> g[i]]
      BY <2>2
    <3> QED BY <3>1, <2>4
  <2>6. Records(g, L, batches, m + 1)
    BY <2>5 DEF Records
  <2> QED BY <2>6
<1>3. \A m \in Nat : m \in S
  <2> HIDE DEF S
  <2> QED BY <1>1, <1>2, NaturalsIn
<1> QED BY <1>3

LEMMA RecordsEach ==
  ASSUME NEW L \in Ledger, NEW t, Sound(L, t), NEW batches \in Seq(Batches(t)), NEW M, M = recordEach(L, batches)
  PROVE  Follows(L, M) /\ Sound(M, t)
<1>1. PICK n \in Nat : n = Len(batches)
  OBVIOUS
<1>2. DOMAIN batches = 1..n /\ \A i \in 1..n : batches[i] \in Batch /\ Proven(batches[i], t)
  BY <1>1 DEF Batches
<1> DEFINE f == CHOOSE g : Records(g, L, batches, n)
<1>3. Records(f, L, batches, n)
  BY RecordsSome
<1>4. M = f[n]
  BY <1>1 DEF recordEach, Records
<1> HIDE DEF f
<1>5. \A i \in 0..n : f[i] = IF i = 0 THEN L ELSE recordLocked(f[i - 1], batches[i])
  BY <1>3 DEF Records
<1> DEFINE S == {m \in Nat : m <= n => Follows(L, f[m]) /\ Sound(f[m], t)}
<1>6. 0 \in S
  <2>1. f[0] = L
    BY <1>5
  <2>2. Numbered(L)
    BY DEF Sound
  <2> QED BY <2>1, <2>2, FollowsAlone
<1>7. ASSUME NEW m \in Nat, m \in S PROVE m + 1 \in S
  <2> SUFFICES ASSUME m + 1 <= n PROVE Follows(L, f[m + 1]) /\ Sound(f[m + 1], t)
    OBVIOUS
  <2>1. Follows(L, f[m]) /\ Sound(f[m], t) /\ m + 1 \in 1..n /\ m + 1 \in 0..n /\ m + 1 # 0 /\ (m + 1) - 1 = m
    BY <1>7
  <2>2. f[m + 1] = recordLocked(f[m], batches[m + 1])
    BY <2>1, <1>5
  <2>3. f[m] \in Ledger
    BY <2>1 DEF Follows
  <2>4. Follows(f[m], f[m + 1]) /\ Sound(f[m + 1], t)
    BY <2>1, <2>2, <2>3, <1>2, RecordsOne
  <2> QED BY <2>1, <2>4, FollowsOn
<1>8. \A m \in Nat : m \in S
  <2> HIDE DEF S
  <2> QED BY <1>6, <1>7, NaturalsIn
<1> QED BY <1>4, <1>8

-----------------------------------------------------------------------------
(* Pruning. *)

LEMMA GreatestOf ==
  ASSUME NEW n \in Nat, NEW T \in SUBSET (0..n), T # {}
  PROVE  Max(T) \in T /\ \A y \in T : Max(T) >= y
<1> DEFINE D == {n - x : x \in T}
<1>1. D \in SUBSET Nat /\ D # {}
  <2>1. \A x \in T : n - x \in Nat
    OBVIOUS
  <2> QED BY <2>1
<1>2. PICK d \in D : \A e \in D : d <= e
  <2> HIDE DEF D
  <2> QED BY <1>1, LeastOf
<1>3. PICK x \in T : d = n - x
  BY <1>2
<1>4. \A y \in T : x >= y
  <2> TAKE y \in T
  <2>1. n - x <= n - y
    BY <1>2, <1>3
  <2> QED BY <2>1
<1> QED BY <1>4 DEF Max

(* No notice is kept that was acknowledged. *)
Pending(L) == \A i \in DOMAIN L.notices : L.ack < L.notices[i].seq

LEMMA PrunesNotices ==
  ASSUME NEW L \in Ledger, Numbered(L), NEW M, M = pruneNoticesLocked(L)
  PROVE  /\ M \in Ledger /\ Numbered(M) /\ Grows(L, M) /\ Pending(M)
         /\ M.ack = L.ack /\ M.sequence = L.sequence /\ M.items = L.items /\ M.active = L.active
         /\ M.stale = L.stale /\ M.evidence = L.evidence /\ M.lanes = L.lanes /\ M.dimension = L.dimension
<1>1. PICK s : s = L.notices
  OBVIOUS
<1>2. s \in Seq(Notice) /\ Len(s) \in Nat /\ DOMAIN s = 1..Len(s) /\ L.sequence \in Nat /\ L.ack \in Nat
      /\ L.floor \in Nat /\ \A i \in DOMAIN s : s[i].seq \in Nat /\ s[i].seq <= L.sequence
  BY <1>1, NoticesTyped DEF Numbered
<1>3. \A i, j \in DOMAIN s : i < j => s[i].seq < s[j].seq
  BY <1>1 DEF Numbered
<1>4. PICK I : I = {i \in DOMAIN s : s[i].seq > L.ack}
  OBVIOUS
<1>5. PICK u : u = Kept(s, I)
  OBVIOUS
<1>6. u \in Seq(Notice) /\ Keeps(s, I, u)
  <2>1. I \in SUBSET DOMAIN s
    BY <1>4
  <2> QED BY <2>1, <1>2, <1>5, KeptFacts
<1>7. PICK k : k = Newest(u, NoticeCap)
  OBVIOUS
<1>8. k \in Seq(Notice) /\ (u # <<>> => k # <<>> /\ Last(k) = Last(u)) /\ Drops(u, k)
  <2>1. NoticeCap \in Nat \ {0}
    BY Capped
  <2> QED BY <2>1, <1>6, <1>7, NewestFacts
<1>9. PICK off \in Nat : Len(u) = Len(k) + off /\ \A i \in DOMAIN k : k[i] = u[i + off]
  BY <1>8 DEF Drops
<1>10. Len(u) \in Nat /\ DOMAIN u = 1..Len(u) /\ Len(k) \in Nat /\ DOMAIN k = 1..Len(k)
  BY <1>6, <1>8
<1>11. \A i \in DOMAIN k : i + off \in DOMAIN u
  BY <1>9, <1>10
<1>12. \A m, n \in DOMAIN u : m < n => u[m].seq < u[n].seq
  BY <1>3, <1>4, <1>6 DEF Keeps
<1>13. \A i \in DOMAIN k : \E j \in DOMAIN s : k[i] = s[j] /\ s[j].seq > L.ack
  BY <1>4, <1>6, <1>9, <1>11 DEF Keeps
<1>14. \A i, j \in DOMAIN k : i < j => k[i].seq < k[j].seq
  <2> SUFFICES ASSUME NEW i \in DOMAIN k, NEW j \in DOMAIN k, i < j PROVE k[i].seq < k[j].seq
    OBVIOUS
  <2>1. i + off \in DOMAIN u /\ j + off \in DOMAIN u /\ i + off < j + off
    BY <1>10, <1>11
  <2> QED BY <2>1, <1>9, <1>12
<1>15. PICK T : T = {L.floor} \cup ({s[i].seq : i \in DOMAIN s} \ {k[i].seq : i \in DOMAIN k})
  OBVIOUS
<1>16. PICK fl : fl = Max(T)
  OBVIOUS
<1>17. fl \in T /\ \A y \in T : fl >= y
  <2>1. T \in SUBSET (0..L.sequence) /\ T # {}
    BY <1>2, <1>15 DEF Numbered
  <2> QED BY <2>1, <1>2, <1>16, GreatestOf
<1>18. fl \in Nat /\ fl <= L.sequence /\ L.floor <= fl
  BY <1>2, <1>15, <1>17 DEF Numbered
<1>19. M = [L EXCEPT !.notices = k, !.floor = fl]
  <2>1. {i \in DOMAIN L.notices : L.notices[i].seq > L.ack} = I
    BY <1>1, <1>4
  <2>2. Newest(Kept(L.notices, {i \in DOMAIN L.notices : L.notices[i].seq > L.ack}), NoticeCap) = k
    BY <2>1, <1>1, <1>5, <1>7
  <2>3. {L.floor} \cup ({L.notices[i].seq : i \in DOMAIN L.notices} \ {k[i].seq : i \in DOMAIN k}) = T
    BY <1>1, <1>15
  <2> QED BY <2>2, <2>3, <1>16 DEF pruneNoticesLocked
<1>20. /\ M.notices = k /\ M.floor = fl
       /\ M.ack = L.ack /\ M.sequence = L.sequence /\ M.items = L.items /\ M.active = L.active
       /\ M.stale = L.stale /\ M.evidence = L.evidence /\ M.lanes = L.lanes /\ M.dimension = L.dimension
  BY <1>19 DEF Ledger
<1>21. M \in Ledger
  <2> HIDE DEF Item, Notice, Evidence, Dimension
  <2> QED BY <1>19, <1>8, <1>18 DEF Ledger
<1>22. Pending(M)
  BY <1>2, <1>13, <1>20 DEF Pending
<1>23. Numbered(M)
  <2>1. \A i \in DOMAIN k : k[i].seq <= L.sequence
    BY <1>2, <1>13
  <2> QED BY <2>1, <1>14, <1>18, <1>20 DEF Numbered
<1>24. HeadOf(L) <= HeadOf(M)
  <2>1. CASE s = <<>>
    <3>1. HeadOf(L) = L.floor
      BY <2>1, <1>1 DEF HeadOf
    <3>2. k = <<>>
      <4>1. \A i \in DOMAIN k : FALSE
        <5>1. DOMAIN s = {}
          BY <2>1
        <5> QED BY <5>1, <1>13
      <4>2. Len(k) = 0
        <5>1. ~(1 <= Len(k))
          BY <4>1, <1>10
        <5> QED BY <5>1, <1>10
      <4> QED BY <4>2, <1>8
    <3>3. HeadOf(M) = fl
      BY <3>2, <1>20 DEF HeadOf
    <3> QED BY <3>1, <3>3, <1>18
  <2>2. CASE s # <<>>
    <3>1. PICK l \in DOMAIN s : l = Len(s)
      BY <2>2, <1>2
    <3>2. HeadOf(L) = s[l].seq
      BY <3>1, <2>2, <1>1 DEF HeadOf, Last
    <3>3. \A i \in DOMAIN s : s[i].seq <= s[l].seq
      BY <3>1, <1>2, <1>3
    <3>4. CASE k = <<>>
      <4>1. HeadOf(M) = fl
        BY <3>4, <1>20 DEF HeadOf
      <4>2. s[l].seq \in T
        BY <3>4, <1>15
      <4> QED BY <4>1, <4>2, <3>2, <1>17
    <3>5. CASE k # <<>>
      <4>1. PICK j \in DOMAIN s : s[j].seq > L.ack
        <5>1. 1 \in DOMAIN k
          BY <3>5, <1>8, <1>10
        <5> QED BY <5>1, <1>13
      <4>2. s[l].seq > L.ack
        BY <4>1, <3>3, <1>2
      <4>3. PICK n \in DOMAIN u : u[n] = s[l]
        BY <4>2, <1>4, <1>6 DEF Keeps
      <4>4. u # <<>> /\ Len(u) \in DOMAIN u
        BY <4>3, <1>10
      <4>5. s[l].seq <= u[Len(u)].seq
        <5>1. u[Len(u)].seq \in Nat
          <6>1. PICK i \in I : u[Len(u)] = s[i]
            BY <4>4, <1>6 DEF Keeps
          <6> QED BY <6>1, <1>2, <1>4
        <5>2. CASE n = Len(u)
          BY <5>1, <5>2, <4>3
        <5>3. CASE n # Len(u)
          <6>1. n < Len(u)
            BY <5>3, <4>3, <4>4, <1>10
          <6>2. u[n].seq < u[Len(u)].seq
            BY <6>1, <4>3, <4>4, <1>12
          <6> QED BY <6>2, <5>1, <4>3, <1>2
        <5> QED BY <5>2, <5>3
      <4>6. HeadOf(M) = Last(u).seq
        BY <4>4, <1>8, <1>20 DEF HeadOf
      <4>7. Last(u) = u[Len(u)]
        BY DEF Last
      <4> QED BY <4>5, <4>6, <4>7, <3>2
    <3> QED BY <3>4, <3>5
  <2> QED BY <2>1, <2>2
<1>25. Grows(L, M)
  BY <1>1, <1>2, <1>13, <1>20, <1>24 DEF Grows
<1> QED BY <1>20, <1>21, <1>22, <1>23, <1>25

LEMMA PrunesItems ==
  ASSUME NEW L \in Ledger, Numbered(L), NEW aged \in BOOLEAN, NEW M, M = pruneItemsLocked(L, aged)
  PROVE  /\ M \in Ledger /\ Numbered(M) /\ Grows(L, M)
         /\ M.notices = L.notices /\ M.ack = L.ack /\ M.sequence = L.sequence
         /\ \A t : Sound(L, t) => Sound(M, t)
<1>1. PICK named : named = L.active \cup L.stale \cup {L.notices[i].id : i \in DOMAIN L.notices}
  OBVIOUS
<1>2. PICK items : items = [f \in Findings |-> IF aged /\ f \notin named THEN Unseen ELSE L.items[f]]
  OBVIOUS
<1>3. M = [L EXCEPT !.items = items]
  BY <1>1, <1>2 DEF pruneItemsLocked
<1>4. items \in [Findings -> Item]
  <2>1. Unseen \in Item
    BY EventAssumption DEF Unseen, Item
  <2>2. L.items \in [Findings -> Item]
    BY DEF Ledger
  <2> QED BY <2>1, <2>2, <1>2
<1>5. /\ M.items = items /\ M.notices = L.notices /\ M.floor = L.floor
      /\ M.ack = L.ack /\ M.sequence = L.sequence /\ M.active = L.active
      /\ M.stale = L.stale /\ M.evidence = L.evidence /\ M.lanes = L.lanes /\ M.dimension = L.dimension
  BY <1>3 DEF Ledger
<1>6. M \in Ledger
  <2> HIDE DEF Item, Notice, Evidence, Dimension
  <2> QED BY <1>3, <1>4 DEF Ledger
<1>7. Follows(L, M)
  BY <1>5, <1>6, FollowsAlone
<1>8. ASSUME NEW t, Sound(L, t) PROVE Sound(M, t)
  <2>1. \A f \in L.active \cup L.stale : f \in Findings => M.items[f] = L.items[f]
    BY <1>1, <1>2, <1>5
  <2>2. \A f \in Findings : M.items[f] = L.items[f] \/ (f \notin L.active \cup L.stale /\ M.items[f] = Unseen)
    BY <1>1, <1>2, <1>5
  <2>3. Unseen.status = "none" /\ Unseen.evidence = <<>>
    BY DEF Unseen
  <2>4. L.active \in SUBSET Findings /\ L.stale \in SUBSET Findings
    BY DEF Ledger
  <2>5. MembershipFollowsStatus(M)
    <3>1. ASSUME NEW f \in Findings
          PROVE  /\ f \in M.active <=> M.items[f].status = "current"
                 /\ f \in M.stale <=> M.items[f].status = "stale"
      BY <1>8, <1>5, <2>2, <2>3 DEF Sound, MembershipFollowsStatus
    <3> QED BY <3>1, <2>4, <1>5 DEF MembershipFollowsStatus
  <2>6. EvidenceThere(M)
    <3>1. EvidenceThere(L) /\ IdsOf(M) = IdsOf(L)
      BY <1>8, <1>5 DEF Sound, IdsOf
    <3>2. ToSet(<<>>) = {}
      BY DEF ToSet
    <3>3. \A f \in Findings : ToSet(M.items[f].evidence) \subseteq IdsOf(M)
      BY <3>1, <3>2, <2>2, <2>3, NamedThere
    <3>4. \A k \in Streams : ToSet(M.lanes[k].evidence) \subseteq IdsOf(M)
      BY <3>1, <1>5, NamedThere
    <3> QED BY <3>3, <3>4, NamedThere
  <2>7. WithdrawnBy(M, t)
    BY <1>8, <2>2, <2>3 DEF Sound, WithdrawnBy
  <2>8. Heard(M) = Heard(L) /\ \A k, v : LaneRests(M, k, v) <=> LaneRests(L, k, v)
    BY <1>5 DEF Heard, LaneRests
  <2>9. \A f \in L.stale : \A v : Outdated(M, f, v) <=> Outdated(L, f, v)
    BY <2>1, <2>4 DEF Outdated
  <2>10. DimensionRests(M)
    BY <1>8, <1>5, <2>8, <2>9 DEF Sound, DimensionRests
  <2> QED BY <1>8, <1>5, <1>7, <2>5, <2>6, <2>7, <2>8, <2>10 DEF Sound, Follows
<1> QED BY <1>5, <1>6, <1>7, <1>8 DEF Follows

LEMMA PrunesEvidence ==
  ASSUME NEW L \in Ledger, Numbered(L), NEW aged \in BOOLEAN, NEW keep, NEW M, M = pruneEvidenceLocked(L, aged, keep)
  PROVE  /\ M \in Ledger /\ Numbered(M) /\ Grows(L, M)
         /\ M.notices = L.notices /\ M.ack = L.ack /\ M.sequence = L.sequence
         /\ \A t : Sound(L, t) => Sound(M, t)
<1>1. PICK held : held = {e \in L.evidence : e.id \in Referenced(L) \cup keep \/ ~aged}
  OBVIOUS
<1>2. M = [L EXCEPT !.evidence = held]
  BY <1>1 DEF pruneEvidenceLocked
<1>3. /\ M.evidence = held /\ M.items = L.items /\ M.notices = L.notices /\ M.floor = L.floor
      /\ M.ack = L.ack /\ M.sequence = L.sequence /\ M.active = L.active
      /\ M.stale = L.stale /\ M.lanes = L.lanes /\ M.dimension = L.dimension
  BY <1>2 DEF Ledger
<1>4. M \in Ledger
  <2>1. held \in SUBSET Evidence
    BY <1>1 DEF Ledger
  <2> HIDE DEF Item, Notice, Evidence, Dimension
  <2> QED BY <1>2, <2>1 DEF Ledger
<1>5. held \subseteq L.evidence
  BY <1>1
<1>6. Numbered(M)
  BY <1>3, <1>5 DEF Numbered
<1>7. Grows(L, M)
  <2>1. L.sequence <= M.sequence
    BY <1>3, NoticesTyped
  <2> QED BY <2>1, <1>3, <1>4, GrowsAlone
<1>8. ASSUME NEW t, Sound(L, t) PROVE Sound(M, t)
  <2>1. Referenced(M) = Referenced(L)
    BY <1>3 DEF Referenced
  <2>2. EvidenceThere(M)
    <3>1. EvidenceThere(L)
      BY <1>8 DEF Sound
    <3> QED BY <3>1, <2>1, <1>1, <1>3 DEF EvidenceThere
  <2>3. MembershipFollowsStatus(M) /\ WithdrawnBy(M, t)
    BY <1>8, <1>3 DEF Sound, MembershipFollowsStatus, WithdrawnBy
  <2>4. Heard(M) = Heard(L) /\ \A f, v : Outdated(M, f, v) <=> Outdated(L, f, v)
    BY <1>3 DEF Heard, Outdated
  <2>5. ASSUME NEW k \in Heard(L), NEW v, LaneRests(L, k, v) PROVE LaneRests(M, k, v)
    <3>1. PICK e \in L.evidence : e.id = Last(L.lanes[k].evidence) /\ e.batch.revision = v
      BY <2>5 DEF LaneRests
    <3>2. PICK s : s = L.lanes[k].evidence
      OBVIOUS
    <3>3. s \in Seq(Nat) /\ s # <<>> /\ k \in Streams
      BY <3>2 DEF Heard, Ledger, Dimension
    <3>4. Last(s) \in ToSet(s)
      <4>1. Len(s) \in DOMAIN s
        BY <3>3
      <4> QED BY <4>1 DEF Last, ToSet
    <3>5. e.id \in Referenced(L)
      BY <3>1, <3>2, <3>3, <3>4 DEF Referenced
    <3>6. e \in M.evidence
      BY <3>5, <1>1, <1>3
    <3> QED BY <3>1, <3>6, <1>3 DEF LaneRests
  <2>6. DimensionRests(M)
    <3>1. SUFFICES ASSUME M.dimension = 3, M.stale # {}
                   PROVE  \E v \in 0..MaxVersions : /\ \A k \in Heard(M) : LaneRests(M, k, v)
                                                   /\ \A f \in M.stale : Outdated(M, f, v)
      BY DEF DimensionRests
    <3>2. PICK v \in 0..MaxVersions : /\ \A k \in Heard(L) : LaneRests(L, k, v)
                                      /\ \A f \in L.stale : Outdated(L, f, v)
      BY <3>1, <1>3, <1>8 DEF Sound, DimensionRests
    <3> QED BY <3>2, <2>4, <2>5, <1>3
  <2> QED BY <1>8, <1>3, <1>6, <2>2, <2>3, <2>4, <2>6 DEF Sound
<1> QED BY <1>3, <1>4, <1>6, <1>7, <1>8

LEMMA Prunes ==
  ASSUME NEW L \in Ledger, Numbered(L), NEW aged \in BOOLEAN, NEW keep, NEW M, M = pruneLocked(L, aged, keep)
  PROVE  /\ M \in Ledger /\ Numbered(M) /\ Grows(L, M) /\ Pending(M)
         /\ M.ack = L.ack /\ M.sequence = L.sequence
         /\ \A t : Sound(L, t) => Sound(M, t)
<1>1. PICK A : A = pruneNoticesLocked(L)
  OBVIOUS
<1>2. PICK B : B = pruneItemsLocked(A, aged)
  OBVIOUS
<1>3. M = pruneEvidenceLocked(B, aged, keep)
  BY <1>1, <1>2 DEF pruneLocked
<1>4. /\ A \in Ledger /\ Numbered(A) /\ Grows(L, A) /\ Pending(A)
      /\ A.ack = L.ack /\ A.sequence = L.sequence /\ A.items = L.items /\ A.active = L.active
      /\ A.stale = L.stale /\ A.evidence = L.evidence /\ A.lanes = L.lanes /\ A.dimension = L.dimension
  BY <1>1, PrunesNotices
<1>5. \A t : Sound(L, t) => Sound(A, t)
  <2> SUFFICES ASSUME NEW t, Sound(L, t) PROVE Sound(A, t)
    OBVIOUS
  <2>1. MembershipFollowsStatus(A) /\ WithdrawnBy(A, t)
    BY <1>4 DEF Sound, MembershipFollowsStatus, WithdrawnBy
  <2>2. EvidenceThere(A)
    BY <1>4, ThereToo DEF Sound
  <2>3. /\ Heard(A) = Heard(L) /\ \A f, v : Outdated(A, f, v) <=> Outdated(L, f, v)
        /\ \A k, v : LaneRests(A, k, v) <=> LaneRests(L, k, v)
    BY <1>4 DEF Heard, Outdated, LaneRests
  <2>4. DimensionRests(A)
    BY <2>3, <1>4 DEF Sound, DimensionRests
  <2> QED BY <2>1, <2>2, <2>3, <2>4, <1>4 DEF Sound
<1>6. /\ B \in Ledger /\ Numbered(B) /\ Grows(A, B)
      /\ B.notices = A.notices /\ B.ack = A.ack /\ B.sequence = A.sequence
      /\ \A t : Sound(A, t) => Sound(B, t)
  BY <1>2, <1>4, PrunesItems
<1>7. /\ M \in Ledger /\ Numbered(M) /\ Grows(B, M)
      /\ M.notices = B.notices /\ M.ack = B.ack /\ M.sequence = B.sequence
      /\ \A t : Sound(B, t) => Sound(M, t)
  BY <1>3, <1>6, PrunesEvidence
<1>8. Grows(L, M)
  BY <1>4, <1>6, <1>7, GrowsOn
<1>9. Pending(M)
  BY <1>4, <1>6, <1>7 DEF Pending
<1> QED BY <1>4, <1>5, <1>6, <1>7, <1>8, <1>9

-----------------------------------------------------------------------------
(* The kernel, and the batches made of what it holds. *)

LEMMA VersionIs == Versions \subseteq 0..MaxVersions /\ Versions \subseteq Nat /\ 1 \in Versions /\ 0 \in 0..MaxVersions
                   /\ Versions \ {0} = Versions
BY EventAssumption DEF Versions

(* What was published as complete lists what its stream finds. *)
Listed(K, t) ==
  \A k \in Streams : K.published[k].complete =>
    K.published[k].version \in Versions /\ K.published[k].findings = t[K.published[k].version][k]

LEMMA KernelTyped ==
  ASSUME NEW K \in KernelView, NEW k \in Streams
  PROVE  /\ K.buffer \in Versions /\ K.pending \in 0..MaxVersions
         /\ K.published[k].version \in 0..MaxVersions /\ K.published[k].complete \in BOOLEAN
         /\ K.published[k].findings \in SUBSET Findings
         /\ K.late[k] \in Seq(Observation)
<1>1. K.published[k] \in Publication
  BY DEF KernelView
<1> QED BY <1>1 DEF KernelView, Publication

(* The streams of a set, in their order. *)
Streamed(K) == Kept(StreamOrder, {i \in DOMAIN StreamOrder : StreamOrder[i] \in K})
LEMMA StreamsInOrder ==
  ASSUME NEW K, NEW r, r = Streamed(K)
  PROVE  /\ r \in Seq(Streams) /\ DOMAIN r = 1..Len(r) /\ Len(r) \in Nat
         /\ \A i \in DOMAIN r : r[i] \in Streams /\ r[i] \in K
<1>1. StreamOrder \in Seq(Streams)
  BY DEF StreamOrder, Streams
<1>2. PICK I : I = {i \in DOMAIN StreamOrder : StreamOrder[i] \in K}
  OBVIOUS
<1>3. r \in Seq(Streams) /\ Keeps(StreamOrder, I, r)
  BY <1>1, <1>2, KeptFacts DEF Streamed
<1>4. \A i \in DOMAIN r : r[i] \in K
  BY <1>2, <1>3 DEF Keeps
<1> QED BY <1>3, <1>4

(* A list made of batches. *)
LEMMA ListOfBatches ==
  ASSUME NEW t, NEW n \in Nat, NEW r, DOMAIN r = 1..n, r = [i \in 1..n |-> r[i]], \A i \in 1..n : r[i] \in Batches(t)
  PROVE  r \in Seq(Batches(t))
OBVIOUS

LEMMA BaselineBatches ==
  ASSUME LedgerTypeOK, NEW K, NEW r, r = BatchesOf(baselineBatch, K)
  PROVE  r \in Seq(Batches(truth))
<1>1. PICK s : s = Streamed(K)
  OBVIOUS
<1>2. PICK n \in Nat : n = Len(s) /\ DOMAIN s = 1..n /\ \A i \in 1..n : s[i] \in Streams
  BY <1>1, StreamsInOrder
<1>3. r = [i \in DOMAIN s |-> baselineBatch(s[i])]
  BY <1>1 DEF BatchesOf, Streamed
<1>4. ASSUME NEW k \in Streams PROVE baselineBatch(k) \in Batches(truth)
  <2>1. /\ kernel.buffer \in 0..MaxVersions /\ kernel.published[k].version \in 0..MaxVersions
        /\ kernel.published[k].findings \in SUBSET Findings
    BY KernelTyped, VersionIs DEF LedgerTypeOK
  <2>2. content \in 0..MaxVersions /\ 0 \in 0..MaxVersions
    BY VersionIs DEF LedgerTypeOK
  <2>3. baselineBatch(k) \in Batch /\ baselineBatch(k).baseline = TRUE
    BY <2>1, <2>2 DEF baselineBatch, Batch
  <2> QED BY <2>3 DEF Batches, Proven
<1>5. DOMAIN r = 1..n /\ r = [i \in 1..n |-> r[i]] /\ \A i \in 1..n : r[i] \in Batches(truth)
  <2> HIDE DEF baselineBatch
  <2> QED BY <1>2, <1>3, <1>4
<1> QED BY <1>5, ListOfBatches

LEMMA AppliedIsProven ==
  ASSUME LedgerTypeOK, Listed(kernel, truth), NEW c \in Calls, calls[c].wrote <= MaxVersions, NEW k \in Streams
  PROVE  appliedBatch(c, k) \in Batches(truth)
<1>1. /\ kernel.buffer \in 0..MaxVersions /\ kernel.published[k].version \in 0..MaxVersions
      /\ kernel.published[k].findings \in SUBSET Findings /\ kernel.published[k].complete \in BOOLEAN
  BY KernelTyped, VersionIs DEF LedgerTypeOK
<1>2. calls[c].preEdit \in 0..MaxVersions /\ calls[c].wrote \in 0..MaxVersions
  BY EventAssumption DEF LedgerTypeOK, DiagnosticCall
<1>3. PICK done \in BOOLEAN : done = (kernel.published[k].complete /\ kernel.published[k].version >= kernel.buffer)
  BY <1>1
<1>4. appliedBatch(c, k) = [kind |-> k, version |-> kernel.published[k].version, expected |-> kernel.buffer,
        complete |-> done, baseline |-> FALSE, staged |-> FALSE, revision |-> calls[c].wrote,
        preEdit |-> calls[c].preEdit, findings |-> kernel.published[k].findings]
  BY <1>3 DEF appliedBatch
<1>5. appliedBatch(c, k) \in Batch
  BY <1>1, <1>2, <1>4 DEF Batch
<1>6. Proven(appliedBatch(c, k), truth)
  <2>1. PICK b : b = appliedBatch(c, k)
    OBVIOUS
  <2>2. /\ b.kind = k /\ b.version = kernel.published[k].version /\ b.complete = done
        /\ b.findings = kernel.published[k].findings
    BY <2>1, <1>4
  <2>3. done => kernel.published[k].findings = truth[kernel.published[k].version][k]
    BY <1>3 DEF Listed
  <2> QED BY <2>1, <2>2, <2>3 DEF Proven
<1> QED BY <1>5, <1>6 DEF Batches

LEMMA AppliedBatches ==
  ASSUME LedgerTypeOK, Listed(kernel, truth), NEW c \in Calls, calls[c].wrote <= MaxVersions, NEW K,
         NEW r, r = BatchesOf(LAMBDA k : appliedBatch(c, k), K)
  PROVE  r \in Seq(Batches(truth))
<1>1. PICK s : s = Streamed(K)
  OBVIOUS
<1>2. PICK n \in Nat : n = Len(s) /\ DOMAIN s = 1..n /\ \A i \in 1..n : s[i] \in Streams
  BY <1>1, StreamsInOrder
<1>3. r = [i \in DOMAIN s |-> appliedBatch(c, s[i])]
  BY <1>1 DEF BatchesOf, Streamed
<1>4. DOMAIN r = 1..n /\ r = [i \in 1..n |-> r[i]] /\ \A i \in 1..n : r[i] \in Batches(truth)
  BY <1>2, <1>3, AppliedIsProven
<1> QED BY <1>4, ListOfBatches

LEMMA UncoveredIsProven ==
  ASSUME LedgerTypeOK, Listed(kernel, truth), NEW c \in Calls, calls[c].wrote <= MaxVersions,
         NEW b, b = [appliedBatch(c, "push") EXCEPT !.expected = 0]
  PROVE  b \in Batches(truth)
<1>1. PICK a : a = appliedBatch(c, "push")
  OBVIOUS
<1>2. a \in Batch
  BY <1>1, AppliedIsProven DEF Streams, Batches
<1>3. b = [a EXCEPT !.expected = 0] /\ 0 \in 0..MaxVersions
  BY <1>1, VersionIs
<1>4. b \in Batch /\ b.expected = 0
  BY <1>2, <1>3 DEF Batch
<1>5. ~currentPublication(b)
  BY <1>4 DEF currentPublication
<1> QED BY <1>4, <1>5 DEF Batches, Proven

(* Late observations that are said to be complete are. *)
LEMMA LateIsProven ==
  ASSUME NEW k \in Streams, NEW o \in Observation, NEW quiet \in BOOLEAN
  PROVE  lateBatch(k, o, quiet) \in Batches(truth)
<1>1. /\ o.version \in 0..MaxVersions /\ o.expected \in Versions /\ o.findings \in SUBSET Findings
      /\ o.superseded \in BOOLEAN /\ o.expected \in 0..MaxVersions /\ 0 \in 0..MaxVersions
  BY VersionIs DEF Observation
<1>2. PICK done \in BOOLEAN : done = (quiet /\ MayComplete(k, o))
  OBVIOUS
<1>3. PICK rev \in 0..MaxVersions : rev = IF o.version = 0 THEN 0 ELSE o.expected
  BY <1>1
<1>4. lateBatch(k, o, quiet) = [kind |-> k, version |-> o.version, expected |-> o.expected, complete |-> done,
        baseline |-> FALSE, staged |-> FALSE, revision |-> rev, preEdit |-> 0, findings |-> o.findings]
  BY <1>2, <1>3 DEF lateBatch
<1>5. lateBatch(k, o, quiet) \in Batch
  BY <1>1, <1>4 DEF Batch
<1>6. done => o.findings = truth[o.version][k]
  BY <1>2 DEF MayComplete, publication_complete
<1>7. Proven(lateBatch(k, o, quiet), truth)
  BY <1>4, <1>6 DEF Proven
<1> QED BY <1>5, <1>7 DEF Batches

LEMMA LateBatches ==
  ASSUME LedgerTypeOK, NEW k \in Streams, NEW quiet \in BOOLEAN, NEW r, r = lateBatches(k, quiet)
  PROVE  r \in Seq(Batches(truth))
<1>1. PICK waiting \in Seq(Observation) : waiting = kernel.late[k]
  BY KernelTyped DEF LedgerTypeOK
<1>2. PICK I : I = {i \in CurrentLate(k) : ~kernel.late[k][i].delivered \/ Completes(k, kernel.late[k][i], quiet)}
  OBVIOUS
<1>3. I \in SUBSET DOMAIN waiting
  BY <1>1, <1>2 DEF CurrentLate
<1>4. PICK due : due = DueLate(k, quiet)
  OBVIOUS
<1>5. due = Kept(waiting, I)
  BY <1>1, <1>2, <1>4 DEF DueLate
<1>6. due \in Seq(Observation)
  BY <1>3, <1>5, KeptFacts
<1>7. PICK n \in Nat : n = Len(due) /\ DOMAIN due = 1..n /\ \A i \in 1..n : due[i] \in Observation
  BY <1>6
<1>8. r = [i \in DOMAIN due |-> lateBatch(k, due[i], quiet)]
  BY <1>4 DEF lateBatches
<1>9. DOMAIN r = 1..n /\ r = [i \in 1..n |-> r[i]] /\ \A i \in 1..n : r[i] \in Batches(truth)
  BY <1>7, <1>8, LateIsProven
<1> QED BY <1>9, ListOfBatches

LEMMA LateEvidence ==
  ASSUME LedgerTypeOK, NEW quiet \in BOOLEAN, NEW r, r = late_evidence(quiet)
  PROVE  r \in Seq(Batches(truth))
<1>1. PICK a, b : a = lateBatches("push", quiet) /\ b = lateBatches("pull", quiet)
  OBVIOUS
<1>2. a \in Seq(Batches(truth)) /\ b \in Seq(Batches(truth))
  BY <1>1, LateBatches DEF Streams
<1>3. r = a \o b
  BY <1>1 DEF late_evidence
<1> QED BY <1>2, <1>3, InARow

LEMMA LeftLate ==
  ASSUME LedgerTypeOK, NEW k \in Streams, NEW quiet \in BOOLEAN, NEW r, r = leftLate(k, quiet)
  PROVE  r \in Seq(Observation)
<1>1. PICK waiting \in Seq(Observation) : waiting = kernel.late[k]
  BY KernelTyped DEF LedgerTypeOK
<1>2. PICK I : I = {i \in CurrentLate(k) : /\ ~kernel.late[k][i].superseded
                                           /\ ~Completes(k, kernel.late[k][i], quiet)}
  OBVIOUS
<1>3. I \in SUBSET DOMAIN waiting
  BY <1>1, <1>2 DEF CurrentLate
<1>4. PICK left : left = Kept(waiting, I)
  OBVIOUS
<1>5. left \in Seq(Observation)
  BY <1>3, <1>4, KeptFacts
<1>6. PICK n \in Nat : n = Len(left) /\ DOMAIN left = 1..n /\ \A i \in 1..n : left[i] \in Observation
  BY <1>5
<1>7. r = [i \in DOMAIN left |-> [left[i] EXCEPT !.delivered = TRUE]]
  BY <1>1, <1>2, <1>4 DEF leftLate
<1>8. \A o \in Observation : [o EXCEPT !.delivered = TRUE] \in Observation
  BY DEF Observation
<1>9. r \in [1..n -> Observation]
  <2> HIDE DEF Observation
  <2> QED BY <1>6, <1>7, <1>8
<1> QED BY <1>9

(* The last of a list, and the rest. *)
LEMMA FrontAndLast ==
  ASSUME NEW X, NEW s \in Seq(X), s # <<>>
  PROVE  Front(s) \in Seq(X) /\ Last(s) \in X
<1>1. Len(s) \in Nat /\ Len(s) > 0
  OBVIOUS
<1> QED BY <1>1 DEF Front, Last

LEMMA Captures ==
  ASSUME LedgerTypeOK, NEW k \in Streams, NEW v \in 0..MaxVersions, NEW fs \in SUBSET Findings,
         NEW r, r = capture_late(k, v, fs)
  PROVE  r \in Seq(Observation)
<1>1. PICK waiting \in Seq(Observation) : waiting = kernel.late[k]
  BY KernelTyped DEF LedgerTypeOK
<1>2. CASE r = waiting
  BY <1>2
<1>3. CASE r # waiting
  <2>1. r = queue_late(waiting, v, fs) /\ kernel.pending # 0
    BY <1>1, <1>3 DEF capture_late
  <2>2. PICK o : o = [version |-> v, expected |-> kernel.pending, findings |-> fs,
                      superseded |-> FALSE, delivered |-> FALSE]
    OBVIOUS
  <2>3. o \in Observation
    <3>1. kernel.pending \in 0..MaxVersions
      BY KernelTyped DEF LedgerTypeOK
    <3>2. kernel.pending \in Versions
      BY <3>1, <2>1 DEF Versions
    <3> QED BY <3>2, <2>2 DEF Observation
  <2>4. PICK s : s = Superseded(waiting)
    OBVIOUS
  <2>5. s \in Seq(Observation)
    <3>1. CASE waiting = <<>>
      BY <3>1, <2>4 DEF Superseded
    <3>2. CASE waiting # <<>>
      <4>1. PICK f, l : f = Front(waiting) /\ l = Last(waiting)
        OBVIOUS
      <4>2. f \in Seq(Observation) /\ l \in Observation
        BY <4>1, <3>2, <1>1, FrontAndLast
      <4>3. PICK m : m = [l EXCEPT !.superseded = TRUE]
        OBVIOUS
      <4>4. m \in Observation
        BY <4>2, <4>3 DEF Observation
      <4>5. s = f \/ s = Append(f, m)
        BY <2>4, <3>2, <4>1, <4>3 DEF Superseded
      <4> HIDE DEF Observation
      <4> QED BY <4>2, <4>4, <4>5
    <3> QED BY <3>1, <3>2
  <2>6. r = Append(s, o)
    BY <2>1, <2>2, <2>4 DEF queue_late
  <2> HIDE DEF Observation
  <2> QED BY <2>3, <2>5, <2>6
<1> QED BY <1>2, <1>3

(* Coalescing keeps what batches prove: of one it doubts it takes the proof away. *)
LEMMA Coalesces ==
  ASSUME NEW t, NEW out \in Seq(Batches(t)), NEW b \in Batches(t), NEW r, r = coalesced(out, b)
  PROVE  r \in Seq(Batches(t))
<1>1. CASE r = out
  BY <1>1
<1>2. CASE r = Append(out, b)
  BY <1>2
<1>3. CASE r # out /\ r # Append(out, b)
  <2>1. out # <<>> /\ \/ r = Append(Front(out), b)
                      \/ r = Front(out) \o <<[Last(out) EXCEPT !.complete = FALSE], b>>
    BY <1>3 DEF coalesced
  <2>2. PICK f, l : f = Front(out) /\ l = Last(out)
    OBVIOUS
  <2>3. f \in Seq(Batches(t)) /\ l \in Batches(t)
    BY <2>1, <2>2, FrontAndLast
  <2>4. PICK m : m = [l EXCEPT !.complete = FALSE]
    OBVIOUS
  <2>5. m \in Batches(t)
    <3>1. m \in Batch /\ m.complete = FALSE
      BY <2>3, <2>4 DEF Batches, Batch
    <3> QED BY <3>1 DEF Batches, Proven
  <2>6. PICK two : two = <<m, b>>
    OBVIOUS
  <2>7. two \in Seq(Batches(t))
    BY <2>5, <2>6
  <2>8. CASE r = Append(f, b)
    BY <2>8, <2>3
  <2>9. CASE r = f \o two
    BY <2>9, <2>3, <2>7, InARow
  <2> QED BY <2>1, <2>2, <2>4, <2>6, <2>8, <2>9
<1> QED BY <1>1, <1>2, <1>3

Folded(f, batches, n) == f = [i \in 0..n |-> IF i = 0 THEN <<>> ELSE coalesced(f[i - 1], batches[i])]
LEMMA FoldsSome ==
  ASSUME NEW batches, NEW n \in Nat
  PROVE  \E f : Folded(f, batches, n)
<1> DEFINE S == {m \in Nat : \E f : Folded(f, batches, m)}
<1>1. 0 \in S
  <2>1. PICK f : f = [i \in 0..0 |-> <<>>]
    OBVIOUS
  <2>2. f = [i \in 0..0 |-> IF i = 0 THEN <<>> ELSE coalesced(f[i - 1], batches[i])]
    BY <2>1
  <2> QED BY <2>2 DEF Folded
<1>2. ASSUME NEW m \in Nat, m \in S PROVE m + 1 \in S
  <2>1. PICK f : Folded(f, batches, m)
    BY <1>2
  <2>2. PICK g : g = [i \in 0..(m + 1) |-> IF i = m + 1 THEN coalesced(f[m], batches[m + 1]) ELSE f[i]]
    OBVIOUS
  <2>3. DOMAIN f = 0..m /\ \A i \in 0..m : f[i] = IF i = 0 THEN <<>> ELSE coalesced(f[i - 1], batches[i])
    BY <2>1 DEF Folded
  <2>4. ASSUME NEW i \in 0..(m + 1) PROVE g[i] = IF i = 0 THEN <<>> ELSE coalesced(g[i - 1], batches[i])
    <3>1. CASE i = m + 1
      <4>1. i # 0 /\ i - 1 = m /\ m \in 0..(m + 1) /\ m # m + 1
        BY <3>1
      <4>2. g[i] = coalesced(f[m], batches[m + 1]) /\ g[i - 1] = f[m]
        BY <3>1, <4>1, <2>2
      <4> QED BY <4>1, <4>2, <3>1
    <3>2. CASE i # m + 1
      <4>1. i \in 0..m /\ g[i] = f[i]
        BY <3>2, <2>2
      <4>2. CASE i = 0
        BY <4>1, <4>2, <2>3
      <4>3. CASE i # 0
        <5>1. i - 1 \in 0..m /\ i - 1 \in 0..(m + 1) /\ i - 1 # m + 1
          BY <4>1, <4>3
        <5>2. g[i - 1] = f[i - 1]
          BY <5>1, <2>2
        <5> QED BY <5>2, <4>1, <4>3, <2>3
      <4> QED BY <4>2, <4>3
    <3> QED BY <3>1, <3>2
  <2>5. g = [i \in 0..(m + 1) |-> IF i = 0 THEN <<>> ELSE coalesced(g[i - 1], batches[i])]
    <3>1. g = [i \in 0..(m + 1) |-> g[i]]
      BY <2>2
    <3> QED BY <3>1, <2>4
  <2>6. Folded(g, batches, m + 1)
    BY <2>5 DEF Folded
  <2> QED BY <2>6
<1>3. \A m \in Nat : m \in S
  <2> HIDE DEF S
  <2> QED BY <1>1, <1>2, NaturalsIn
<1> QED BY <1>3

LEMMA CoalescesAll ==
  ASSUME NEW t, NEW batches \in Seq(Batches(t)), NEW r, r = coalesce(batches)
  PROVE  r \in Seq(Batches(t))
<1>1. PICK n \in Nat : n = Len(batches)
  OBVIOUS
<1>2. DOMAIN batches = 1..n /\ \A i \in 1..n : batches[i] \in Batches(t)
  BY <1>1
<1> DEFINE f == CHOOSE g : Folded(g, batches, n)
<1>3. Folded(f, batches, n)
  BY FoldsSome
<1>4. r = f[n]
  BY <1>1 DEF coalesce, Folded
<1> HIDE DEF f
<1>5. \A i \in 0..n : f[i] = IF i = 0 THEN <<>> ELSE coalesced(f[i - 1], batches[i])
  BY <1>3 DEF Folded
<1> DEFINE S == {m \in Nat : m <= n => f[m] \in Seq(Batches(t))}
<1>6. 0 \in S
  <2>1. f[0] = <<>>
    BY <1>5
  <2>2. <<>> \in Seq(Batches(t))
    OBVIOUS
  <2>3. f[0] \in Seq(Batches(t))
    BY <2>1, <2>2
  <2> QED BY <2>3
<1>7. ASSUME NEW m \in Nat, m \in S PROVE m + 1 \in S
  <2> SUFFICES ASSUME m + 1 <= n PROVE f[m + 1] \in Seq(Batches(t))
    OBVIOUS
  <2>1. f[m] \in Seq(Batches(t)) /\ m + 1 \in 1..n /\ m + 1 \in 0..n /\ m + 1 # 0 /\ (m + 1) - 1 = m
    BY <1>7
  <2>2. f[m + 1] = coalesced(f[m], batches[m + 1])
    BY <2>1, <1>5
  <2> QED BY <2>1, <2>2, <1>2, Coalesces
<1>8. \A m \in Nat : m \in S
  <2> HIDE DEF S
  <2> QED BY <1>6, <1>7, NaturalsIn
<1> QED BY <1>4, <1>8

-----------------------------------------------------------------------------
(* Clients, calls and the notices they were shown. *)

ClientViews == [Clients -> [since : Nat, seen : SUBSET Nat, head : Nat]]
Deliveries == [order : Seq(Clients), cursors : [Clients -> Nat]]

Reaches(L, cl, de) ==
  \A s \in ToSet(de.order) : \A i \in DOMAIN L.notices :
    cl[s].head < L.notices[i].seq /\ L.notices[i].seq <= de.cursors[s] => L.notices[i].seq \in cl[s].seen
ClientHolds(s, L, S, cl, de) ==
  /\ cl[s].since <= S.sequence /\ cl[s].head <= HeadOf(L) /\ de.cursors[s] <= L.sequence
  /\ s \notin ToSet(de.order) => de.cursors[s] = 0
PageReaches(a, L, cl) ==
  \A m \in DOMAIN a.page :
    /\ a.page[m].seq <= L.sequence
    /\ \A i \in DOMAIN L.notices :
         cl[a.by].head < L.notices[i].seq /\ L.notices[i].seq <= a.page[m].seq =>
           L.notices[i].seq \in cl[a.by].seen \cup Seqs(a.page)
CallHolds(a, L, cl, t) ==
  /\ a.pc # "idle" => a.by \in Clients
  /\ a.batches \in Seq(Batches(t))
  /\ a.pc # "acknowledge" => a.wrote <= MaxVersions
  /\ a.pc = "acknowledge" => a.wrote <= L.ack
  /\ a.pc = "page" => PageReaches(a, L, cl)

(* What the ledger and the clients have of each other. *)
Held ==
  /\ ledger \in Ledger /\ Sound(ledger, truth) /\ Pending(ledger)
  /\ saved \in Ledger /\ Sound(saved, truth) /\ Pending(saved) /\ saved.sequence <= ledger.sequence
  /\ client \in ClientViews /\ delivery \in Deliveries
  /\ \A s \in Clients : ClientHolds(s, ledger, saved, client, delivery)
  /\ Reaches(ledger, client, delivery)

(* The inductive invariant. *)
LedgerInv ==
  /\ LedgerTypeOK /\ Held /\ Listed(kernel, truth)
  /\ \A c \in Calls : CallHolds(calls[c], ledger, client, truth)

LEMMA PageTyped ==
  ASSUME NEW a \in DiagnosticCall, NEW m \in DOMAIN a.page
  PROVE  a.page \in Seq(Notice) /\ a.page[m] \in Notice /\ a.page[m].seq \in Nat
<1>1. PICK s : s = a.page
  OBVIOUS
<1>2. s \in Seq(Notice)
  BY <1>1 DEF DiagnosticCall
<1>3. s[m] \in Notice
  BY <1>1, <1>2
<1>4. \A n \in Notice : n.seq \in Nat
  BY DEF Notice
<1> QED BY <1>1, <1>2, <1>3, <1>4

LEMMA ClientTyped ==
  ASSUME NEW cl \in ClientViews, NEW s \in Clients
  PROVE  cl[s].since \in Nat /\ cl[s].head \in Nat /\ cl[s].seen \in SUBSET Nat
<1>1. cl[s] \in [since : Nat, seen : SUBSET Nat, head : Nat]
  BY DEF ClientViews
<1> QED BY <1>1

(* A ledger that grows takes nothing back, and clients that see more lose nothing. *)
LEMMA ReachesOn ==
  ASSUME NEW L \in Ledger, NEW M \in Ledger, NEW S \in Ledger, Grows(L, M), NEW cl \in ClientViews,
         NEW de \in Deliveries, \A s \in Clients : ClientHolds(s, L, S, cl, de), Reaches(L, cl, de)
  PROVE  Reaches(M, cl, de)
<1> SUFFICES ASSUME NEW s \in ToSet(de.order), NEW j \in DOMAIN M.notices,
                    cl[s].head < M.notices[j].seq, M.notices[j].seq <= de.cursors[s]
             PROVE  M.notices[j].seq \in cl[s].seen
  BY DEF Reaches
<1>1. s \in Clients
  <2>1. PICK o \in Seq(Clients) : o = de.order
    BY DEF Deliveries
  <2> QED BY <2>1 DEF ToSet
<1>2. de.cursors[s] \in Nat /\ de.cursors[s] <= L.sequence /\ L.sequence \in Nat /\ M.notices[j].seq \in Nat
  BY <1>1, NoticesTyped DEF ClientHolds, Deliveries
<1>3. ~(L.sequence < M.notices[j].seq)
  BY <1>2
<1>4. PICK i \in DOMAIN L.notices : L.notices[i].seq = M.notices[j].seq
  BY <1>3 DEF Grows
<1> QED BY <1>4 DEF Reaches

LEMMA ClientHoldsOn ==
  ASSUME NEW L \in Ledger, NEW M \in Ledger, NEW S \in Ledger, NEW T \in Ledger, Grows(L, M),
         S.sequence <= T.sequence, NEW cl \in ClientViews, NEW de \in Deliveries, NEW s \in Clients,
         ClientHolds(s, L, S, cl, de)
  PROVE  ClientHolds(s, M, T, cl, de)
<1>1. /\ cl[s].since \in Nat /\ cl[s].head \in Nat /\ de.cursors[s] \in Nat
      /\ L.sequence \in Nat /\ M.sequence \in Nat /\ S.sequence \in Nat /\ T.sequence \in Nat
      /\ HeadOf(L) \in Nat /\ HeadOf(M) \in Nat
  BY ClientTyped, NoticesTyped DEF Deliveries
<1> QED BY <1>1 DEF ClientHolds, Grows

LEMMA CallHoldsOn ==
  ASSUME NEW L \in Ledger, NEW M \in Ledger, Grows(L, M), NEW t, NEW cl \in ClientViews, NEW cm \in ClientViews,
         \A s \in Clients : cl[s].head <= cm[s].head /\ cl[s].seen \subseteq cm[s].seen,
         NEW a \in DiagnosticCall, CallHolds(a, L, cl, t)
  PROVE  CallHolds(a, M, cm, t)
<1>1. a.wrote \in Nat /\ L.ack \in Nat /\ M.ack \in Nat /\ L.ack <= M.ack /\ L.sequence \in Nat
      /\ M.sequence \in Nat /\ L.sequence <= M.sequence
  BY NoticesTyped DEF DiagnosticCall, Grows
<1>2. a.pc = "acknowledge" => a.wrote <= M.ack
  BY <1>1 DEF CallHolds
<1>3. ASSUME a.pc = "page" PROVE PageReaches(a, M, cm)
  <2>1. a.by \in Clients /\ PageReaches(a, L, cl)
    BY <1>3 DEF CallHolds
  <2> SUFFICES ASSUME NEW m \in DOMAIN a.page
               PROVE  /\ a.page[m].seq <= M.sequence
                      /\ \A j \in DOMAIN M.notices :
                           cm[a.by].head < M.notices[j].seq /\ M.notices[j].seq <= a.page[m].seq =>
                             M.notices[j].seq \in cm[a.by].seen \cup Seqs(a.page)
    BY DEF PageReaches
  <2>2. a.page[m].seq \in Nat /\ a.page[m].seq <= L.sequence
    BY <2>1, PageTyped DEF PageReaches
  <2>3. ASSUME NEW j \in DOMAIN M.notices, cm[a.by].head < M.notices[j].seq, M.notices[j].seq <= a.page[m].seq
        PROVE  M.notices[j].seq \in cm[a.by].seen \cup Seqs(a.page)
    <3>1. M.notices[j].seq \in Nat /\ cl[a.by].head \in Nat /\ cm[a.by].head \in Nat
      BY <2>1, NoticesTyped, ClientTyped
    <3>2. ~(L.sequence < M.notices[j].seq)
      BY <3>1, <2>2, <2>3, <1>1
    <3>3. PICK i \in DOMAIN L.notices : L.notices[i].seq = M.notices[j].seq
      BY <3>2 DEF Grows
    <3>4. cl[a.by].head < L.notices[i].seq
      BY <3>1, <3>3, <2>1, <2>3
    <3>5. L.notices[i].seq \in cl[a.by].seen \cup Seqs(a.page)
      BY <3>3, <3>4, <2>1, <2>3 DEF PageReaches
    <3> QED BY <3>3, <3>5, <2>1
  <2> QED BY <2>2, <2>3, <1>1
<1> QED BY <1>2, <1>3 DEF CallHolds

LEMMA GrowsItself ==
  ASSUME NEW L \in Ledger
  PROVE  Grows(L, L)
<1>1. L.sequence <= L.sequence
  BY NoticesTyped
<1> QED BY <1>1, GrowsAlone

(* What a step carries over. *)
Carries ==
  /\ Held'
  /\ \A a \in DiagnosticCall : CallHolds(a, ledger, client, truth) => CallHolds(a, ledger', client', truth')

(* The ledger moves under clients that stand still. *)
LEMMA LedgerMoves ==
  ASSUME Held, truth' = truth, UNCHANGED <<client, delivery>>, ledger' \in Ledger, Sound(ledger', truth),
         Pending(ledger'), Grows(ledger, ledger'), saved' \in {saved, ledger'}
  PROVE  Carries
<1>1. /\ ledger \in Ledger /\ saved \in Ledger /\ saved.sequence <= ledger.sequence
      /\ client \in ClientViews /\ delivery \in Deliveries
  BY DEF Held
<1>2. ledger.sequence <= ledger'.sequence
  BY DEF Grows
<1>3. /\ saved' \in Ledger /\ Sound(saved', truth) /\ Pending(saved') /\ saved'.sequence <= ledger'.sequence
      /\ saved.sequence <= saved'.sequence
  <2>1. saved.sequence \in Nat /\ ledger.sequence \in Nat /\ ledger'.sequence \in Nat
    BY <1>1, NoticesTyped
  <2> QED BY <2>1, <1>1, <1>2 DEF Held
<1>4. \A s \in Clients : ClientHolds(s, ledger', saved', client, delivery)
  BY <1>1, <1>3, ClientHoldsOn DEF Held
<1>5. Reaches(ledger', client, delivery)
  BY <1>1, ReachesOn DEF Held
<1>6. Held'
  BY <1>1, <1>3, <1>4, <1>5 DEF Held
<1>7. ASSUME NEW a \in DiagnosticCall, CallHolds(a, ledger, client, truth)
      PROVE  CallHolds(a, ledger', client', truth')
  <2>1. \A s \in Clients : client[s].head <= client[s].head /\ client[s].seen \subseteq client[s].seen
    BY <1>1, ClientTyped
  <2> QED BY <2>1, <1>1, <1>7, CallHoldsOn
<1> QED BY <1>6, <1>7 DEF Carries

LEMMA NothingMoves ==
  ASSUME Held, UNCHANGED <<truth, ledger, saved, client, delivery>>
  PROVE  Carries
<1>1. ledger' \in Ledger /\ Sound(ledger', truth) /\ Pending(ledger') /\ Grows(ledger, ledger')
  BY GrowsItself DEF Held
<1> QED BY <1>1, LedgerMoves

(* A table of clients that has room for a newcomer, who comes last. *)
LEMMA Tracks ==
  ASSUME delivery \in Deliveries, \A c \in Clients : c \notin ToSet(delivery.order) => delivery.cursors[c] = 0,
         NEW s \in Clients, NEW D, D = track(s)
  PROVE  /\ D \in Deliveries /\ s \in ToSet(D.order)
         /\ \A c \in Clients : /\ c \in ToSet(D.order) => c = s \/ c \in ToSet(delivery.order)
                               /\ D.cursors[c] = IF c \in ToSet(D.order) THEN delivery.cursors[c] ELSE 0
<1>1. PICK o : o = delivery.order
  OBVIOUS
<1>2. o \in Seq(Clients) /\ delivery.cursors \in [Clients -> Nat]
  BY <1>1 DEF Deliveries
<1>3. Registered(s) <=> s \in ToSet(o)
  BY <1>1 DEF Registered, ToSet
<1>4. CASE Registered(s)
  <2>1. D = delivery
    BY <1>4 DEF track
  <2> QED BY <2>1, <1>1, <1>2, <1>3, <1>4
<1>5. CASE ~Registered(s)
  <2>1. PICK u : u = Append(o, s)
    OBVIOUS
  <2>2. PICK n \in Nat : n = Len(o)
    BY <1>2
  <2>3. u \in Seq(Clients) /\ Len(u) = n + 1 /\ u # <<>> /\ u[n + 1] = s /\ \A i \in 1..n : u[i] = o[i]
    BY <1>2, <2>1, <2>2
  <2>4. PICK k : k = Newest(u, ClientCap)
    OBVIOUS
  <2>5. k \in Seq(Clients) /\ k # <<>> /\ Last(k) = Last(u) /\ Drops(u, k)
    <3>1. ClientCap \in Nat \ {0}
      BY Capped
    <3> QED BY <3>1, <2>3, <2>4, NewestFacts
  <2>6. D = [order |-> k, cursors |-> [c \in Clients |-> IF c \in ToSet(k) THEN delivery.cursors[c] ELSE 0]]
    BY <1>1, <1>5, <2>1, <2>4 DEF track
  <2>7. /\ D.order = k /\ D.cursors \in [Clients -> Nat]
        /\ \A c \in Clients : D.cursors[c] = IF c \in ToSet(D.order) THEN delivery.cursors[c] ELSE 0
    BY <2>6, <1>2
  <2>8. D \in Deliveries
    <3>1. D = [order |-> D.order, cursors |-> D.cursors]
      BY <2>6
    <3> QED BY <3>1, <2>5, <2>7 DEF Deliveries
  <2>9. s \in ToSet(k)
    <3>1. Last(u) = s
      BY <2>3 DEF Last
    <3>2. Len(k) \in DOMAIN k
      BY <2>5
    <3> QED BY <3>1, <3>2, <2>5 DEF Last, ToSet
  <2>10. ASSUME NEW c \in ToSet(k) PROVE c = s \/ c \in ToSet(o)
    <3>1. PICK i \in DOMAIN k : c = k[i]
      BY DEF ToSet
    <3>2. PICK off \in Nat : Len(u) = Len(k) + off /\ \A j \in DOMAIN k : k[j] = u[j + off]
      BY <2>5 DEF Drops
    <3>3. i + off \in 1..(n + 1) /\ c = u[i + off]
      <4>1. i \in 1..Len(k) /\ Len(k) \in Nat
        BY <2>5
      <4> QED BY <4>1, <3>1, <3>2, <2>3
    <3>4. CASE i + off = n + 1
      BY <3>3, <3>4, <2>3
    <3>5. CASE i + off # n + 1
      <4>1. i + off \in 1..n /\ i + off \in DOMAIN o
        BY <3>3, <3>5, <2>2, <1>2
      <4> QED BY <4>1, <3>3, <2>3 DEF ToSet
    <3> QED BY <3>4, <3>5
  <2> QED BY <2>7, <2>8, <2>9, <2>10, <1>1
<1> QED BY <1>4, <1>5

(* A cursor moves over what its client was shown. *)
LEMMA CursorMoves ==
  ASSUME Held, UNCHANGED <<truth, ledger, saved>>, NEW s \in Clients, NEW n \in Nat, n <= ledger.sequence,
         delivery' = [track(s) EXCEPT !.cursors[s] = n], client' \in ClientViews,
         \A c \in Clients \ {s} : client'[c] = client[c],
         client'[s].since = client[s].since, client[s].head <= client'[s].head,
         client'[s].head <= HeadOf(ledger), client[s].seen \subseteq client'[s].seen,
         \A i \in DOMAIN ledger.notices :
           client'[s].head < ledger.notices[i].seq /\ ledger.notices[i].seq <= n =>
             ledger.notices[i].seq \in client'[s].seen
  PROVE  Carries
<1>1. /\ ledger \in Ledger /\ saved \in Ledger /\ client \in ClientViews /\ delivery \in Deliveries
      /\ \A c \in Clients : ClientHolds(c, ledger, saved, client, delivery)
      /\ Reaches(ledger, client, delivery)
  BY DEF Held
<1>2. PICK D : D = track(s)
  OBVIOUS
<1>3. /\ D \in Deliveries /\ s \in ToSet(D.order)
      /\ \A c \in Clients : /\ c \in ToSet(D.order) => c = s \/ c \in ToSet(delivery.order)
                            /\ D.cursors[c] = IF c \in ToSet(D.order) THEN delivery.cursors[c] ELSE 0
  <2>1. \A c \in Clients : c \notin ToSet(delivery.order) => delivery.cursors[c] = 0
    BY <1>1 DEF ClientHolds
  <2> QED BY <2>1, <1>1, <1>2, Tracks
<1>4. delivery' = [D EXCEPT !.cursors[s] = n]
  BY <1>2
<1>5. /\ delivery' \in Deliveries /\ delivery'.order = D.order /\ delivery'.cursors[s] = n
      /\ \A c \in Clients \ {s} : delivery'.cursors[c] = D.cursors[c]
  <2>1. PICK o, k : o = D.order /\ k = D.cursors
    OBVIOUS
  <2>2. o \in Seq(Clients) /\ k \in [Clients -> Nat] /\ D = [order |-> o, cursors |-> k]
    BY <2>1, <1>3 DEF Deliveries
  <2>3. delivery' = [order |-> o, cursors |-> [k EXCEPT ![s] = n]]
    BY <2>2, <1>4
  <2>4. PICK l : l = [k EXCEPT ![s] = n]
    OBVIOUS
  <2>5. l \in [Clients -> Nat] /\ l[s] = n /\ \A c \in Clients \ {s} : l[c] = k[c]
    BY <2>2, <2>4
  <2>6. delivery' = [order |-> o, cursors |-> l]
    BY <2>3, <2>4
  <2>7. delivery'.order = o /\ delivery'.cursors = l
    BY <2>6
  <2>8. delivery' \in Deliveries
    <3>1. o \in Seq(Clients) /\ l \in [Clients -> Nat]
      BY <2>2, <2>5
    <3>2. [order |-> o, cursors |-> l] \in Deliveries
      BY <3>1 DEF Deliveries
    <3> QED BY <3>2, <2>6
  <2> QED BY <2>1, <2>5, <2>7, <2>8
<1>6. ASSUME NEW c \in Clients PROVE ClientHolds(c, ledger, saved, client', delivery')
  <2>1. CASE c = s
    <3>1. client'[s].since <= saved.sequence
      BY <1>1 DEF ClientHolds
    <3> QED BY <3>1, <2>1, <1>3, <1>5 DEF ClientHolds
  <2>2. CASE c # s
    <3>1. client'[c] = client[c] /\ delivery'.cursors[c] = D.cursors[c] /\ ClientHolds(c, ledger, saved, client, delivery)
      BY <2>2, <1>1, <1>5
    <3>2. D.cursors[c] = delivery.cursors[c] \/ D.cursors[c] = 0
      BY <1>3
    <3>3. D.cursors[c] <= ledger.sequence
      BY <3>1, <3>2, <1>1, NoticesTyped DEF ClientHolds
    <3>4. c \notin ToSet(D.order) => D.cursors[c] = 0
      BY <1>3
    <3> QED BY <3>1, <3>3, <3>4, <1>5 DEF ClientHolds
  <2> QED BY <2>1, <2>2
<1>7. Reaches(ledger, client', delivery')
  <2> SUFFICES ASSUME NEW c \in ToSet(delivery'.order), NEW i \in DOMAIN ledger.notices,
                      client'[c].head < ledger.notices[i].seq, ledger.notices[i].seq <= delivery'.cursors[c]
               PROVE  ledger.notices[i].seq \in client'[c].seen
    BY DEF Reaches
  <2>1. CASE c = s
    BY <2>1, <1>5
  <2>2. CASE c # s
    <3>1. c \in ToSet(D.order) /\ c \in Clients
      <4>1. PICK o \in Seq(Clients) : o = D.order
        BY <1>3 DEF Deliveries
      <4> QED BY <4>1, <1>5 DEF ToSet
    <3>2. c \in ToSet(delivery.order) /\ delivery'.cursors[c] = delivery.cursors[c] /\ client'[c] = client[c]
      BY <3>1, <2>2, <1>3, <1>5
    <3> QED BY <3>2, <1>1 DEF Reaches
  <2> QED BY <2>1, <2>2
<1>8. Held'
  BY <1>5, <1>6, <1>7 DEF Held
<1>9. ASSUME NEW a \in DiagnosticCall, CallHolds(a, ledger, client, truth)
      PROVE  CallHolds(a, ledger', client', truth')
  <2>1. \A c \in Clients : client[c].head <= client'[c].head /\ client[c].seen \subseteq client'[c].seen
    <3>1. \A c \in Clients : client[c].head \in Nat
      BY <1>1, ClientTyped
    <3> QED BY <3>1
  <2>2. Grows(ledger, ledger)
    BY <1>1, GrowsItself
  <2>3. CallHolds(a, ledger, client', truth)
    BY <2>1, <2>2, <1>1, <1>9, CallHoldsOn
  <2> QED BY <2>3
<1> QED BY <1>8, <1>9 DEF Carries

(* recordCursor never moves a cursor back. *)
LEMMA CursorRecorded ==
  ASSUME Held, NEW s \in Clients, NEW n \in Nat, recordCursor(s, n)
  PROVE  /\ delivery' = [track(s) EXCEPT !.cursors[s] = Larger(delivery.cursors[s], n)]
         /\ delivery.cursors[s] \in Nat /\ Larger(delivery.cursors[s], n) \in {n, delivery.cursors[s]}
         /\ s \in ToSet(delivery.order) \/ delivery.cursors[s] = 0
<1>1. delivery \in Deliveries /\ \A c \in Clients : ClientHolds(c, ledger, saved, client, delivery)
  BY DEF Held
<1>2. \A c \in Clients : c \notin ToSet(delivery.order) => delivery.cursors[c] = 0
  BY <1>1 DEF ClientHolds
<1>3. PICK D : D = track(s)
  OBVIOUS
<1>4. D.cursors[s] = delivery.cursors[s]
  BY <1>1, <1>2, <1>3, Tracks
<1>5. delivery' = [D EXCEPT !.cursors[s] = Larger(D.cursors[s], n)]
  BY <1>3 DEF recordCursor
<1>6. delivery.cursors[s] \in Nat
  BY <1>1 DEF Deliveries
<1> QED BY <1>2, <1>3, <1>4, <1>5, <1>6 DEF Larger

(* Batches are recorded, or nothing is. *)
LEMMA RecordsBatches ==
  ASSUME LedgerTypeOK, Held, NEW batches \in Seq(Batches(truth)), recordBatches(batches),
         UNCHANGED <<truth, client, delivery>>
  PROVE  Carries /\ events' \in Nat
<1>1. /\ ledger \in Ledger /\ Sound(ledger, truth) /\ Pending(ledger)
  BY DEF Held
<1>2. CASE \E aged \in BOOLEAN :
             /\ ledger' = prunedRecord(recordEach(ledger, batches), aged)
             /\ saved' = ledger' /\ UNCHANGED events
  <2>1. PICK aged \in BOOLEAN : ledger' = prunedRecord(recordEach(ledger, batches), aged)
    BY <1>2
  <2>2. PICK M : M = recordEach(ledger, batches)
    OBVIOUS
  <2>3. Follows(ledger, M) /\ Sound(M, truth)
    BY <2>2, <1>1, RecordsEach
  <2>4. M \in Ledger /\ Numbered(M) /\ Grows(ledger, M)
    BY <2>3 DEF Follows
  <2>5. PICK keep : keep = IdsAfter(M, ledger.sequence)
    OBVIOUS
  <2>6. ledger' = pruneLocked(M, aged, keep)
    BY <2>1, <2>2, <2>5 DEF prunedRecord
  <2>7. ledger' \in Ledger /\ Grows(M, ledger') /\ Pending(ledger') /\ Sound(ledger', truth)
    BY <2>3, <2>4, <2>6, Prunes
  <2>8. Grows(ledger, ledger')
    BY <2>4, <2>7, <1>1, GrowsOn
  <2>9. Carries
    BY <2>7, <2>8, <1>2, LedgerMoves
  <2> QED BY <2>9, <1>2 DEF LedgerTypeOK
<1>3. CASE Event /\ UNCHANGED <<ledger, saved>>
  BY <1>3, NothingMoves DEF Event, LedgerTypeOK
<1> QED BY <1>2, <1>3 DEF recordBatches

(* Content changes, and the ledger notes it. *)
LEMMA NotesChange ==
  ASSUME LedgerTypeOK, Held, NEW v \in 0..MaxVersions, documentChanged(v), UNCHANGED <<truth, client, delivery>>
  PROVE  Carries /\ events' \in Nat
<1>1. /\ ledger \in Ledger /\ Sound(ledger, truth) /\ Pending(ledger)
  BY DEF Held
<1>2. CASE UNCHANGED <<ledger, saved, events>>
  BY <1>2, NothingMoves DEF LedgerTypeOK
<1>3. CASE /\ ledger' = documentChangedLocked(ledger, v)
           /\ \/ saved' = ledger' /\ UNCHANGED events
              \/ Event /\ UNCHANGED saved
  <2>1. Follows(ledger, ledger') /\ Sound(ledger', truth)
    BY <1>1, <1>3, DocumentChanges
  <2>2. ledger' \in Ledger /\ Grows(ledger, ledger') /\ ledger'.ack = ledger.ack
    BY <2>1 DEF Follows
  <2>3. Pending(ledger')
    <3> SUFFICES ASSUME NEW j \in DOMAIN ledger'.notices PROVE ledger'.ack < ledger'.notices[j].seq
      BY DEF Pending
    <3>1. CASE ledger.sequence < ledger'.notices[j].seq
      <4>1. ledger.ack <= ledger.sequence
        BY <1>1 DEF Sound, Numbered
      <4>2. ledger.ack \in Nat /\ ledger.sequence \in Nat /\ ledger'.notices[j].seq \in Nat
        BY <1>1, <2>2, NoticesTyped
      <4> QED BY <4>1, <4>2, <3>1, <2>2
    <3>2. CASE \E i \in DOMAIN ledger.notices : ledger.notices[i].seq = ledger'.notices[j].seq
      BY <3>2, <2>2, <1>1 DEF Pending
    <3> QED BY <3>1, <3>2, <2>2 DEF Grows
  <2>4. Carries
    BY <2>1, <2>2, <2>3, <1>3, LedgerMoves
  <2> QED BY <2>4, <1>3 DEF LedgerTypeOK, Event
<1> QED BY <1>2, <1>3 DEF documentChanged

-----------------------------------------------------------------------------
(* The steps. *)

(* A step that carries all of it over, and is typed. *)
LEMMA Assembles ==
  ASSUME LedgerInv, Carries, UNCHANGED truth, content' \in Versions, known' \in 0..MaxVersions,
         kernel' \in KernelView, Listed(kernel', truth), calls' \in [Calls -> DiagnosticCall], events' \in Nat,
         \A c \in Calls : CallHolds(calls'[c], ledger', client', truth')
  PROVE  LedgerInv'
<1>1. Held'
  BY DEF Carries
<1>2. ledger' \in Ledger /\ saved' \in Ledger /\ client' \in ClientViews /\ delivery' \in Deliveries
  BY <1>1 DEF Held
<1>3. truth' \in Analyses
  BY DEF LedgerInv, LedgerTypeOK
<1>4. LedgerTypeOK'
  BY <1>2, <1>3 DEF LedgerTypeOK, ClientViews, Deliveries
<1>5. Listed(kernel, truth)'
  OBVIOUS
<1> QED BY <1>1, <1>4, <1>5 DEF LedgerInv

(* The other calls are carried over as well. *)
LEMMA OthersHold ==
  ASSUME LedgerInv, Carries, NEW c \in Calls, NEW x \in DiagnosticCall, calls' = [calls EXCEPT ![c] = x],
         CallHolds(x, ledger', client', truth')
  PROVE  calls' \in [Calls -> DiagnosticCall] /\ \A d \in Calls : CallHolds(calls'[d], ledger', client', truth')
<1>1. calls \in [Calls -> DiagnosticCall]
  BY DEF LedgerInv, LedgerTypeOK
<1>2. \A d \in Calls : CallHolds(calls[d], ledger', client', truth')
  BY <1>1 DEF LedgerInv, Carries
<1> HIDE DEF DiagnosticCall
<1> QED BY <1>1, <1>2

LEMMA AllHold ==
  ASSUME LedgerInv, Carries, UNCHANGED calls
  PROVE  calls' \in [Calls -> DiagnosticCall] /\ \A d \in Calls : CallHolds(calls'[d], ledger', client', truth')
<1>1. calls \in [Calls -> DiagnosticCall]
  BY DEF LedgerInv, LedgerTypeOK
<1>2. \A d \in Calls : CallHolds(calls[d], ledger', client', truth')
  BY <1>1 DEF LedgerInv, Carries
<1> QED BY <1>1, <1>2

LEMMA IdleFits ==
  /\ Idle \in DiagnosticCall
  /\ \A L, cl, t : CallHolds(Idle, L, cl, t)
<1>1. Idle \in DiagnosticCall
  BY VersionIs DEF Idle, DiagnosticCall, CallPcs
<1>2. ASSUME NEW L, NEW cl, NEW t PROVE CallHolds(Idle, L, cl, t)
  <2>1. <<>> \in Seq(Batches(t)) /\ 0 <= MaxVersions
    BY EventAssumption
  <2>2. Idle.pc = "idle" /\ Idle.batches = <<>> /\ Idle.wrote = 0
    BY DEF Idle
  <2> QED BY <2>1, <2>2 DEF CallHolds
<1> QED BY <1>1, <1>2

(* A call that only moves on. *)
LEMMA MovesOn ==
  ASSUME LedgerInv, NEW c \in Calls, calls[c].pc \notin {"idle", "acknowledge"},
         NEW pc \in CallPcs \ {"acknowledge", "page"}, NEW x, x = [calls[c] EXCEPT !.pc = pc]
  PROVE  /\ x \in DiagnosticCall
         /\ \A L, cl, t : CallHolds(calls[c], L, cl, t) => CallHolds(x, L, cl, t)
<1>1. calls[c] \in DiagnosticCall
  BY DEF LedgerInv, LedgerTypeOK
<1>2. x.pc = pc /\ x.by = calls[c].by /\ x.batches = calls[c].batches /\ x.wrote = calls[c].wrote /\ x \in DiagnosticCall
  BY <1>1 DEF DiagnosticCall
<1> QED BY <1>2 DEF CallHolds

LEMMA InvGives ==
  ASSUME LedgerInv
  PROVE  /\ LedgerTypeOK /\ Held /\ Listed(kernel, truth)
         /\ content \in Versions /\ known \in 0..MaxVersions /\ kernel \in KernelView /\ events \in Nat
         /\ calls \in [Calls -> DiagnosticCall]
         /\ \A c \in Calls : CallHolds(calls[c], ledger, client, truth)
BY DEF LedgerInv, LedgerTypeOK

(* The newest notice, or the floor below which there are none. *)
LEMMA HeadIs ==
  ASSUME Held
  PROVE  noticeHead = HeadOf(ledger) /\ noticeHead \in Nat /\ noticeHead <= ledger.sequence
<1>1. ledger \in Ledger /\ Numbered(ledger)
  BY DEF Held, Sound
<1>2. noticeHead = HeadOf(ledger)
  BY DEF noticeHead, HeadOf
<1>3. HeadOf(ledger) <= ledger.sequence
  <2>1. CASE ledger.notices = <<>>
    BY <2>1, <1>1 DEF HeadOf, Numbered
  <2>2. CASE ledger.notices # <<>>
    <3>1. Len(ledger.notices) \in DOMAIN ledger.notices
      BY <2>2, <1>1, NoticesTyped
    <3> QED BY <3>1, <2>2, <1>1 DEF HeadOf, Numbered, Last
  <2> QED BY <2>1, <2>2
<1> QED BY <1>1, <1>2, <1>3, NoticesTyped

(* A client that starts at the newest notice. *)
LEMMA StartsAtHead ==
  ASSUME Held, UNCHANGED <<truth, ledger, saved>>, NEW s \in Clients,
         delivery' = [track(s) EXCEPT !.cursors[s] = noticeHead], client' = [client EXCEPT ![s].head = noticeHead]
  PROVE  Carries
<1>1. noticeHead = HeadOf(ledger) /\ noticeHead \in Nat /\ noticeHead <= ledger.sequence
  BY HeadIs
<1>2. client \in ClientViews /\ ClientHolds(s, ledger, saved, client, delivery) /\ ledger \in Ledger
  BY DEF Held
<1>3. /\ client' \in ClientViews /\ \A c \in Clients \ {s} : client'[c] = client[c]
      /\ client'[s].since = client[s].since /\ client'[s].head = noticeHead /\ client'[s].seen = client[s].seen
  BY <1>1, <1>2 DEF ClientViews
<1>4. client[s].head <= client'[s].head
  BY <1>1, <1>2, <1>3 DEF ClientHolds
<1>5. client'[s].head <= HeadOf(ledger)
  BY <1>1, <1>3
<1>6. \A i \in DOMAIN ledger.notices : ~(client'[s].head < ledger.notices[i].seq /\ ledger.notices[i].seq <= noticeHead)
  BY <1>1, <1>2, <1>3, NoticesTyped
<1> QED BY <1>1, <1>3, <1>4, <1>5, <1>6, CursorMoves

LEMMA BeginKeeps ==
  ASSUME LedgerInv, NEW c \in Calls, NEW s \in Clients, NEW pc \in {"baseline", "collect"}, Begin(c, s, pc)
  PROVE  LedgerInv'
<1> USE InvGives
<1>1. /\ events' \in Nat /\ Register(s) /\ UNCHANGED <<content, known, truth, kernel, ledger, saved>>
      /\ calls' = [calls EXCEPT ![c] = [Idle EXCEPT !.pc = pc, !.by = s]]
  BY DEF Begin, Event
<1>2. PICK x : x = [Idle EXCEPT !.pc = pc, !.by = s]
  OBVIOUS
<1>3. /\ x \in DiagnosticCall /\ x.pc = pc /\ x.by = s /\ x.batches = <<>> /\ x.wrote = 0
  <2>1. x = [pc |-> pc, by |-> s, batches |-> <<>>, preEdit |-> 0, wrote |-> 0, page |-> <<>>]
    BY <1>2 DEF Idle
  <2>2. pc \in CallPcs /\ s \in Clients \cup {Nobody} /\ 0 \in 0..MaxVersions /\ 0 \in Nat
        /\ <<>> \in Seq(Batch) /\ <<>> \in Seq(Notice)
    BY VersionIs DEF CallPcs
  <2>3. x \in DiagnosticCall
    BY <2>1, <2>2 DEF DiagnosticCall
  <2> QED BY <2>1, <2>3
<1>4. CallHolds(x, ledger', client', truth')
  <2>1. <<>> \in Seq(Batches(truth')) /\ 0 <= MaxVersions
    BY EventAssumption
  <2> QED BY <1>3, <2>1 DEF CallHolds
<1>5. Carries
  <2>1. CASE UNCHANGED <<delivery, client>>
    BY <2>1, <1>1, NothingMoves
  <2>2. CASE /\ delivery' = [track(s) EXCEPT !.cursors[s] = noticeHead]
             /\ client' = [client EXCEPT ![s].head = noticeHead]
    BY <2>2, <1>1, StartsAtHead
  <2> QED BY <2>1, <2>2, <1>1 DEF Register
<1>6. calls' \in [Calls -> DiagnosticCall] /\ \A d \in Calls : CallHolds(calls'[d], ledger', client', truth')
  BY <1>1, <1>2, <1>3, <1>4, <1>5, OthersHold
<1> QED BY <1>1, <1>5, <1>6, Assembles

(* A call that changes nothing but its place and what Carries is about. *)
LEMMA BecomesKeeps ==
  ASSUME LedgerInv, Carries, UNCHANGED <<truth, kernel>>, content' \in Versions, known' \in 0..MaxVersions, events' \in Nat,
         NEW c \in Calls, calls[c].pc \notin {"idle", "acknowledge"}, NEW pc \in CallPcs \ {"acknowledge", "page"},
         Become(c, pc)
  PROVE  LedgerInv'
<1> USE InvGives
<1>1. PICK x : x = [calls[c] EXCEPT !.pc = pc]
  OBVIOUS
<1>2. calls' = [calls EXCEPT ![c] = x]
  BY <1>1 DEF Become
<1>3. x \in DiagnosticCall /\ \A L, cl, t : CallHolds(calls[c], L, cl, t) => CallHolds(x, L, cl, t)
  BY <1>1, MovesOn
<1>4. CallHolds(calls[c], ledger', client', truth')
  BY DEF Carries
<1>5. CallHolds(x, ledger', client', truth')
  BY <1>3, <1>4
<1>6. calls' \in [Calls -> DiagnosticCall] /\ \A d \in Calls : CallHolds(calls'[d], ledger', client', truth')
  BY <1>2, <1>3, <1>5, OthersHold
<1> QED BY <1>6, Assembles

LEMMA BaselineKeeps ==
  ASSUME LedgerInv, NEW c \in Calls, RecordDiagnosticBaseline(c)
  PROVE  LedgerInv'
<1> USE InvGives
<1>1. PICK K : K = {k \in Streams : kernel.published[k].complete /\ kernel.published[k].version >= kernel.buffer}
  OBVIOUS
<1>2. /\ At(c, "baseline") /\ Become(c, "write")
      /\ IF K = {} THEN UNCHANGED <<ledger, saved, events>> ELSE recordBatches(BatchesOf(baselineBatch, K))
      /\ UNCHANGED <<content, known, truth, kernel, client, delivery>>
  BY <1>1 DEF RecordDiagnosticBaseline
<1>3. PICK batches : batches = BatchesOf(baselineBatch, K)
  OBVIOUS
<1>4. batches \in Seq(Batches(truth))
  BY <1>3, BaselineBatches
<1>5. Carries /\ events' \in Nat
  <2>1. CASE UNCHANGED <<ledger, saved, events>>
    BY <2>1, <1>2, NothingMoves
  <2>2. CASE recordBatches(batches)
    BY <2>2, <1>2, <1>4, RecordsBatches
  <2> QED BY <2>1, <2>2, <1>2, <1>3
<1>6. calls[c].pc = "baseline" /\ "write" \in CallPcs
  BY <1>2 DEF At, CallPcs
<1> QED BY <1>2, <1>5, <1>6, BecomesKeeps

LEMMA WriteKeeps ==
  ASSUME LedgerInv, NEW c \in Calls, Write(c)
  PROVE  LedgerInv'
<1> USE InvGives
<1>1. PICK v : v = content + 1
  OBVIOUS
<1>2. /\ At(c, "write") /\ content < MaxVersions /\ content' = v /\ known' = v /\ documentChanged(v)
      /\ calls' = [calls EXCEPT ![c].pc = "resync", ![c].preEdit = content, ![c].wrote = v]
      /\ UNCHANGED <<truth, kernel, client, delivery>>
  BY <1>1 DEF Write
<1>3. v \in Versions /\ v \in 0..MaxVersions /\ content \in 0..MaxVersions /\ v \in Nat /\ v <= MaxVersions
  BY <1>1, <1>2, EventAssumption DEF Versions
<1>4. Carries /\ events' \in Nat
  BY <1>2, <1>3, NotesChange
<1>5. PICK x : x = [calls[c] EXCEPT !.pc = "resync", !.preEdit = content, !.wrote = v]
  OBVIOUS
<1>6. calls[c] \in DiagnosticCall /\ calls[c].pc = "write"
  BY <1>2 DEF At
<1>7. /\ x \in DiagnosticCall /\ x.pc = "resync" /\ x.by = calls[c].by /\ x.batches = calls[c].batches /\ x.wrote = v
  BY <1>3, <1>5, <1>6 DEF DiagnosticCall, CallPcs
<1>8. calls' = [calls EXCEPT ![c] = x]
  BY <1>2, <1>5
<1>9. CallHolds(calls[c], ledger', client', truth')
  BY <1>4 DEF Carries
<1>10. CallHolds(x, ledger', client', truth')
  BY <1>3, <1>6, <1>7, <1>9 DEF CallHolds
<1>11. calls' \in [Calls -> DiagnosticCall] /\ \A d \in Calls : CallHolds(calls'[d], ledger', client', truth')
  BY <1>4, <1>7, <1>8, <1>10, OthersHold
<1> QED BY <1>2, <1>3, <1>4, <1>11, Assembles

LEMMA ResyncKeeps ==
  ASSUME LedgerInv, NEW c \in Calls, Resync(c)
  PROVE  LedgerInv'
<1> USE InvGives
<1>1. /\ At(c, "resync") /\ Become(c, "fetch") /\ kernel' = [kernel EXCEPT !.buffer = content]
      /\ UNCHANGED <<content, known, truth, ledger, saved, client, delivery, events>>
  BY DEF Resync
<1>2. kernel' \in KernelView /\ kernel'.published = kernel.published
  BY <1>1 DEF KernelView
<1>3. Listed(kernel', truth)
  BY <1>2 DEF Listed
<1>4. Carries
  BY <1>1, NothingMoves
<1>5. PICK x : x = [calls[c] EXCEPT !.pc = "fetch"]
  OBVIOUS
<1>6. calls' = [calls EXCEPT ![c] = x]
  BY <1>1, <1>5 DEF Become
<1>7. x \in DiagnosticCall /\ \A L, cl, t : CallHolds(calls[c], L, cl, t) => CallHolds(x, L, cl, t)
  <2>1. calls[c].pc = "resync" /\ "fetch" \in CallPcs
    BY <1>1 DEF At, CallPcs
  <2> QED BY <2>1, <1>5, MovesOn
<1>8. CallHolds(x, ledger', client', truth')
  BY <1>4, <1>7 DEF Carries
<1>9. calls' \in [Calls -> DiagnosticCall] /\ \A d \in Calls : CallHolds(calls'[d], ledger', client', truth')
  BY <1>4, <1>6, <1>7, <1>8, OthersHold
<1> QED BY <1>1, <1>2, <1>3, <1>4, <1>9, Assembles

(* A call is given batches. *)
LEMMA GivenBatches ==
  ASSUME LedgerInv, NEW c \in Calls, calls[c].pc \notin {"idle", "acknowledge"},
         NEW pc \in CallPcs \ {"acknowledge", "page"}, NEW batches \in Seq(Batches(truth)),
         NEW x, x = [calls[c] EXCEPT !.pc = pc, !.batches = batches]
  PROVE  x \in DiagnosticCall /\ \A L, cl : CallHolds(calls[c], L, cl, truth) => CallHolds(x, L, cl, truth)
<1>1. calls[c] \in DiagnosticCall
  BY InvGives
<1>2. batches \in Seq(Batch)
  BY DEF Batches
<1>3. x.pc = pc /\ x.by = calls[c].by /\ x.batches = batches /\ x.wrote = calls[c].wrote /\ x \in DiagnosticCall
  <2> HIDE DEF Batch, Notice
  <2> QED BY <1>1, <1>2 DEF DiagnosticCall
<1> QED BY <1>3 DEF CallHolds

LEMMA FetchKeeps ==
  ASSUME LedgerInv, NEW c \in Calls, Fetch(c)
  PROVE  LedgerInv'
<1> USE InvGives
<1>1. PICK answer : answer = BatchesOf(LAMBDA k : appliedBatch(c, k), Spoken)
  OBVIOUS
<1>2. PICK uncovered : uncovered = [appliedBatch(c, "push") EXCEPT !.expected = 0]
  OBVIOUS
<1>3. PICK batches : batches = IF answer = <<>> THEN <<uncovered>> ELSE answer
  OBVIOUS
<1>4. /\ At(c, "fetch") /\ calls' = [calls EXCEPT ![c].pc = "record", ![c].batches = batches]
      /\ kernel' = [kernel EXCEPT !.pending = kernel.buffer]
      /\ UNCHANGED <<content, known, truth, ledger, saved, client, delivery, events>>
  BY <1>1, <1>2, <1>3 DEF Fetch, RecordPending
<1>5. calls[c].pc = "fetch" /\ calls[c].wrote <= MaxVersions
  <2>1. CallHolds(calls[c], ledger, client, truth) /\ calls[c].pc = "fetch"
    BY <1>4 DEF At
  <2> QED BY <2>1 DEF CallHolds
<1>6. answer \in Seq(Batches(truth))
  BY <1>1, <1>5, AppliedBatches
<1>7. uncovered \in Batches(truth)
  BY <1>2, <1>5, UncoveredIsProven
<1>8. batches \in Seq(Batches(truth))
  BY <1>3, <1>6, <1>7
<1>9. Carries
  BY <1>4, NothingMoves
<1>10. PICK x : x = [calls[c] EXCEPT !.pc = "record", !.batches = batches]
  OBVIOUS
<1>11. x \in DiagnosticCall /\ \A L, cl : CallHolds(calls[c], L, cl, truth) => CallHolds(x, L, cl, truth)
  <2>1. "record" \in CallPcs
    BY DEF CallPcs
  <2> QED BY <2>1, <1>5, <1>8, <1>10, GivenBatches
<1>12. calls' = [calls EXCEPT ![c] = x]
  BY <1>4, <1>10
<1>13. CallHolds(x, ledger', client', truth')
  BY <1>4, <1>11
<1>14. calls' \in [Calls -> DiagnosticCall] /\ \A d \in Calls : CallHolds(calls'[d], ledger', client', truth')
  BY <1>9, <1>11, <1>12, <1>13, OthersHold
<1>15. kernel' \in KernelView /\ kernel'.published = kernel.published
  <2>1. kernel.buffer \in 0..MaxVersions
    BY VersionIs DEF KernelView
  <2> QED BY <2>1, <1>4 DEF KernelView
<1>16. Listed(kernel', truth)
  BY <1>15 DEF Listed
<1> QED BY <1>4, <1>9, <1>14, <1>15, <1>16, Assembles

LEMMA CollectKeeps ==
  ASSUME LedgerInv, NEW c \in Calls, CollectLateEvidence(c)
  PROVE  LedgerInv'
<1> USE InvGives
<1>1. At(c, "collect") /\ UNCHANGED <<content, known, truth, ledger, saved, client, delivery, events>>
  BY DEF CollectLateEvidence
<1>2. PICK quiet \in BOOLEAN :
        /\ calls' = [calls EXCEPT ![c].pc = "late", ![c].batches = coalesce(late_evidence(quiet))]
        /\ kernel' = [kernel EXCEPT !.late = [k \in Streams |-> leftLate(k, quiet)]]
  BY DEF CollectLateEvidence
<1>3. PICK late : late = late_evidence(quiet)
  OBVIOUS
<1>4. PICK batches : batches = coalesce(late)
  OBVIOUS
<1>5. batches \in Seq(Batches(truth))
  <2>1. late \in Seq(Batches(truth))
    BY <1>3, LateEvidence
  <2> QED BY <2>1, <1>4, CoalescesAll
<1>6. PICK left : left = [k \in Streams |-> leftLate(k, quiet)]
  OBVIOUS
<1>7. left \in [Streams -> Seq(Observation)]
  <2>1. \A k \in Streams : leftLate(k, quiet) \in Seq(Observation)
    BY LeftLate
  <2> QED BY <2>1, <1>6
<1>8. kernel' = [kernel EXCEPT !.late = left]
  BY <1>2, <1>6
<1>9. kernel' \in KernelView /\ kernel'.published = kernel.published
  <2> HIDE DEF Observation, Publication
  <2> QED BY <1>7, <1>8 DEF KernelView
<1>10. Listed(kernel', truth)
  BY <1>9 DEF Listed
<1>11. Carries
  BY <1>1, NothingMoves
<1>12. PICK x : x = [calls[c] EXCEPT !.pc = "late", !.batches = batches]
  OBVIOUS
<1>13. x \in DiagnosticCall /\ \A L, cl : CallHolds(calls[c], L, cl, truth) => CallHolds(x, L, cl, truth)
  <2>1. calls[c].pc = "collect" /\ "late" \in CallPcs
    BY <1>1 DEF At, CallPcs
  <2> QED BY <2>1, <1>5, <1>12, GivenBatches
<1>14. calls' = [calls EXCEPT ![c] = x]
  BY <1>2, <1>3, <1>4, <1>12
<1>15. CallHolds(x, ledger', client', truth')
  BY <1>1, <1>13
<1>16. calls' \in [Calls -> DiagnosticCall] /\ \A d \in Calls : CallHolds(calls'[d], ledger', client', truth')
  BY <1>11, <1>13, <1>14, <1>15, OthersHold
<1> QED BY <1>1, <1>9, <1>10, <1>11, <1>16, Assembles

LEMMA RecordNextKeeps ==
  ASSUME LedgerInv, NEW c \in Calls, RecordNext(c)
  PROVE  LedgerInv'
<1> USE InvGives
<1>1. PICK batches : batches = calls[c].batches
  OBVIOUS
<1>2. calls[c].pc \in {"record", "late"} /\ UNCHANGED <<content, known, truth, kernel, client, delivery>>
  BY DEF RecordNext
<1>3. batches \in Seq(Batches(truth))
  BY <1>1 DEF CallHolds
<1>4. Carries /\ events' \in Nat
  <2>1. CASE batches = <<>>
    <3>1. UNCHANGED <<ledger, saved, events>>
      BY <2>1, <1>1 DEF RecordNext
    <3> QED BY <3>1, <1>2, NothingMoves
  <2>2. CASE batches # <<>>
    <3>1. PICK one : one = <<Head(batches)>>
      OBVIOUS
    <3>2. one \in Seq(Batches(truth))
      BY <3>1, <2>2, <1>3
    <3>3. recordBatches(one)
      BY <3>1, <2>2, <1>1 DEF RecordNext
    <3> QED BY <3>2, <3>3, <1>2, RecordsBatches
  <2> QED BY <2>1, <2>2
<1>5. PICK rest : rest = IF events' = events /\ batches # <<>> THEN Tail(batches) ELSE <<>>
  OBVIOUS
<1>6. rest \in Seq(Batches(truth))
  BY <1>3, <1>5
<1>7. PICK pc : pc = IF rest = <<>> THEN (IF At(c, "record") THEN "attach" ELSE "query") ELSE calls[c].pc
  OBVIOUS
<1>8. pc \in CallPcs \ {"acknowledge", "page"} /\ calls[c].pc \notin {"idle", "acknowledge"}
  BY <1>2, <1>7 DEF CallPcs
<1>9. PICK x : x = [calls[c] EXCEPT !.pc = pc, !.batches = rest]
  OBVIOUS
<1>10. x \in DiagnosticCall /\ \A L, cl : CallHolds(calls[c], L, cl, truth) => CallHolds(x, L, cl, truth)
  BY <1>6, <1>8, <1>9, GivenBatches
<1>11. calls' = [calls EXCEPT ![c] = x]
  <2>1. calls' = [calls EXCEPT ![c].batches = rest,
                               ![c].pc = IF rest = <<>> THEN (IF At(c, "record") THEN "attach" ELSE "query") ELSE @]
    BY <1>1, <1>5 DEF RecordNext
  <2> QED BY <2>1, <1>7, <1>9 DEF DiagnosticCall
<1>12. CallHolds(x, ledger', client', truth')
  BY <1>2, <1>4, <1>10 DEF Carries
<1>13. calls' \in [Calls -> DiagnosticCall] /\ \A d \in Calls : CallHolds(calls'[d], ledger', client', truth')
  BY <1>4, <1>10, <1>11, <1>12, OthersHold
<1> QED BY <1>2, <1>4, <1>13, Assembles

LEMMA CorroborateKeeps ==
  ASSUME LedgerInv, NEW c \in Calls, corroborateWithProjectCheck(c)
  PROVE  LedgerInv'
<1> USE InvGives
<1>1. PICK b : b = [kind |-> "check", version |-> 0, expected |-> 0, complete |-> TRUE, baseline |-> FALSE,
                    staged |-> FALSE, revision |-> calls[c].wrote, preEdit |-> 0, findings |-> {}]
  OBVIOUS
<1>2. PICK batches : batches = <<b>>
  OBVIOUS
<1>3. At(c, "attach") /\ recordBatches(batches) /\ UNCHANGED <<content, known, truth, kernel, calls, client, delivery>>
  BY <1>1, <1>2 DEF corroborateWithProjectCheck
<1>4. calls[c].wrote \in 0..MaxVersions /\ 0 \in 0..MaxVersions
  <2>1. calls[c].wrote \in Nat /\ calls[c].wrote <= MaxVersions
    BY <1>3 DEF At, CallHolds, DiagnosticCall
  <2> QED BY <2>1, EventAssumption
<1>5. b \in Batch
  BY <1>1, <1>4 DEF Batch
<1>6. Proven(b, truth)
  BY <1>1 DEF Proven, Streams
<1>7. batches \in Seq(Batches(truth))
  <2>1. b \in Batches(truth)
    BY <1>5, <1>6 DEF Batches
  <2> QED BY <2>1, <1>2
<1>8. Carries /\ events' \in Nat
  BY <1>3, <1>7, RecordsBatches
<1>9. calls' \in [Calls -> DiagnosticCall] /\ \A d \in Calls : CallHolds(calls'[d], ledger', client', truth')
  BY <1>3, <1>8, AllHold
<1> QED BY <1>3, <1>8, <1>9, Assembles

(* A call that ends, whatever it carried over. *)
LEMMA EventCounts ==
  ASSUME events \in Nat, Event
  PROVE  events' \in Nat
BY DEF Event

LEMMA EndsKeeps ==
  ASSUME LedgerInv, Carries, UNCHANGED <<content, known, truth, kernel>>, events' \in Nat, NEW c \in Calls,
         calls' = [calls EXCEPT ![c] = Idle]
  PROVE  LedgerInv'
<1> USE InvGives
<1>1. calls' \in [Calls -> DiagnosticCall] /\ \A d \in Calls : CallHolds(calls'[d], ledger', client', truth')
  BY IdleFits, OthersHold
<1> QED BY <1>1, Assembles

LEMMA AcknowledgeKeeps ==
  ASSUME LedgerInv, NEW c \in Calls, Acknowledge(c)
  PROVE  LedgerInv'
<1> USE InvGives
<1>1. /\ At(c, "acknowledge") /\ recordCursor(calls[c].by, calls[c].wrote) /\ calls' = [calls EXCEPT ![c] = Idle]
      /\ UNCHANGED <<content, known, truth, kernel, ledger, saved, client, events>>
  BY DEF Acknowledge
<1>2. PICK s, n : s = calls[c].by /\ n = calls[c].wrote
  OBVIOUS
<1>3. s \in Clients /\ n \in Nat /\ n <= ledger.ack
  <2>1. CallHolds(calls[c], ledger, client, truth) /\ calls[c].pc = "acknowledge" /\ calls[c] \in DiagnosticCall
    BY <1>1 DEF At
  <2> QED BY <2>1, <1>2 DEF CallHolds, DiagnosticCall
<1>4. /\ ledger \in Ledger /\ Pending(ledger) /\ Numbered(ledger) /\ client \in ClientViews
      /\ ClientHolds(s, ledger, saved, client, delivery) /\ Reaches(ledger, client, delivery)
  BY <1>3 DEF Held, Sound
<1>5. PICK m : m = Larger(delivery.cursors[s], n)
  OBVIOUS
<1>6. /\ delivery' = [track(s) EXCEPT !.cursors[s] = m]
      /\ delivery.cursors[s] \in Nat /\ m \in {n, delivery.cursors[s]}
      /\ s \in ToSet(delivery.order) \/ delivery.cursors[s] = 0
  BY <1>1, <1>2, <1>3, <1>5, CursorRecorded
<1>7. m \in Nat /\ m <= ledger.sequence
  <2>1. ledger.ack <= ledger.sequence /\ ledger.ack \in Nat /\ ledger.sequence \in Nat
    BY <1>4, NoticesTyped DEF Numbered
  <2>2. delivery.cursors[s] <= ledger.sequence
    BY <1>4 DEF ClientHolds
  <2> QED BY <2>1, <2>2, <1>3, <1>6
<1>8. ASSUME NEW i \in DOMAIN ledger.notices, client[s].head < ledger.notices[i].seq, ledger.notices[i].seq <= m
      PROVE  ledger.notices[i].seq \in client[s].seen
  <2>1. ledger.ack < ledger.notices[i].seq /\ ledger.notices[i].seq \in Nat /\ ledger.ack \in Nat
    BY <1>4, NoticesTyped DEF Pending
  <2>2. ~(ledger.notices[i].seq <= n) /\ ledger.notices[i].seq # 0
    BY <2>1, <1>3
  <2>3. ledger.notices[i].seq <= delivery.cursors[s] /\ delivery.cursors[s] # 0
    BY <2>1, <2>2, <1>6, <1>8
  <2>4. s \in ToSet(delivery.order)
    BY <2>3, <1>6
  <2> QED BY <2>3, <2>4, <1>4, <1>8 DEF Reaches
<1>9. client[s].head <= HeadOf(ledger) /\ client[s].head <= client[s].head
  BY <1>3, <1>4, ClientTyped DEF ClientHolds
<1>10. Carries
  BY <1>1, <1>3, <1>4, <1>6, <1>7, <1>8, <1>9, CursorMoves
<1> QED BY <1>1, <1>10, EndsKeeps

(* The notices after a cursor. *)
LEMMA AfterFacts ==
  ASSUME NEW L \in Ledger, NEW cursor \in Nat, NEW r, r = After(L, cursor)
  PROVE  /\ r \in Seq(Notice) /\ Seqs(r) \in SUBSET Nat
         /\ \A m \in DOMAIN r : \E i \in DOMAIN L.notices : r[m] = L.notices[i]
         /\ \A i \in DOMAIN L.notices : L.notices[i].seq > cursor => L.notices[i].seq \in Seqs(r)
<1>1. PICK s \in Seq(Notice) : s = L.notices
  BY NoticesTyped
<1>2. PICK I : I = {i \in DOMAIN s : s[i].seq > cursor}
  OBVIOUS
<1>3. r = Kept(s, I)
  BY <1>1, <1>2 DEF After
<1>4. r \in Seq(Notice) /\ Keeps(s, I, r)
  BY <1>2, <1>3, KeptFacts
<1>5. \A m \in DOMAIN r : \E i \in DOMAIN s : r[m] = s[i]
  BY <1>2, <1>4 DEF Keeps
<1>6. \A i \in DOMAIN s : s[i].seq > cursor => s[i].seq \in Seqs(r)
  BY <1>2, <1>4 DEF Keeps, Seqs
<1>7. Seqs(r) \in SUBSET Nat
  BY <1>1, <1>5, NoticesTyped DEF Seqs
<1> QED BY <1>1, <1>4, <1>5, <1>6, <1>7

LEMMA AttachKeeps ==
  ASSUME LedgerInv, NEW c \in Calls, Attach(c)
  PROVE  LedgerInv'
<1> USE InvGives
<1>1. PICK s : s = calls[c].by
  OBVIOUS
<1>2. At(c, "attach") /\ UNCHANGED <<content, known, truth, kernel, ledger, saved, events>>
  BY DEF Attach
<1>3. calls[c].pc = "attach" /\ s \in Clients /\ calls[c] \in DiagnosticCall
  <2>1. CallHolds(calls[c], ledger, client, truth) /\ calls[c].pc = "attach"
    BY <1>2 DEF At
  <2> QED BY <2>1, <1>1 DEF CallHolds
<1>4. /\ ledger \in Ledger /\ Numbered(ledger) /\ delivery \in Deliveries
      /\ ClientHolds(s, ledger, saved, client, delivery) /\ Reaches(ledger, client, delivery)
  BY <1>3 DEF Held, Sound
<1>5. CASE Registered(s)
  <2>1. PICK page : page = After(ledger, delivery.cursors[s])
    OBVIOUS
  <2>2. UNCHANGED <<delivery, client>> /\ calls' = [calls EXCEPT ![c].pc = "page", ![c].page = page]
    BY <1>1, <1>5, <2>1 DEF Attach
  <2>3. delivery.cursors[s] \in Nat
    BY <1>3, <1>4 DEF Deliveries
  <2>4. /\ page \in Seq(Notice)
        /\ \A m \in DOMAIN page : \E i \in DOMAIN ledger.notices : page[m] = ledger.notices[i]
        /\ \A i \in DOMAIN ledger.notices : ledger.notices[i].seq > delivery.cursors[s] => ledger.notices[i].seq \in Seqs(page)
    <3>1. PICK cursor \in Nat : cursor = delivery.cursors[s]
      BY <2>3
    <3>2. page = After(ledger, cursor)
      BY <3>1, <2>1
    <3>3. /\ page \in Seq(Notice)
          /\ \A m \in DOMAIN page : \E i \in DOMAIN ledger.notices : page[m] = ledger.notices[i]
          /\ \A i \in DOMAIN ledger.notices : ledger.notices[i].seq > cursor => ledger.notices[i].seq \in Seqs(page)
      <4> HIDE InvGives
      <4> QED BY <3>2, <1>4, AfterFacts
    <3> QED BY <3>1, <3>3
  <2>5. PICK x : x = [calls[c] EXCEPT !.pc = "page", !.page = page]
    OBVIOUS
  <2>6. /\ x \in DiagnosticCall /\ x.pc = "page" /\ x.by = s /\ x.batches = calls[c].batches
        /\ x.wrote = calls[c].wrote /\ x.page = page
    <3>1. "page" \in CallPcs
      BY DEF CallPcs
    <3> HIDE DEF Notice, Batch
    <3> QED BY <3>1, <2>4, <2>5, <1>1, <1>3 DEF DiagnosticCall
  <2>7. PageReaches(x, ledger, client)
    <3> SUFFICES ASSUME NEW m \in DOMAIN page
                 PROVE  /\ page[m].seq <= ledger.sequence
                        /\ \A i \in DOMAIN ledger.notices :
                             client[s].head < ledger.notices[i].seq /\ ledger.notices[i].seq <= page[m].seq =>
                               ledger.notices[i].seq \in client[s].seen \cup Seqs(page)
      BY <2>6 DEF PageReaches
    <3>1. page[m].seq <= ledger.sequence
      BY <2>4, <1>4 DEF Numbered
    <3>2. ASSUME NEW i \in DOMAIN ledger.notices, client[s].head < ledger.notices[i].seq
          PROVE  ledger.notices[i].seq \in client[s].seen \cup Seqs(page)
      <4>1. CASE ledger.notices[i].seq > delivery.cursors[s]
        BY <4>1, <2>4
      <4>2. CASE ~(ledger.notices[i].seq > delivery.cursors[s])
        <5>1. ledger.notices[i].seq <= delivery.cursors[s]
          BY <4>2, <2>3, <1>4, NoticesTyped
        <5>2. s \in ToSet(delivery.order)
          BY <1>5 DEF Registered, ToSet
        <5> QED BY <5>1, <5>2, <3>2, <1>4 DEF Reaches
      <4> QED BY <4>1, <4>2
    <3> QED BY <3>1, <3>2
  <2>8. Carries
    BY <2>2, <1>2, NothingMoves
  <2>9. CallHolds(x, ledger', client', truth')
    <3>1. CallHolds(calls[c], ledger, client, truth)
      OBVIOUS
    <3>2. CallHolds(x, ledger, client, truth)
      BY <3>1, <2>6, <2>7, <1>3 DEF CallHolds
    <3> QED BY <3>2, <2>2, <1>2
  <2>10. calls' = [calls EXCEPT ![c] = x]
    BY <2>2, <2>5
  <2>11. calls' \in [Calls -> DiagnosticCall] /\ \A d \in Calls : CallHolds(calls'[d], ledger', client', truth')
    BY <2>6, <2>8, <2>9, <2>10, OthersHold
  <2> QED BY <2>8, <2>11, <1>2, Assembles
<1>6. CASE ~Registered(s)
  <2>1. /\ recordCursor(s, noticeHead) /\ client' = [client EXCEPT ![s].head = noticeHead]
        /\ calls' = [calls EXCEPT ![c] = Idle]
    BY <1>1, <1>6 DEF Attach
  <2>2. s \notin ToSet(delivery.order)
    BY <1>6 DEF Registered, ToSet
  <2>3. noticeHead \in Nat
    BY HeadIs
  <2>4. delivery.cursors[s] = 0 /\ delivery' = [track(s) EXCEPT !.cursors[s] = Larger(delivery.cursors[s], noticeHead)]
    BY <2>1, <2>2, <2>3, <1>3, CursorRecorded
  <2>5. Larger(0, noticeHead) = noticeHead
    BY <2>3 DEF Larger
  <2>6. Carries
    BY <2>1, <2>4, <2>5, <1>2, <1>3, StartsAtHead
  <2> QED BY <2>1, <2>6, <1>2, EndsKeeps
<1> QED BY <1>5, <1>6

LEMMA DeliverPageKeeps ==
  ASSUME LedgerInv, NEW c \in Calls, DeliverPage(c)
  PROVE  LedgerInv'
<1> USE InvGives
<1>1. PICK s, page : s = calls[c].by /\ page = calls[c].page
  OBVIOUS
<1>2. /\ At(c, "page") /\ calls' = [calls EXCEPT ![c] = Idle]
      /\ UNCHANGED <<content, known, truth, kernel, ledger, saved, events>>
  BY DEF DeliverPage
<1>3. s \in Clients /\ PageReaches(calls[c], ledger, client) /\ calls[c] \in DiagnosticCall
  <2>1. CallHolds(calls[c], ledger, client, truth) /\ calls[c].pc = "page"
    BY <1>2 DEF At
  <2> QED BY <2>1, <1>1 DEF CallHolds
<1>4. CASE page = <<>>
  <2>1. UNCHANGED <<delivery, client>>
    BY <1>1, <1>4 DEF DeliverPage
  <2>2. Carries
    BY <2>1, <1>2, NothingMoves
  <2> QED BY <2>2, <1>2, EndsKeeps
<1>5. CASE page # <<>>
  <2>1. PICK n : n = Last(page).seq
    OBVIOUS
  <2>2. recordCursor(s, n) /\ client' = [client EXCEPT ![s].seen = @ \cup Seqs(page)]
    BY <1>1, <1>5, <2>1 DEF DeliverPage
  <2>3. page \in Seq(Notice) /\ \A m \in DOMAIN page : page[m].seq \in Nat
    <3>1. page \in Seq(Notice)
      BY <1>1, <1>3 DEF DiagnosticCall
    <3> QED BY <3>1, <1>1, <1>3, PageTyped
  <2>4. PICK l \in DOMAIN page : n = page[l].seq
    <3>1. Len(page) \in DOMAIN page
      BY <2>3, <1>5
    <3> QED BY <3>1, <2>1 DEF Last
  <2>5. /\ n \in Nat /\ n <= ledger.sequence
        /\ \A i \in DOMAIN ledger.notices :
             client[s].head < ledger.notices[i].seq /\ ledger.notices[i].seq <= n =>
               ledger.notices[i].seq \in client[s].seen \cup Seqs(page)
    BY <2>3, <2>4, <1>1, <1>3 DEF PageReaches
  <2>6. /\ ledger \in Ledger /\ client \in ClientViews
        /\ ClientHolds(s, ledger, saved, client, delivery) /\ Reaches(ledger, client, delivery)
    BY <1>3 DEF Held, Sound
  <2>7. PICK m : m = Larger(delivery.cursors[s], n)
    OBVIOUS
  <2>8. /\ delivery' = [track(s) EXCEPT !.cursors[s] = m]
        /\ delivery.cursors[s] \in Nat /\ m \in {n, delivery.cursors[s]}
        /\ s \in ToSet(delivery.order) \/ delivery.cursors[s] = 0
    BY <2>2, <2>5, <2>7, <1>3, CursorRecorded
  <2>9. m \in Nat /\ m <= ledger.sequence
    BY <2>5, <2>6, <2>8 DEF ClientHolds
  <2>10. /\ client' \in ClientViews /\ \A d \in Clients \ {s} : client'[d] = client[d]
         /\ client'[s].since = client[s].since /\ client'[s].head = client[s].head
         /\ client'[s].seen = client[s].seen \cup Seqs(page)
    <3>1. Seqs(page) \in SUBSET Nat
      BY <2>3 DEF Seqs
    <3> QED BY <3>1, <2>2, <2>6, <1>3 DEF ClientViews
  <2>11. ASSUME NEW i \in DOMAIN ledger.notices, client'[s].head < ledger.notices[i].seq, ledger.notices[i].seq <= m
         PROVE  ledger.notices[i].seq \in client'[s].seen
    <3>1. ledger.notices[i].seq \in Nat
      BY <2>6, NoticesTyped
    <3>2. CASE ledger.notices[i].seq <= n
      BY <3>2, <2>5, <2>10, <2>11
    <3>3. CASE ~(ledger.notices[i].seq <= n)
      <4>1. ledger.notices[i].seq <= delivery.cursors[s] /\ delivery.cursors[s] # 0
        BY <3>1, <3>3, <2>5, <2>8, <2>11
      <4>2. s \in ToSet(delivery.order)
        BY <4>1, <2>8
      <4> QED BY <4>1, <4>2, <2>6, <2>10, <2>11 DEF Reaches
    <3> QED BY <3>2, <3>3
  <2>12. client[s].head <= client'[s].head /\ client'[s].head <= HeadOf(ledger) /\ client[s].seen \subseteq client'[s].seen
    BY <2>6, <2>10, <1>3, ClientTyped DEF ClientHolds
  <2>13. Carries
    BY <2>8, <2>9, <2>10, <2>11, <2>12, <1>2, <1>3, CursorMoves
  <2> QED BY <2>13, <1>2, EndsKeeps
<1> QED BY <1>4, <1>5

(* A client is answered: the ledger moves, and it saw more of it. *)
LEMMA Answers ==
  ASSUME Held, truth' = truth, UNCHANGED delivery, ledger' \in Ledger, Sound(ledger', truth), Pending(ledger'),
         Grows(ledger, ledger'), saved' = ledger', NEW s \in Clients, NEW more \in SUBSET Nat, NEW n \in Nat,
         n <= ledger'.sequence, client' \in ClientViews, \A c \in Clients \ {s} : client'[c] = client[c],
         client'[s].since = n, client'[s].head = client[s].head, client'[s].seen = client[s].seen \cup more
  PROVE  Carries
<1>1. /\ ledger \in Ledger /\ saved \in Ledger /\ saved.sequence <= ledger.sequence
      /\ client \in ClientViews /\ delivery \in Deliveries
      /\ \A c \in Clients : ClientHolds(c, ledger, saved, client, delivery)
      /\ Reaches(ledger, client, delivery)
  BY DEF Held
<1>2. saved.sequence <= ledger'.sequence
  BY <1>1, NoticesTyped DEF Grows
<1>3. /\ client' \in ClientViews /\ \A c \in Clients \ {s} : client'[c] = client[c]
      /\ client'[s].since = n /\ client'[s].head = client[s].head /\ client'[s].seen = client[s].seen \cup more
  OBVIOUS
<1>4. ASSUME NEW c \in Clients PROVE ClientHolds(c, ledger', saved', client', delivery')
  <2>1. ClientHolds(c, ledger', saved', client, delivery)
    BY <1>1, <1>2, ClientHoldsOn
  <2> QED BY <2>1, <1>3 DEF ClientHolds
<1>5. Reaches(ledger', client', delivery')
  <2>1. Reaches(ledger', client, delivery)
    BY <1>1, ReachesOn
  <2> SUFFICES ASSUME NEW c \in ToSet(delivery.order), NEW i \in DOMAIN ledger'.notices,
                      client'[c].head < ledger'.notices[i].seq, ledger'.notices[i].seq <= delivery.cursors[c]
               PROVE  ledger'.notices[i].seq \in client'[c].seen
    BY DEF Reaches
  <2>2. c \in Clients
    <3>1. PICK o \in Seq(Clients) : o = delivery.order
      BY <1>1 DEF Deliveries
    <3> QED BY <3>1 DEF ToSet
  <2>3. client'[c].head = client[c].head /\ client[c].seen \subseteq client'[c].seen
    BY <2>2, <1>3
  <2> QED BY <2>1, <2>3 DEF Reaches
<1>6. Held'
  <2>1. saved'.sequence <= ledger'.sequence
    BY NoticesTyped
  <2> QED BY <2>1, <1>1, <1>3, <1>4, <1>5 DEF Held
<1>7. ASSUME NEW a \in DiagnosticCall, CallHolds(a, ledger, client, truth)
      PROVE  CallHolds(a, ledger', client', truth')
  <2>1. \A c \in Clients : client[c].head <= client'[c].head /\ client[c].seen \subseteq client'[c].seen
    <3> TAKE c \in Clients
    <3>1. client[c].head \in Nat
      BY <1>1, ClientTyped
    <3>2. CASE c = s
      BY <3>1, <3>2, <1>3
    <3>3. CASE c # s
      <4>1. client'[c] = client[c]
        BY <3>3, <1>3
      <4> QED BY <4>1, <3>1
    <3> QED BY <3>2, <3>3
  <2>2. CallHolds(a, ledger', client', truth)
    BY <2>1, <1>1, <1>3, <1>7, CallHoldsOn
  <2> QED BY <2>2
<1> QED BY <1>6, <1>7 DEF Carries

(* What a client has acknowledged stays within the ledger. *)
LEMMA AcknowledgedSound ==
  ASSUME NEW L \in Ledger, NEW t, Sound(L, t), NEW n \in Nat, n <= L.sequence, NEW M, M = [L EXCEPT !.ack = Larger(@, n)]
  PROVE  M \in Ledger /\ Sound(M, t) /\ Grows(L, M) /\ n <= M.ack /\ M.sequence = L.sequence
<1>1. PICK a : a = Larger(L.ack, n)
  OBVIOUS
<1>2. L.ack \in Nat /\ L.sequence \in Nat /\ L.ack <= L.sequence
  BY NoticesTyped DEF Sound, Numbered
<1>3. a \in Nat /\ L.ack <= a /\ n <= a /\ a <= L.sequence
  BY <1>1, <1>2 DEF Larger
<1>4. M = [L EXCEPT !.ack = a]
  BY <1>1
<1>5. /\ M.ack = a /\ M.sequence = L.sequence /\ M.floor = L.floor /\ M.items = L.items /\ M.active = L.active
      /\ M.stale = L.stale /\ M.evidence = L.evidence /\ M.notices = L.notices /\ M.lanes = L.lanes
      /\ M.dimension = L.dimension
  BY <1>4 DEF Ledger
<1>6. M \in Ledger
  <2> HIDE DEF Item, Notice, Evidence, Dimension
  <2> QED BY <1>3, <1>4 DEF Ledger
<1>7. Grows(L, M)
  <2>1. HeadOf(L) = HeadOf(M)
    BY <1>5 DEF HeadOf
  <2> QED BY <2>1, <1>2, <1>3, <1>5, NoticesTyped DEF Grows
<1>8. Sound(M, t)
  <2>1. Numbered(M)
    BY <1>3, <1>5 DEF Sound, Numbered
  <2>2. MembershipFollowsStatus(M) /\ WithdrawnBy(M, t)
    BY <1>5 DEF Sound, MembershipFollowsStatus, WithdrawnBy
  <2>3. EvidenceThere(M)
    BY <1>5, ThereToo DEF Sound
  <2>4. /\ Heard(M) = Heard(L) /\ \A f, v : Outdated(M, f, v) <=> Outdated(L, f, v)
        /\ \A k, v : LaneRests(M, k, v) <=> LaneRests(L, k, v)
    BY <1>5 DEF Heard, Outdated, LaneRests
  <2>5. DimensionRests(M)
    BY <2>4, <1>5 DEF Sound, DimensionRests
  <2> QED BY <2>1, <2>2, <2>3, <2>4, <2>5, <1>5 DEF Sound
<1> QED BY <1>3, <1>5, <1>6, <1>7, <1>8

LEMMA QueryKeeps ==
  ASSUME LedgerInv, NEW c \in Calls, At(c, "query"), NEW since \in {0, client[calls[c].by].since}, query(c, since)
  PROVE  LedgerInv'
<1> USE InvGives
<1>1. PICK s : s = calls[c].by
  OBVIOUS
<1>2. s \in Clients /\ calls[c].pc = "query" /\ calls[c] \in DiagnosticCall
  <2>1. CallHolds(calls[c], ledger, client, truth) /\ calls[c].pc = "query"
    BY DEF At
  <2> QED BY <2>1, <1>1 DEF CallHolds
<1>3. /\ ledger \in Ledger /\ Sound(ledger, truth) /\ saved \in Ledger /\ saved.sequence <= ledger.sequence
      /\ client \in ClientViews /\ ClientHolds(s, ledger, saved, client, delivery)
  BY <1>2 DEF Held
<1>4. since \in Nat /\ since <= ledger.sequence
  <2>1. client[s].since \in Nat /\ client[s].since <= saved.sequence
    BY <1>2, <1>3, ClientTyped DEF ClientHolds
  <2> QED BY <2>1, <1>1, <1>3, NoticesTyped
<1>5. UNCHANGED <<content, known, truth, kernel, delivery>>
  BY DEF query
<1>6. PICK A : A = [ledger EXCEPT !.ack = Larger(@, since)]
  OBVIOUS
<1>7. A \in Ledger /\ Sound(A, truth) /\ Grows(ledger, A) /\ since <= A.ack /\ A.sequence = ledger.sequence
  BY <1>3, <1>4, <1>6, AcknowledgedSound
<1>8. PICK aged \in BOOLEAN : ledger' = pruneLocked(A, aged, {})
  BY <1>6 DEF query
<1>9. /\ ledger' \in Ledger /\ Grows(A, ledger') /\ Pending(ledger') /\ Sound(ledger', truth)
      /\ ledger'.ack = A.ack /\ ledger'.sequence = A.sequence
  <2>1. Numbered(A)
    BY <1>7 DEF Sound
  <2> QED BY <2>1, <1>7, <1>8, Prunes
<1>10. Grows(ledger, ledger')
  BY <1>3, <1>7, <1>9, GrowsOn
<1>11. CASE Event /\ UNCHANGED <<saved, client>> /\ calls' = [calls EXCEPT ![c] = Idle]
  <2>1. Carries
    BY <1>5, <1>9, <1>10, <1>11, LedgerMoves
  <2>2. events' \in Nat
    BY <1>11, EventCounts
  <2> QED BY <2>1, <2>2, <1>5, <1>11, EndsKeeps
<1>12. CASE /\ saved' = ledger' /\ UNCHANGED events
            /\ Answered(ledger, calls[c].by, since)
            /\ calls' = [calls EXCEPT ![c].pc = "acknowledge", ![c].wrote = since]
  <2>1. PICK more : more = Seqs(After(ledger, since))
    OBVIOUS
  <2>2. more \in SUBSET Nat
    <3> HIDE InvGives
    <3> QED BY <2>1, <1>3, <1>4, AfterFacts
  <2>3. PICK n : n = ledger.sequence
    OBVIOUS
  <2>4. client' = [client EXCEPT ![s].since = n, ![s].seen = @ \cup more]
    BY <1>1, <1>12, <2>1, <2>3 DEF Answered
  <2>5. /\ client' \in ClientViews /\ \A d \in Clients \ {s} : client'[d] = client[d]
        /\ client'[s].since = n /\ client'[s].head = client[s].head /\ client'[s].seen = client[s].seen \cup more
    <3>1. n \in Nat
      BY <2>3, <1>3, NoticesTyped
    <3>2. client \in [Clients -> [since : Nat, seen : SUBSET Nat, head : Nat]]
      BY <1>3 DEF ClientViews
    <3> HIDE InvGives
    <3> QED BY <3>1, <3>2, <2>4, <2>2, <1>2 DEF ClientViews
  <2>6. n \in Nat /\ n <= ledger'.sequence
    BY <2>3, <1>3, <1>7, <1>9, NoticesTyped
  <2>7. Carries
    BY <2>2, <2>5, <2>6, <1>2, <1>5, <1>9, <1>10, <1>12, Answers
  <2>8. PICK x : x = [calls[c] EXCEPT !.pc = "acknowledge", !.wrote = since]
    OBVIOUS
  <2>9. /\ x \in DiagnosticCall /\ x.pc = "acknowledge" /\ x.by = s /\ x.batches = calls[c].batches /\ x.wrote = since
    <3>1. "acknowledge" \in CallPcs
      BY DEF CallPcs
    <3> HIDE DEF Notice, Batch
    <3> QED BY <3>1, <2>8, <1>1, <1>2, <1>4 DEF DiagnosticCall
  <2>10. CallHolds(x, ledger', client', truth')
    <3>1. CallHolds(calls[c], ledger', client', truth')
      BY <2>7 DEF Carries
    <3>2. since <= ledger'.ack
      BY <1>7, <1>9
    <3> QED BY <3>1, <3>2, <2>9, <1>2 DEF CallHolds
  <2>11. calls' = [calls EXCEPT ![c] = x]
    BY <2>8, <1>12
  <2>12. calls' \in [Calls -> DiagnosticCall] /\ \A d \in Calls : CallHolds(calls'[d], ledger', client', truth')
    BY <2>7, <2>9, <2>10, <2>11, OthersHold
  <2> QED BY <2>7, <2>12, <1>5, <1>12, Assembles
<1> QED BY <1>11, <1>12 DEF query

LEMMA PublishKeeps ==
  ASSUME LedgerInv, NEW k \in Streams, NEW v \in 0..kernel.buffer, NEW complete \in BOOLEAN,
         NEW fs \in SUBSET Findings, Publish(k, v, complete, fs)
  PROVE  LedgerInv'
<1> USE InvGives
<1>1. kernel.buffer \in Versions /\ kernel.buffer \in Nat /\ kernel.buffer # 0
  BY KernelTyped, VersionIs DEF Versions
<1>2. v \in Nat /\ v \in 0..MaxVersions
  BY <1>1, EventAssumption DEF Versions
<1>3. PICK late : late = capture_late(k, v, fs)
  OBVIOUS
<1>4. late \in Seq(Observation)
  BY <1>2, <1>3, Captures
<1>5. PICK p : p = [version |-> v, complete |-> complete, findings |-> fs]
  OBVIOUS
<1>6. p \in Publication /\ p.version = v /\ p.complete = complete /\ p.findings = fs
  BY <1>2, <1>5 DEF Publication
<1>7. /\ Event
      /\ complete => publication_complete(k, v, kernel.buffer, fs)
      /\ kernel' = [kernel EXCEPT !.published[k] = p, !.late[k] = late]
      /\ UNCHANGED <<content, known, truth, ledger, saved, calls, client, delivery>>
  BY <1>3, <1>5 DEF Publish
<1>8. PICK ps, ls : ps = kernel.published /\ ls = kernel.late
  OBVIOUS
<1>9. ps \in [Streams -> Publication] /\ ls \in [Streams -> Seq(Observation)]
  <2> HIDE DEF Observation, Publication
  <2> QED BY <1>8 DEF KernelView
<1>10. PICK qs, ms : qs = [ps EXCEPT ![k] = p] /\ ms = [ls EXCEPT ![k] = late]
  OBVIOUS
<1>11. /\ qs \in [Streams -> Publication] /\ ms \in [Streams -> Seq(Observation)]
       /\ qs[k] = p /\ \A l \in Streams \ {k} : qs[l] = ps[l]
  <2> HIDE DEF Observation, Publication
  <2> QED BY <1>4, <1>6, <1>9, <1>10
<1>12. kernel' = [kernel EXCEPT !.published = qs, !.late = ms]
  <2> HIDE DEF Observation, Publication
  <2> QED BY <1>7, <1>8, <1>10 DEF KernelView
<1>13. kernel' \in KernelView /\ kernel'.published = qs
  <2> HIDE DEF Observation, Publication
  <2> QED BY <1>11, <1>12 DEF KernelView
<1>14. Listed(kernel', truth)
  <2> SUFFICES ASSUME NEW l \in Streams, qs[l].complete
               PROVE  qs[l].version \in Versions /\ qs[l].findings = truth[qs[l].version][l]
    BY <1>13 DEF Listed
  <2>1. CASE l = k
    <3>0. complete
      BY <2>1, <1>6, <1>11
    <3>1. v >= kernel.buffer /\ fs = truth[v][k]
      BY <3>0, <1>7 DEF publication_complete
    <3>2. v \in Versions
      BY <3>1, <1>1, <1>2 DEF Versions
    <3> QED BY <2>1, <3>1, <3>2, <1>6, <1>11
  <2>2. CASE l # k
    BY <2>2, <1>8, <1>11 DEF Listed
  <2> QED BY <2>1, <2>2
<1>15. Carries
  BY <1>7, NothingMoves
<1>16. calls' \in [Calls -> DiagnosticCall] /\ \A d \in Calls : CallHolds(calls'[d], ledger', client', truth')
  BY <1>7, <1>15, AllHold
<1>17. events' \in Nat
  BY <1>7, EventCounts
<1> QED BY <1>7, <1>13, <1>14, <1>15, <1>16, <1>17, Assembles

LEMMA StagedKeeps ==
  ASSUME LedgerInv, RecordStagedDiagnostics
  PROVE  LedgerInv'
<1> USE InvGives
<1>1. PICK b : b = [kind |-> "push", version |-> 0, expected |-> 0, complete |-> FALSE, baseline |-> FALSE,
                    staged |-> TRUE, revision |-> content, preEdit |-> 0, findings |-> Findings]
  OBVIOUS
<1>2. PICK M : M = recordLocked(ledger, b)
  OBVIOUS
<1>3. /\ Event /\ ledger' = pruneLocked(M, FALSE, {}) /\ saved' = ledger'
      /\ UNCHANGED <<content, known, truth, kernel, calls, client, delivery>>
  BY <1>1, <1>2 DEF RecordStagedDiagnostics
<1>4. b \in Batch
  <2>1. content \in 0..MaxVersions /\ 0 \in 0..MaxVersions /\ "push" \in Streams
    BY VersionIs DEF Streams
  <2> QED BY <2>1, <1>1 DEF Batch
<1>5. Proven(b, truth)
  BY <1>1 DEF Proven
<1>6. Follows(ledger, M) /\ Sound(M, truth)
  BY <1>2, <1>4, <1>5, RecordsOne DEF Held
<1>7. M \in Ledger /\ Numbered(M) /\ Grows(ledger, M) /\ ledger \in Ledger
  BY <1>6 DEF Follows, Held
<1>8. ledger' \in Ledger /\ Grows(M, ledger') /\ Pending(ledger') /\ Sound(ledger', truth)
  BY <1>3, <1>6, <1>7, Prunes
<1>9. Grows(ledger, ledger')
  BY <1>7, <1>8, GrowsOn
<1>10. Carries
  BY <1>3, <1>8, <1>9, LedgerMoves
<1>11. calls' \in [Calls -> DiagnosticCall] /\ \A d \in Calls : CallHolds(calls'[d], ledger', client', truth')
  BY <1>3, <1>10, AllHold
<1>12. events' \in Nat
  BY <1>3, EventCounts
<1> QED BY <1>3, <1>10, <1>11, <1>12, Assembles

LEMMA ExternalWriteKeeps ==
  ASSUME LedgerInv, ExternalWrite
  PROVE  LedgerInv'
<1> USE InvGives
<1>1. /\ content < MaxVersions /\ Event /\ content' = content + 1
      /\ UNCHANGED <<known, truth, kernel, ledger, saved, calls, client, delivery>>
  BY DEF ExternalWrite
<1>2. content' \in Versions
  BY <1>1, EventAssumption DEF Versions
<1>3. Carries
  BY <1>1, NothingMoves
<1>4. calls' \in [Calls -> DiagnosticCall] /\ \A d \in Calls : CallHolds(calls'[d], ledger', client', truth')
  BY <1>1, <1>3, AllHold
<1>5. events' \in Nat
  BY <1>1, EventCounts
<1> QED BY <1>1, <1>2, <1>3, <1>4, <1>5, Assembles

LEMMA SnapshotKeeps ==
  ASSUME LedgerInv, Snapshot
  PROVE  LedgerInv'
<1> USE InvGives
<1>1. known' = content /\ documentChanged(content) /\ UNCHANGED <<content, truth, kernel, calls, client, delivery>>
  BY DEF Snapshot
<1>2. content \in 0..MaxVersions
  BY VersionIs
<1>3. Carries /\ events' \in Nat
  BY <1>1, <1>2, NotesChange
<1>4. calls' \in [Calls -> DiagnosticCall] /\ \A d \in Calls : CallHolds(calls'[d], ledger', client', truth')
  BY <1>1, <1>3, AllHold
<1> QED BY <1>1, <1>2, <1>3, <1>4, Assembles

LEMMA QuietIs ==
  ASSUME NEW v \in Versions, NEW t
  PROVE  Quiet(v) \in KernelView /\ Listed(Quiet(v), t)
<1>1. Unpublished \in Publication /\ Unpublished.complete = FALSE
  BY VersionIs DEF Unpublished, Publication
<1>2. <<>> \in Seq(Observation)
  OBVIOUS
<1>3. PICK p, l : p = [k \in Streams |-> Unpublished] /\ l = [k \in Streams |-> <<>>]
  OBVIOUS
<1>4. p \in [Streams -> Publication] /\ l \in [Streams -> Seq(Observation)] /\ \A k \in Streams : p[k].complete = FALSE
  <2> HIDE DEF Unpublished, Publication, Observation
  <2> QED BY <1>1, <1>2, <1>3
<1>5. Quiet(v) = [buffer |-> v, published |-> p, late |-> l, pending |-> 0]
  BY <1>3 DEF Quiet
<1>6. Quiet(v) \in KernelView
  <2> HIDE DEF Publication, Observation
  <2> QED BY <1>4, <1>5, VersionIs DEF KernelView
<1>7. Listed(Quiet(v), t)
  BY <1>4, <1>5 DEF Listed
<1> QED BY <1>6, <1>7

(* Clients nothing is delivered to. *)
LEMMA UndeliveredHolds ==
  ASSUME NEW L \in Ledger, NEW S \in Ledger, NEW cl \in ClientViews,
         \A s \in Clients : cl[s].since <= S.sequence /\ cl[s].head = 0
  PROVE  /\ Undelivered \in Deliveries
         /\ \A s \in Clients : ClientHolds(s, L, S, cl, Undelivered)
         /\ Reaches(L, cl, Undelivered)
<1>1. PICK k : k = [c \in Clients |-> 0]
  OBVIOUS
<1>2. Undelivered = [order |-> <<>>, cursors |-> k] /\ k \in [Clients -> Nat] /\ <<>> \in Seq(Clients)
  BY <1>1 DEF Undelivered
<1>3. Undelivered \in Deliveries
  BY <1>2 DEF Deliveries
<1>4. ToSet(Undelivered.order) = {}
  BY <1>2 DEF ToSet
<1>5. \A s \in Clients : Undelivered.cursors[s] = 0
  BY <1>1, <1>2
<1>6. 0 <= HeadOf(L) /\ 0 <= L.sequence
  BY NoticesTyped
<1> QED BY <1>3, <1>4, <1>5, <1>6 DEF ClientHolds, Reaches

LEMMA RestartKeeps ==
  ASSUME LedgerInv, Restart
  PROVE  LedgerInv'
<1> USE InvGives
<1>1. /\ Event /\ ledger' = saved /\ known' = 0 /\ kernel' = Quiet(content)
      /\ calls' = [c \in Calls |-> Idle]
      /\ client' = [c \in Clients |-> [client[c] EXCEPT !.seen = {}, !.head = 0]]
      /\ delivery' = Undelivered
      /\ UNCHANGED <<content, truth, saved>>
  BY DEF Restart
<1>2. /\ saved \in Ledger /\ Sound(saved, truth) /\ Pending(saved) /\ client \in ClientViews
      /\ \A s \in Clients : client[s].since <= saved.sequence
  BY DEF Held, ClientHolds
<1>3. /\ client' \in ClientViews
      /\ \A s \in Clients : client'[s].since <= saved.sequence /\ client'[s].head = 0
  <2>1. ASSUME NEW s \in Clients
        PROVE  /\ [client[s] EXCEPT !.seen = {}, !.head = 0] \in [since : Nat, seen : SUBSET Nat, head : Nat]
               /\ [client[s] EXCEPT !.seen = {}, !.head = 0].since = client[s].since
               /\ [client[s] EXCEPT !.seen = {}, !.head = 0].head = 0
    <3>1. client[s] \in [since : Nat, seen : SUBSET Nat, head : Nat]
      BY <1>2 DEF ClientViews
    <3> QED BY <3>1
  <2>2. client' \in ClientViews
    BY <2>1, <1>1 DEF ClientViews
  <2> QED BY <2>1, <2>2, <1>1, <1>2
<1>4. /\ delivery' \in Deliveries
      /\ \A s \in Clients : ClientHolds(s, saved, saved, client', delivery')
      /\ Reaches(saved, client', delivery')
  BY <1>1, <1>2, <1>3, UndeliveredHolds
<1>5. Held'
  <2>1. saved.sequence <= saved.sequence
    BY <1>2, NoticesTyped
  <2> QED BY <2>1, <1>1, <1>2, <1>3, <1>4 DEF Held
<1>6. kernel' \in KernelView /\ Listed(kernel', truth)
  BY <1>1, QuietIs
<1>7. calls' \in [Calls -> DiagnosticCall] /\ \A c \in Calls : CallHolds(calls'[c], ledger', client', truth')
  BY <1>1, IdleFits
<1>8. LedgerTypeOK'
  <2>1. ledger' \in Ledger /\ saved' \in Ledger
    BY <1>1, <1>2
  <2>2. truth' \in Analyses /\ content' \in Versions
    BY <1>1 DEF LedgerTypeOK
  <2>3. known' \in 0..MaxVersions
    BY <1>1, VersionIs
  <2>4. events' \in Nat
    BY <1>1, EventCounts
  <2> QED BY <2>1, <2>2, <2>3, <2>4, <1>3, <1>4, <1>6, <1>7 DEF LedgerTypeOK, ClientViews, Deliveries
<1> QED BY <1>1, <1>5, <1>6, <1>7, <1>8 DEF LedgerInv

(* The ledger begins with nothing in it. *)
LEMMA EmptyHolds ==
  ASSUME NEW t
  PROVE  Empty \in Ledger /\ Sound(Empty, t) /\ Pending(Empty)
<1>1. PICK is, ls : is = [f \in Findings |-> Unseen] /\ ls = [k \in Streams |-> NoLane]
  OBVIOUS
<1>2. Unseen \in Item /\ Unseen.status = "none" /\ Unseen.evidence = <<>>
  <2>1. 0 \in 0..MaxVersions /\ {} \in SUBSET Streams /\ <<>> \in Seq(Nat)
    BY VersionIs
  <2> QED BY <2>1 DEF Unseen, Item
<1>3. NoLane \in Dimension /\ NoLane.evidence = <<>>
  <2>1. <<>> \in Seq(Nat)
    OBVIOUS
  <2> QED BY <2>1 DEF NoLane, Dimension
<1>4. /\ is \in [Findings -> Item] /\ \A f \in Findings : is[f].status = "none" /\ is[f].evidence = <<>>
      /\ ls \in [Streams -> Dimension] /\ \A k \in Streams : ls[k].evidence = <<>>
  <2> HIDE DEF Item, Dimension, Unseen, NoLane
  <2> QED BY <1>1, <1>2, <1>3
<1>5. Empty = [sequence |-> 0, ack |-> 0, floor |-> 0, items |-> is, active |-> {}, stale |-> {}, evidence |-> {},
               notices |-> <<>>, lanes |-> ls, dimension |-> 0]
  BY <1>1 DEF Empty
<1>6. /\ Empty.sequence = 0 /\ Empty.ack = 0 /\ Empty.floor = 0 /\ Empty.items = is /\ Empty.active = {}
      /\ Empty.stale = {} /\ Empty.evidence = {} /\ Empty.notices = <<>> /\ Empty.lanes = ls /\ Empty.dimension = 0
  BY <1>5
<1>7. Empty \in Ledger
  <2>1. <<>> \in Seq(Notice)
    OBVIOUS
  <2> HIDE DEF Item, Notice, Evidence, Dimension
  <2> QED BY <2>1, <1>4, <1>5 DEF Ledger
<1>8. DOMAIN Empty.notices = {}
  BY <1>6
<1>9. Pending(Empty) /\ Numbered(Empty)
  BY <1>6, <1>8 DEF Pending, Numbered
<1>10. MembershipFollowsStatus(Empty) /\ WithdrawnBy(Empty, t)
  BY <1>4, <1>6 DEF MembershipFollowsStatus, WithdrawnBy
<1>11. EvidenceThere(Empty)
  <2>1. \A f \in Findings : ToSet(Empty.items[f].evidence) = {}
    BY <1>4, <1>6 DEF ToSet
  <2>2. \A k \in Streams : ToSet(Empty.lanes[k].evidence) = {}
    BY <1>4, <1>6 DEF ToSet
  <2> QED BY <2>1, <2>2 DEF EvidenceThere, Referenced
<1> QED BY <1>6, <1>7, <1>9, <1>10, <1>11 DEF Sound, DimensionRests

(* The invariant holds at the start, and every step keeps it. *)
LEMMA InitHolds ==
  ASSUME LedgerInit
  PROVE  LedgerInv
<1>1. /\ content = 1 /\ known = 1 /\ truth \in Analyses /\ kernel = Quiet(1) /\ ledger = Empty /\ saved = Empty
      /\ calls = [c \in Calls |-> Idle]
      /\ client = [c \in Clients |-> [since |-> 0, seen |-> {}, head |-> 0]]
      /\ delivery = Undelivered /\ events = 0
  BY DEF LedgerInit
<1>2. 1 \in Versions /\ 1 \in 0..MaxVersions
  BY EventAssumption DEF Versions
<1>3. Empty \in Ledger /\ Sound(Empty, truth) /\ Pending(Empty)
  BY EmptyHolds
<1>4. client \in ClientViews /\ \A s \in Clients : client[s].since = 0 /\ client[s].head = 0
  <2>1. {} \in SUBSET Nat /\ 0 \in Nat
    OBVIOUS
  <2> QED BY <2>1, <1>1 DEF ClientViews
<1>5. Empty.sequence \in Nat /\ Empty.sequence = 0
  BY DEF Empty
<1>6. /\ delivery \in Deliveries
      /\ \A s \in Clients : ClientHolds(s, ledger, saved, client, delivery)
      /\ Reaches(ledger, client, delivery)
  <2>1. \A s \in Clients : client[s].since <= Empty.sequence /\ client[s].head = 0
    BY <1>4, <1>5
  <2> QED BY <2>1, <1>1, <1>3, <1>4, UndeliveredHolds
<1>7. Held
  <2>1. saved.sequence <= ledger.sequence
    BY <1>1, <1>5
  <2> QED BY <2>1, <1>1, <1>3, <1>4, <1>6 DEF Held
<1>8. kernel \in KernelView /\ Listed(kernel, truth)
  BY <1>1, <1>2, QuietIs
<1>9. calls \in [Calls -> DiagnosticCall] /\ \A c \in Calls : CallHolds(calls[c], ledger, client, truth)
  BY <1>1, IdleFits
<1>10. LedgerTypeOK
  BY <1>1, <1>2, <1>3, <1>4, <1>6, <1>8, <1>9 DEF LedgerTypeOK, ClientViews, Deliveries
<1> QED BY <1>7, <1>8, <1>9, <1>10 DEF LedgerInv

LEMMA NextHolds ==
  ASSUME LedgerInv, [LedgerNext]_ledgerVars
  PROVE  LedgerInv'
<1>1. ASSUME NEW c \in Calls, Step(c) PROVE LedgerInv'
  <2>1. CASE RecordDiagnosticBaseline(c)
    BY <2>1, BaselineKeeps
  <2>2. CASE Write(c)
    BY <2>2, WriteKeeps
  <2>3. CASE Resync(c)
    BY <2>3, ResyncKeeps
  <2>4. CASE Fetch(c)
    BY <2>4, FetchKeeps
  <2>5. CASE CollectLateEvidence(c)
    BY <2>5, CollectKeeps
  <2>6. CASE RecordNext(c)
    BY <2>6, RecordNextKeeps
  <2>7. CASE corroborateWithProjectCheck(c)
    BY <2>7, CorroborateKeeps
  <2>8. CASE Acknowledge(c)
    BY <2>8, AcknowledgeKeeps
  <2>9. CASE Attach(c)
    BY <2>9, AttachKeeps
  <2>10. CASE DeliverPage(c)
    BY <2>10, DeliverPageKeeps
  <2>11. CASE At(c, "query") /\ \E since \in {0, client[calls[c].by].since} : query(c, since)
    BY <2>11, QueryKeeps
  <2> QED BY <1>1, <2>1, <2>2, <2>3, <2>4, <2>5, <2>6, <2>7, <2>8, <2>9, <2>10, <2>11 DEF Step
<1>2. ASSUME NEW c \in Calls, NEW s \in Clients, NEW pc \in {"baseline", "collect"}, Begin(c, s, pc) PROVE LedgerInv'
  BY <1>2, BeginKeeps
<1>3. ASSUME NEW k \in Streams, NEW v \in 0..kernel.buffer, NEW complete \in BOOLEAN, NEW fs \in SUBSET Findings,
             Publish(k, v, complete, fs)
      PROVE  LedgerInv'
  BY <1>3, PublishKeeps
<1>4. CASE RecordStagedDiagnostics
  BY <1>4, StagedKeeps
<1>5. CASE ExternalWrite
  BY <1>5, ExternalWriteKeeps
<1>6. CASE Snapshot
  BY <1>6, SnapshotKeeps
<1>7. CASE Restart
  BY <1>7, RestartKeeps
<1>8. CASE UNCHANGED ledgerVars
  <2> USE InvGives
  <2>1. UNCHANGED <<content, known, truth, kernel, ledger, saved, calls, client, delivery, events>>
    BY <1>8 DEF ledgerVars
  <2>2. Carries
    BY <2>1, NothingMoves
  <2>3. calls' \in [Calls -> DiagnosticCall] /\ \A d \in Calls : CallHolds(calls'[d], ledger', client', truth')
    BY <2>1, <2>2, AllHold
  <2> QED BY <2>1, <2>2, <2>3, Assembles
<1> QED BY <1>1, <1>2, <1>3, <1>4, <1>5, <1>6, <1>7, <1>8 DEF LedgerNext

(* The inductive invariant holds always: whatever is published, recorded, pruned,
   lost in a save or read again after a restart. *)
THEOREM LedgerInvariant == LedgerSpec => []LedgerInv
<1>1. LedgerInit => LedgerInv
  BY InitHolds
<1>2. LedgerInv /\ [LedgerNext]_ledgerVars => LedgerInv'
  BY NextHolds
<1> QED BY <1>1, <1>2, PTL DEF LedgerSpec

(* Membership follows status, what is named as evidence is there, an authoritative
   dimension rests on one content, and no cursor is ahead of the ledger that a restart
   would read (recordLocked, documentChangedLocked, pruneLocked, query, save). *)
THEOREM LedgerStaysConsistent == LedgerSpec => []LedgerConsistent
<1>1. LedgerInv => LedgerConsistent
  <2> SUFFICES ASSUME LedgerInv PROVE LedgerConsistent
    OBVIOUS
  <2>1. Sound(ledger, truth) /\ \A s \in Clients : client[s].since <= saved.sequence
    BY InvGives DEF Held, ClientHolds
  <2> QED BY <2>1 DEF Sound, Numbered, LedgerConsistent
<1> QED BY <1>1, LedgerInvariant, PTL

(* A finding is resolved only by an analysis of some content in which no stream that
   ever reported it finds it (resolveAbsentLocked). *)
THEOREM ResolvedIsWithdrawn == LedgerSpec => []ResolvedWasWithdrawn
<1>1. LedgerInv => ResolvedWasWithdrawn
  BY InvGives DEF Held, Sound, WithdrawnBy, ResolvedWasWithdrawn
<1> QED BY <1>1, LedgerInvariant, PTL

(* No kept notice is behind the cursor of a client that was not shown it
   (AttachDiagnosticUpdates, record, track). *)
THEOREM KeptNoticesReachClients == LedgerSpec => []NoticesReachClients
<1>1. LedgerInv => NoticesReachClients
  BY InvGives DEF Held, Reaches, NoticesReachClients
<1> QED BY <1>1, LedgerInvariant, PTL

-----------------------------------------------------------------------------
(* The backend: EmbeddedProvider. *)

USE CallerAssumption

(* What the steps are made of. *)

(* A call that has not begun has its type. *)
LEMMA NewCallIsCall == NewCall \in Call
<1>1. (CHOOSE i \in Ids : TRUE) \in Ids
  OBVIOUS
<1>2. "idle" \in Pc /\ "none" \in Outcome
  BY DEF Pc, Outcome
<1> DEFINE i == CHOOSE j \in Ids : TRUE
<1>3. NewCall = [pc |-> "idle", id |-> i, n |-> 0, epoch |-> 0, inbox |-> NoMessage,
                 outcome |-> "none", abandoned |-> FALSE]
  BY DEF NewCall
<1> HIDE DEF i
<1> QED BY <1>1, <1>2, <1>3 DEF Call, i

(* Steps that change one call. *)
OnlyCall(c) == \A d \in Callers \ {c} : call'[d] = call[d]

(* Replacing one call keeps the type and the others. *)
LEMMA SetEffect ==
  ASSUME TypeOK, NEW c \in Callers, NEW r \in Call, call' = [call EXCEPT ![c] = r]
  PROVE  call' \in [Callers -> Call] /\ OnlyCall(c) /\ call'[c] = r
BY DEF TypeOK, OnlyCall

(* Going on changes where a call is and nothing else (Go). *)
LEMMA GoEffect ==
  ASSUME TypeOK, NEW c \in Callers, NEW pc \in Pc, Go(c, pc)
  PROVE  /\ call' \in [Callers -> Call] /\ OnlyCall(c)
         /\ call'[c].pc = pc /\ call'[c].id = call[c].id /\ call'[c].n = call[c].n
         /\ call'[c].epoch = call[c].epoch /\ call'[c].inbox = call[c].inbox
         /\ call'[c].abandoned = call[c].abandoned
<1> DEFINE r == [call[c] EXCEPT !.pc = pc]
<1>1. call' = [call EXCEPT ![c] = r]
  BY DEF Go
<1>2. /\ r \in Call /\ r.pc = pc /\ r.id = call[c].id /\ r.n = call[c].n /\ r.epoch = call[c].epoch
      /\ r.inbox = call[c].inbox /\ r.abandoned = call[c].abandoned
  <2>1. call[c] \in Call
    BY DEF TypeOK
  <2> QED BY <2>1 DEF Call
<1> HIDE DEF r
<1> QED BY <1>1, <1>2, SetEffect

(* A call that returns keeps its number and gives its slot up (Return). *)
LEMMA ReturnEffect ==
  ASSUME TypeOK, NEW c \in Callers, NEW o \in Outcome, Return(c, o)
  PROVE  /\ call' \in [Callers -> Call] /\ OnlyCall(c)
         /\ call'[c].pc = "end" /\ call'[c].n = call[c].n /\ call'[c].inbox = NoMessage
         /\ call'[c].abandoned = FALSE
         /\ pending' = {s \in pending : s.owner # me(c)}
<1> DEFINE r == [NewCall EXCEPT !.pc = "end", !.n = call[c].n, !.outcome = o]
<1>1. call' = [call EXCEPT ![c] = r] /\ pending' = {s \in pending : s.owner # me(c)}
  BY DEF Return
<1>2. r \in Call /\ r.pc = "end" /\ r.n = call[c].n /\ r.inbox = NoMessage /\ r.abandoned = FALSE
  <2>1. call[c].n \in Nat /\ "end" \in Pc
    BY DEF TypeOK, Call, Pc
  <2>2. NewCall.inbox = NoMessage /\ NewCall.abandoned = FALSE
    BY DEF NewCall
  <2> QED BY <2>1, <2>2, NewCallIsCall DEF Call
<1> HIDE DEF r
<1> QED BY <1>1, <1>2, SetEffect

(* Replacing one generation keeps the type and the others. *)
LEMMA GenEffect ==
  ASSUME TypeOK, NEW e \in 1..epoch, NEW r \in Generation, gens' = [gens EXCEPT ![e] = r], epoch' = epoch
  PROVE  /\ gens' \in Seq(Generation) /\ epoch' = Len(gens')
         /\ gens'[e] = r /\ \A f \in 1..epoch : f # e => gens'[f] = gens[f]
<1>1. gens \in Seq(Generation) /\ epoch = Len(gens) /\ epoch \in Nat
  BY DEF TypeOK
<1>2. gens \in [1..epoch -> Generation]
  BY <1>1
<1>3. gens' \in [1..epoch -> Generation]
  BY <1>2
<1> QED BY <1>1, <1>2, <1>3

(* A terminated generation is not alive; one that was down stays down (terminate). *)
LEMMA TerminateEffect ==
  ASSUME NEW g \in Generation
  PROVE  /\ terminate(g) \in Generation /\ terminate(g).alive = FALSE
         /\ g.tree = "down" => terminate(g).tree = "down"
BY DEF terminate, Generation

(* Generations only grow older: none comes back, and none is started. *)
Aging ==
  /\ gens' \in Seq(Generation) /\ epoch' = Len(gens') /\ epoch' = epoch
  /\ \A e \in 1..epoch : /\ Done(e) => Done(e)'
                         /\ gens'[e].alive => gens[e].alive
                         /\ gens'[e].tree \in {"stopping", "down"} => ~gens'[e].alive

(* Where nothing happens to a generation, none comes back. *)
LEMMA SameAge ==
  ASSUME TypeOK, IInv, UNCHANGED <<gens, epoch>>
  PROVE  Aging
BY DEF Aging, TypeOK, IInv, GenInv, Done

(* A step on one generation that brings nothing back. *)
LEMMA OneAges ==
  ASSUME TypeOK, IInv, NEW e \in 1..epoch, NEW r \in Generation, gens' = [gens EXCEPT ![e] = r], epoch' = epoch,
         Done(e) => r.tree = "down", r.alive => gens[e].alive, r.tree \in {"stopping", "down"} => ~r.alive
  PROVE  Aging
<1>1. /\ gens' \in Seq(Generation) /\ epoch' = Len(gens')
      /\ gens'[e] = r /\ \A f \in 1..epoch : f # e => gens'[f] = gens[f]
  BY GenEffect
<1>2. \A f \in 1..epoch : gens[f].tree \in {"stopping", "down"} => ~gens[f].alive
  BY DEF IInv, GenInv
<1> QED BY <1>1, <1>2 DEF Aging, Done

-----------------------------------------------------------------------------
(* What a step leaves alone. *)

(* Generations that only age keep their order. *)
LEMMA GenFrame ==
  ASSUME GenInv, Aging
  PROVE  GenInv'
BY DEF GenInv, Aging, Done

(* While Close does not move, ageing generations keep its promises. *)
LEMMA CloseFrame ==
  ASSUME CloseInv, Aging, UNCHANGED <<closing, closed, rootLock>>
  PROVE  CloseInv'
BY DEF CloseInv, Aging, Done

(* b.mu passes between nobody and the caller that takes a step. *)
LockStep(c) ==
  /\ OnlyCall(c)
  /\ mutex' = mutex \/ {mutex, mutex'} \subseteq {c, NoOne}
  /\ (mutex' = c) <=> call'[c].pc \in Booting
  /\ closed' => mutex' = NoOne

(* A step of one caller that takes b.mu, keeps it or lets go of it. *)
LEMMA LockFrame ==
  ASSUME LockInv, NEW c \in Callers, LockStep(c)
  PROVE  LockInv'
<1>1. ASSUME NEW d \in Callers \ {c} PROVE (mutex' = d) <=> call'[d].pc \in Booting
  <2>1. call'[d] = call[d] /\ d # NoOne
    BY DEF LockStep, OnlyCall
  <2>2. (mutex' = d) <=> (mutex = d)
    BY <2>1 DEF LockStep
  <2> QED BY <2>1, <2>2 DEF LockInv
<1> QED BY <1>1 DEF LockInv, LockStep

(* A call that does not move is still where it says it is. *)
LEMMA PointFrame ==
  ASSUME Aging, NEW c \in Callers, PointOf(c), call'[c] = call[c]
  PROVE  PointOf(c)'
BY DEF PointOf, InFlight, Aging, Done

(* Steps that touch no call: a trace may go, and generations age. *)
LEMMA AgeSafe ==
  ASSUME TypeOK, IInv, Aging, LockInv', CloseInv', UNCHANGED <<mutex, pending, sent, call>>, jobs' \subseteq jobs,
         closed' \in BOOLEAN, rootLock' \in BOOLEAN, closing' \in {"no", "stop", "wait", "over"},
         health' \in {"starting", "healthy", "failed", "closed"}
  PROVE  TypeOK' /\ IInv'
<1>1. TypeOK'
  BY DEF TypeOK, Aging
<1>2. GenInv'
  BY GenFrame DEF IInv
<1>3. PointInv'
  BY PointFrame DEF IInv, PointInv
<1>4. SlotInv'
  BY DEF IInv, SlotInv, SlotOf, InFlight, Alike, me
<1>5. TraceInv'
  <2>1. Traces' \subseteq Traces
    BY DEF Traces
  <2>2. ASSUME NEW x \in Traces' PROVE TraceOf(x)'
    <3>1. TraceOf(x)
      BY <2>1 DEF IInv, TraceInv
    <3> QED BY <3>1 DEF TraceOf, Aging, Awaits, Alike, InFlight, me
  <2> QED BY <2>2 DEF IInv, TraceInv
<1>6. ResultIsOwn'
  BY DEF IInv, ResultIsOwn, me
<1> QED BY <1>1, <1>2, <1>3, <1>4, <1>5, <1>6 DEF IInv

(* A caller that returns, with nothing of its request left in a living generation. *)
LEMMA ReturnSafe ==
  ASSUME TypeOK, IInv, NEW c \in Callers, NEW o \in Outcome, Return(c, o),
         \A x \in Traces : x.owner = me(c) => ~gens[x.epoch].alive,
         mutex' = IF mutex = c THEN NoOne ELSE mutex,
         UNCHANGED <<rootLock, closed, closing, epoch, gens, jobs, sent>>,
         health' \in {"starting", "healthy", "failed", "closed"}
  PROVE  TypeOK' /\ IInv'
<1>1. /\ call' \in [Callers -> Call] /\ OnlyCall(c)
      /\ call'[c].pc = "end" /\ call'[c].n = call[c].n /\ call'[c].inbox = NoMessage
      /\ call'[c].abandoned = FALSE
      /\ pending' = {s \in pending : s.owner # me(c)}
  BY ReturnEffect
<1>2. TypeOK'
  BY <1>1 DEF TypeOK
<1>3. LockInv'
  BY <1>1, LockFrame DEF LockStep, IInv, LockInv, Booting
<1>4. GenInv' /\ CloseInv'
  BY SameAge, GenFrame, CloseFrame DEF IInv
<1>5. PointInv'
  <2>1. PointOf(c)'
    BY <1>1 DEF PointOf, InFlight, Booting
  <2> QED BY <1>1, <2>1, SameAge, PointFrame DEF IInv, PointInv, OnlyCall
<1>m. \A d \in Callers : me(d)' = me(d) /\ (d # c => me(d) # me(c))
  BY <1>1 DEF me, OnlyCall
<1>n. ~InFlight(c)' /\ \A d \in Callers \ {c} : (InFlight(d)' <=> InFlight(d)) /\ SlotOf(d)' = SlotOf(d)
  BY <1>1 DEF InFlight, OnlyCall, SlotOf, me
<1>6. SlotInv'
  <2>1. pending' = {SlotOf(d)' : d \in {f \in Callers : InFlight(f)'}}
    <3>1. \A d \in Callers : SlotOf(d).owner = me(d)
      BY DEF SlotOf
    <3>2. pending' = {SlotOf(d) : d \in {f \in Callers \ {c} : InFlight(f)}}
      BY <1>1, <1>m, <3>1 DEF IInv, SlotInv
    <3> QED BY <1>n, <3>2
  <2>2. \A d, f \in Callers : InFlight(d)' /\ InFlight(f)' /\ Alike(d, call[f])' => d = f
    BY <1>1, <1>n DEF IInv, SlotInv, Alike, OnlyCall
  <2> QED BY <2>1, <2>2 DEF SlotInv
<1>7. TraceInv'
  <2>1. ASSUME NEW x \in Traces PROVE TraceOf(x)'
    <3>1. TraceOf(x)
      BY <2>1 DEF IInv, TraceInv
    <3>2. ASSUME NEW d \in Callers
          PROVE  /\ x.owner[1] = d => x.owner[2] <= call'[d].n
                 /\ x.owner = me(d)' => /\ call'[d].inbox = NoMessage
                                        /\ call'[d].pc \in {"wait", "end"} \/ call'[d].abandoned
                 /\ InFlight(d)' /\ Alike(d, x)' => x.owner = me(d)'
      <4>1. CASE d = c
        BY <1>1, <1>m, <1>n, <3>1, <4>1 DEF TraceOf
      <4>2. CASE d # c
        BY <1>1, <1>m, <1>n, <3>1, <4>2 DEF TraceOf, OnlyCall, Alike
      <4> QED BY <4>1, <4>2
    <3>3. gens'[x.epoch].alive => \E d \in Callers : Awaits(d, x)'
      <4>1. \A d \in Callers \ {c} : Awaits(d, x) => Awaits(d, x)'
        BY <1>1, <1>m DEF Awaits, Alike, OnlyCall
      <4>2. gens[x.epoch].alive => ~Awaits(c, x)
        BY DEF Awaits
      <4> QED BY <3>1, <4>1, <4>2 DEF TraceOf
    <3> QED BY <3>1, <3>2, <3>3 DEF TraceOf
  <2>2. Traces' = Traces
    BY DEF Traces
  <2> QED BY <2>1, <2>2 DEF IInv, TraceInv
<1>8. ResultIsOwn'
  BY <1>1, <1>m DEF IInv, ResultIsOwn, OnlyCall
<1> QED BY <1>2, <1>3, <1>4, <1>5, <1>6, <1>7, <1>8 DEF IInv

(* A call that goes on without a slot won or lost. *)
LEMMA GoSafe ==
  ASSUME TypeOK, IInv, NEW c \in Callers, NEW pc \in Pc, Go(c, pc), Aging, LockStep(c), PointOf(c)',
         InFlight(c)' <=> InFlight(c),
         call[c].pc \in {"wait", "end"} /\ ~call[c].abandoned => pc \in {"wait", "end"},
         call[c].pc \in {"wait", "cancel", "kill"} /\ pc \notin {"wait", "cancel", "kill"} => ~gens'[call[c].epoch].alive,
         UNCHANGED <<rootLock, closed, closing, pending, jobs, sent>>, mutex' \in Callers \cup {NoOne},
         health' \in {"starting", "healthy", "failed", "closed"}
  PROVE  TypeOK' /\ IInv'
<1>1. /\ call' \in [Callers -> Call] /\ OnlyCall(c)
      /\ call'[c].pc = pc /\ call'[c].id = call[c].id /\ call'[c].n = call[c].n
      /\ call'[c].epoch = call[c].epoch /\ call'[c].inbox = call[c].inbox
      /\ call'[c].abandoned = call[c].abandoned
  BY GoEffect
<1>2. TypeOK'
  BY <1>1 DEF TypeOK, Aging
<1>3. LockInv' /\ GenInv' /\ CloseInv'
  BY LockFrame, GenFrame, CloseFrame DEF IInv
<1>4. PointInv'
  BY <1>1, PointFrame DEF IInv, PointInv, OnlyCall
<1>5. \A d \in Callers : /\ me(d)' = me(d) /\ (InFlight(d)' <=> InFlight(d)) /\ SlotOf(d)' = SlotOf(d)
                         /\ call'[d].epoch = call[d].epoch /\ call'[d].id = call[d].id
                         /\ call'[d].n = call[d].n /\ call'[d].inbox = call[d].inbox
                         /\ call'[d].abandoned = call[d].abandoned
  BY <1>1 DEF me, OnlyCall, InFlight, SlotOf
<1>6. SlotInv'
  BY <1>5 DEF IInv, SlotInv, Alike
<1>7. TraceInv'
  <2>1. ASSUME NEW x \in Traces PROVE TraceOf(x)'
    <3>1. TraceOf(x)
      BY <2>1 DEF IInv, TraceInv
    <3>2. ASSUME NEW d \in Callers
          PROVE  /\ x.owner[1] = d => x.owner[2] <= call'[d].n
                 /\ x.owner = me(d)' => /\ call'[d].inbox = NoMessage
                                        /\ call'[d].pc \in {"wait", "end"} \/ call'[d].abandoned
                 /\ InFlight(d)' /\ Alike(d, x)' => x.owner = me(d)'
      <4>1. call'[d].pc = call[d].pc \/ d = c
        BY <1>1 DEF OnlyCall
      <4> QED BY <1>1, <1>5, <3>1, <4>1 DEF TraceOf, Alike
    <3>3. gens'[x.epoch].alive => \E d \in Callers : Awaits(d, x)'
      <4>1. \A d \in Callers \ {c} : Awaits(d, x) => Awaits(d, x)'
        BY <1>1, <1>5 DEF Awaits, Alike, OnlyCall
      <4>2. gens'[x.epoch].alive /\ Awaits(c, x) => Awaits(c, x)'
        BY <1>1, <1>5 DEF Awaits, Alike
      <4> QED BY <3>1, <4>1, <4>2 DEF TraceOf, Aging
    <3> QED BY <3>1, <3>2, <3>3 DEF TraceOf, Aging
  <2>2. Traces' = Traces
    BY DEF Traces
  <2> QED BY <2>1, <2>2 DEF IInv, TraceInv
<1>8. ResultIsOwn'
  BY <1>5 DEF IInv, ResultIsOwn
<1> QED BY <1>2, <1>3, <1>4, <1>6, <1>7, <1>8 DEF IInv

(* A call that does not wait for the kernel has nothing in a living generation. *)
LEMMA NothingAwaited ==
  ASSUME IInv, NEW c \in Callers, call[c].pc \notin {"wait", "cancel", "kill"}
  PROVE  \A x \in Traces : x.owner = me(c) => ~gens[x.epoch].alive
<1> SUFFICES ASSUME NEW x \in Traces, x.owner = me(c), gens[x.epoch].alive PROVE FALSE
  OBVIOUS
<1>1. PICK d \in Callers : Awaits(d, x)
  BY DEF IInv, TraceInv, TraceOf
<1>2. d = c
  BY <1>1 DEF Awaits, me
<1> QED BY <1>1, <1>2 DEF Awaits

-----------------------------------------------------------------------------
(* The steps of a call. *)

(* A call takes the current generation, which it found alive or has just booted. *)
LEMMA TakeSafe ==
  ASSUME TypeOK, IInv, NEW c \in Callers, call[c].pc \in {"ensure", "boot"}, ~call[c].abandoned,
         call' = [call EXCEPT ![c] = [call[c] EXCEPT !.pc = "register", !.epoch = epoch]], epoch > 0,
         mutex' = IF mutex = c THEN NoOne ELSE mutex,
         UNCHANGED <<rootLock, closed, closing, epoch, gens, pending, jobs, sent>>,
         health' \in {"starting", "healthy", "failed", "closed"}
  PROVE  TypeOK' /\ IInv'
<1> DEFINE r == [call[c] EXCEPT !.pc = "register", !.epoch = epoch]
<1>e. epoch \in Nat /\ epoch \in 1..epoch
  BY DEF TypeOK
<1>r. r \in Call /\ r.pc = "register" /\ r.id = call[c].id /\ r.n = call[c].n /\ r.epoch = epoch
      /\ r.inbox = call[c].inbox /\ r.abandoned = call[c].abandoned
  <2>1. call[c] \in Call /\ "register" \in Pc
    BY DEF TypeOK, Pc
  <2> QED BY <1>e, <2>1 DEF Call
<1>s. call' = [call EXCEPT ![c] = r]
  OBVIOUS
<1> HIDE DEF r
<1>1. /\ call' \in [Callers -> Call] /\ OnlyCall(c)
      /\ call'[c].pc = "register" /\ call'[c].id = call[c].id /\ call'[c].n = call[c].n
      /\ call'[c].epoch = epoch /\ call'[c].inbox = call[c].inbox /\ call'[c].abandoned = FALSE
  <2>1. call'[c] = r /\ call' \in [Callers -> Call] /\ OnlyCall(c)
    BY <1>r, <1>s, SetEffect
  <2>2. r.abandoned = FALSE
    BY <1>r DEF TypeOK, Call
  <2> QED BY <1>r, <2>1, <2>2
<1>2. TypeOK'
  BY <1>1 DEF TypeOK
<1>3. LockInv'
  BY <1>1, LockFrame DEF LockStep, IInv, LockInv, Booting
<1>4. GenInv' /\ CloseInv'
  BY SameAge, GenFrame, CloseFrame DEF IInv
<1>5. PointInv'
  <2>1. call[c].inbox = NoMessage
    BY DEF IInv, PointInv, PointOf
  <2>2. PointOf(c)'
    BY <1>e, <1>1, <2>1 DEF PointOf, InFlight, Booting
  <2> QED BY <1>1, <2>2, SameAge, PointFrame DEF IInv, PointInv, OnlyCall
<1>6. ~InFlight(c) /\ ~InFlight(c)' /\ \A d \in Callers : me(d)' = me(d)
  BY <1>1 DEF InFlight, OnlyCall, me
<1>7. \A d \in Callers \ {c} : (InFlight(d)' <=> InFlight(d)) /\ SlotOf(d)' = SlotOf(d) /\ call'[d] = call[d]
  BY <1>1 DEF InFlight, OnlyCall, SlotOf, me
<1>8. SlotInv'
  <2>1. {SlotOf(d)' : d \in {f \in Callers : InFlight(f)'}} = {SlotOf(d) : d \in {f \in Callers : InFlight(f)}}
    BY <1>6, <1>7
  <2>2. \A d, f \in Callers : InFlight(d)' /\ InFlight(f)' /\ Alike(d, call[f])' => d = f
    BY <1>6, <1>7 DEF IInv, SlotInv, Alike
  <2> QED BY <2>1, <2>2 DEF IInv, SlotInv
<1>9. TraceInv'
  <2>1. ASSUME NEW x \in Traces PROVE TraceOf(x)'
    <3>1. TraceOf(x) /\ x.owner # me(c)
      BY <2>1 DEF IInv, TraceInv, TraceOf
    <3>2. ASSUME NEW d \in Callers
          PROVE  /\ x.owner[1] = d => x.owner[2] <= call'[d].n
                 /\ x.owner = me(d)' => /\ call'[d].inbox = NoMessage
                                        /\ call'[d].pc \in {"wait", "end"} \/ call'[d].abandoned
                 /\ InFlight(d)' /\ Alike(d, x)' => x.owner = me(d)'
      <4>1. CASE d = c
        BY <1>1, <1>6, <3>1, <4>1 DEF TraceOf
      <4>2. CASE d # c
        BY <1>6, <1>7, <3>1, <4>2 DEF TraceOf, Alike
      <4> QED BY <4>1, <4>2
    <3>3. gens'[x.epoch].alive => \E d \in Callers : Awaits(d, x)'
      <4>1. \A d \in Callers \ {c} : Awaits(d, x) => Awaits(d, x)'
        BY <1>6, <1>7 DEF Awaits, Alike
      <4>2. ~Awaits(c, x)
        BY <3>1 DEF Awaits
      <4> QED BY <3>1, <4>1, <4>2 DEF TraceOf
    <3> QED BY <3>1, <3>2, <3>3 DEF TraceOf
  <2>2. Traces' = Traces
    BY DEF Traces
  <2> QED BY <2>1, <2>2 DEF IInv, TraceInv
<1>10. ResultIsOwn'
  BY <1>1, <1>6, <1>7 DEF IInv, ResultIsOwn
<1> QED BY <1>2, <1>3, <1>4, <1>5, <1>8, <1>9, <1>10 DEF IInv

(* Call begins: its number is one no request had. *)
LEMMA CallStartSafe ==
  ASSUME TypeOK, IInv, NEW c \in Callers, NEW id \in Ids, CallStart(c, id)
  PROVE  TypeOK' /\ IInv'
<1> DEFINE r == [NewCall EXCEPT !.pc = "ensure", !.id = id, !.n = call[c].n + 1]
<1>0. call[c].pc \in {"idle", "end"} /\ call' = [call EXCEPT ![c] = r]
      /\ UNCHANGED <<mutex, rootLock, closed, closing, health, epoch, gens, pending, jobs, sent>>
  BY DEF CallStart
<1>n. call[c] \in Call /\ call[c].n \in Nat /\ call[c].n + 1 \in Nat
  BY DEF TypeOK, Call
<1>r. r \in Call /\ r.pc = "ensure" /\ r.n = call[c].n + 1 /\ r.epoch = 0 /\ r.inbox = NoMessage /\ r.abandoned = FALSE
  <2>1. NewCall.inbox = NoMessage /\ NewCall.abandoned = FALSE /\ NewCall.epoch = 0
    BY DEF NewCall
  <2>2. "ensure" \in Pc
    BY DEF Pc
  <2> QED BY <1>n, <2>1, <2>2, NewCallIsCall DEF Call
<1> HIDE DEF r
<1>1. call' \in [Callers -> Call] /\ OnlyCall(c) /\ call'[c] = r
  BY <1>0, <1>r, SetEffect
<1>2. TypeOK'
  BY <1>0, <1>1 DEF TypeOK
<1>3. LockInv'
  BY <1>0, <1>1, <1>r, LockFrame DEF LockStep, IInv, LockInv, Booting
<1>4. GenInv' /\ CloseInv'
  BY <1>0, SameAge, GenFrame, CloseFrame DEF IInv
<1>5. PointInv'
  <2>1. PointOf(c)'
    BY <1>1, <1>r DEF PointOf, InFlight, Booting
  <2> QED BY <1>0, <1>1, <2>1, SameAge, PointFrame DEF IInv, PointInv, OnlyCall
<1>6. ~InFlight(c) /\ ~InFlight(c)'
  BY <1>0, <1>1, <1>r DEF IInv, PointInv, PointOf, InFlight, Booting
<1>7. \A d \in Callers \ {c} : /\ (InFlight(d)' <=> InFlight(d)) /\ SlotOf(d)' = SlotOf(d) /\ call'[d] = call[d]
                               /\ me(d)' = me(d)
  BY <1>1 DEF InFlight, OnlyCall, SlotOf, me
<1>8. SlotInv'
  <2>1. {SlotOf(d)' : d \in {f \in Callers : InFlight(f)'}} = {SlotOf(d) : d \in {f \in Callers : InFlight(f)}}
    BY <1>6, <1>7
  <2>2. \A d, f \in Callers : InFlight(d)' /\ InFlight(f)' /\ Alike(d, call[f])' => d = f
    BY <1>6, <1>7 DEF IInv, SlotInv, Alike
  <2> QED BY <1>0, <2>1, <2>2 DEF IInv, SlotInv
<1>9. TraceInv'
  <2>1. ASSUME NEW x \in Traces PROVE TraceOf(x)'
    <3>0. x.owner \in Callers \X Nat
      BY <2>1 DEF TypeOK, Traces, Job, Message, Serial
    <3>1. TraceOf(x)
      BY <2>1 DEF IInv, TraceInv
    <3>2. ASSUME NEW d \in Callers
          PROVE  /\ x.owner[1] = d => x.owner[2] <= call'[d].n
                 /\ x.owner = me(d)' => /\ call'[d].inbox = NoMessage
                                        /\ call'[d].pc \in {"wait", "end"} \/ call'[d].abandoned
                 /\ InFlight(d)' /\ Alike(d, x)' => x.owner = me(d)'
      <4>1. CASE d = c
        <5>1. x.owner[1] = c => x.owner[2] <= call[c].n
          BY <3>1 DEF TraceOf
        <5>2. x.owner[1] = c => x.owner[2] <= call'[c].n /\ x.owner[2] # call'[c].n
          BY <1>n, <1>1, <1>r, <3>0, <5>1
        <5>3. x.owner # me(c)'
          BY <5>2 DEF me
        <5> QED BY <1>6, <4>1, <5>2, <5>3
      <4>2. CASE d # c
        BY <1>7, <3>1, <4>2 DEF TraceOf, Alike
      <4> QED BY <4>1, <4>2
    <3>3. gens'[x.epoch].alive => \E d \in Callers : Awaits(d, x)'
      <4>1. \A d \in Callers \ {c} : Awaits(d, x) => Awaits(d, x)'
        BY <1>7 DEF Awaits, Alike
      <4>2. ~Awaits(c, x)
        BY <1>0 DEF Awaits
      <4> QED BY <1>0, <3>1, <4>1, <4>2 DEF TraceOf
    <3> QED BY <1>0, <3>1, <3>2, <3>3 DEF TraceOf
  <2>2. Traces' = Traces
    BY <1>0 DEF Traces
  <2> QED BY <1>0, <2>1, <2>2 DEF IInv, TraceInv
<1>10. ResultIsOwn'
  BY <1>1, <1>r, <1>7 DEF IInv, ResultIsOwn
<1> QED BY <1>2, <1>3, <1>4, <1>5, <1>8, <1>9, <1>10 DEF IInv

(* ensureGeneration: an error, the living generation, or b.mu. *)
LEMMA EnsureSafe ==
  ASSUME TypeOK, IInv, NEW c \in Callers, ensureGeneration(c)
  PROVE  TypeOK' /\ IInv'
<1>0. call[c].pc = "ensure" /\ mutex = NoOne
      /\ UNCHANGED <<rootLock, closed, closing, health, epoch, gens, jobs, sent>> /\ epoch \in Nat
  BY DEF ensureGeneration, TypeOK
<1>h. health' \in {"starting", "healthy", "failed", "closed"} /\ c # NoOne
  BY <1>0 DEF TypeOK
<1>1. CASE Return(c, "failure") /\ UNCHANGED mutex
  <2>1. "failure" \in Outcome
    BY DEF Outcome
  <2> QED BY <1>0, <1>h, <1>1, <2>1, NothingAwaited, ReturnSafe
<1>2. CASE /\ epoch > 0 /\ ~call[c].abandoned
           /\ call' = [call EXCEPT ![c] = [call[c] EXCEPT !.pc = "register", !.epoch = epoch]]
           /\ UNCHANGED <<pending, mutex>>
  BY <1>0, <1>h, <1>2, TakeSafe
<1>3. ASSUME NEW pc \in {"start", "retiring"}, pc = IF epoch = 0 THEN "start" ELSE "retiring",
             Lock(c), Go(c, pc), UNCHANGED pending, ~closed
      PROVE  TypeOK' /\ IInv'
  <2>1. pc \in Pc /\ mutex' = c
    BY <1>3 DEF Pc, Lock
  <2>2. /\ call' \in [Callers -> Call] /\ OnlyCall(c)
        /\ call'[c].pc = pc /\ call'[c].id = call[c].id /\ call'[c].n = call[c].n
        /\ call'[c].epoch = call[c].epoch /\ call'[c].inbox = call[c].inbox
        /\ call'[c].abandoned = call[c].abandoned
    BY <1>3, <2>1, GoEffect
  <2>3. LockStep(c)
    BY <1>0, <1>3, <2>1, <2>2 DEF LockStep, Booting
  <2>4. PointOf(c)'
    BY <1>0, <1>3, <2>2 DEF IInv, PointInv, PointOf, InFlight, Booting
  <2>5. InFlight(c)' <=> InFlight(c)
    BY <1>0, <2>2 DEF InFlight
  <2> QED BY <1>0, <1>h, <1>3, <2>1, <2>3, <2>4, <2>5, SameAge, GoSafe
<1>4. \/ Return(c, "failure") /\ UNCHANGED mutex
      \/ /\ epoch > 0 /\ ~call[c].abandoned
         /\ call' = [call EXCEPT ![c] = [call[c] EXCEPT !.pc = "register", !.epoch = epoch]]
         /\ UNCHANGED <<pending, mutex>>
      \/ Lock(c) /\ Go(c, IF epoch = 0 THEN "start" ELSE "retiring") /\ UNCHANGED pending /\ ~closed
  BY DEF ensureGeneration
<1> QED BY <1>1, <1>2, <1>3, <1>4

(* A caller that holds b.mu and fails lets go of it. *)
LEMMA GiveUpSafe ==
  ASSUME TypeOK, IInv, NEW c \in Callers, call[c].pc \in Booting, Return(c, "failure"), Unlock,
         UNCHANGED <<rootLock, closed, closing, epoch, gens, jobs, sent>>,
         health' \in {"starting", "healthy", "failed", "closed"}
  PROVE  TypeOK' /\ IInv'
<1>1. "failure" \in Outcome
  BY DEF Outcome
<1>2. mutex = c /\ mutex' = NoOne
  BY DEF IInv, LockInv, Unlock
<1>3. call[c].pc \notin {"wait", "cancel", "kill"}
  BY DEF Booting
<1> QED BY <1>1, <1>2, <1>3, NothingAwaited, ReturnSafe

(* The retiring generation is gone, or the caller waits no longer. *)
LEMMA RetiredSafe ==
  ASSUME TypeOK, IInv, NEW c \in Callers, Retired(c)
  PROVE  TypeOK' /\ IInv'
<1>0. call[c].pc = "retiring" /\ call[c].pc \in Booting
      /\ UNCHANGED <<rootLock, closed, closing, health, epoch, gens, jobs, sent>>
  BY DEF Retired, Booting
<1>h. health' \in {"starting", "healthy", "failed", "closed"} /\ mutex = c /\ mutex \in Callers \cup {NoOne}
  BY <1>0 DEF TypeOK, IInv, LockInv
<1>1. CASE Return(c, "failure") /\ Unlock
  BY <1>0, <1>h, <1>1, GiveUpSafe
<1>2. CASE Done(epoch) /\ Go(c, "start") /\ UNCHANGED <<mutex, pending>>
  <2>1. "start" \in Pc
    BY DEF Pc
  <2>2. /\ call' \in [Callers -> Call] /\ OnlyCall(c)
        /\ call'[c].pc = "start" /\ call'[c].id = call[c].id /\ call'[c].n = call[c].n
        /\ call'[c].epoch = call[c].epoch /\ call'[c].inbox = call[c].inbox
        /\ call'[c].abandoned = call[c].abandoned
    BY <1>2, <2>1, GoEffect
  <2>3. LockStep(c)
    BY <1>0, <1>h, <1>2, <2>2 DEF LockStep, Booting, IInv, LockInv
  <2>4. PointOf(c)'
    BY <1>0, <1>2, <2>2 DEF IInv, PointInv, PointOf, InFlight, Booting, GenInv, Done
  <2>5. InFlight(c)' <=> InFlight(c)
    BY <1>0, <2>2 DEF InFlight
  <2> QED BY <1>0, <1>h, <1>2, <2>1, <2>3, <2>4, <2>5, SameAge, GoSafe
<1> QED BY <1>1, <1>2 DEF Retired

(* A new generation, when all before it are gone. *)
LEMMA LaunchedSafe ==
  ASSUME TypeOK, IInv, NEW c \in Callers, call[c].pc = "start", NEW k \in Kernels,
         epoch' = epoch + 1, health' = "starting", Go(c, "boot"),
         gens' = Append(gens, [kernel |-> k, alive |-> TRUE, tree |-> "up", reported |-> FALSE]),
         UNCHANGED <<mutex, rootLock, closed, closing, pending, jobs, sent>>
  PROVE  TypeOK' /\ IInv'
<1> DEFINE g == [kernel |-> k, alive |-> TRUE, tree |-> "up", reported |-> FALSE]
<1>g. g \in Generation /\ g.alive /\ g.tree = "up" /\ gens' = Append(gens, g)
  BY DEF Generation
<1> HIDE DEF g
<1>0. gens \in Seq(Generation) /\ epoch = Len(gens) /\ epoch \in Nat
  BY DEF TypeOK
<1>1. /\ gens' \in Seq(Generation) /\ epoch' = Len(gens') /\ gens'[epoch'] = g
      /\ \A e \in 1..epoch : gens'[e] = gens[e]
      /\ 1..epoch' = (1..epoch) \cup {epoch'} /\ epoch' \notin 1..epoch
  BY <1>0, <1>g
<1>2. /\ call' \in [Callers -> Call] /\ OnlyCall(c)
      /\ call'[c].pc = "boot" /\ call'[c].id = call[c].id /\ call'[c].n = call[c].n
      /\ call'[c].epoch = call[c].epoch /\ call'[c].inbox = call[c].inbox
      /\ call'[c].abandoned = call[c].abandoned
  BY GoEffect DEF Pc
<1>3. mutex = c /\ ~closed /\ rootLock
  <2>1. mutex = c /\ c # NoOne
    BY DEF IInv, LockInv, Booting
  <2> QED BY <2>1 DEF IInv, LockInv, CloseInv, TypeOK
<1>4. TypeOK'
  BY <1>1, <1>2 DEF TypeOK
<1>5. LockInv'
  BY <1>2, <1>3, LockFrame DEF LockStep, IInv, LockInv, Booting
<1>d. \A e \in 1..epoch : Done(e) /\ Done(e)'
  BY <1>1 DEF IInv, PointInv, PointOf, Done
<1>6. GenInv'
  BY <1>1, <1>d, <1>g DEF GenInv, IInv
<1>7. CloseInv'
  BY <1>0, <1>3 DEF CloseInv, IInv
<1>8. PointInv'
  <2>1. PointOf(c)'
    BY <1>0, <1>1, <1>2 DEF IInv, PointInv, PointOf, InFlight, Booting
  <2>2. ASSUME NEW d \in Callers \ {c} PROVE PointOf(d)'
    <3>1. call'[d] = call[d] /\ call[d].pc \notin Booting
      BY <1>2, <1>3 DEF OnlyCall, IInv, LockInv
    <3>2. PointOf(d)
      BY DEF IInv, PointInv
    <3> QED BY <1>0, <1>1, <3>1, <3>2 DEF PointOf, InFlight, Booting
  <2> QED BY <2>1, <2>2 DEF PointInv
<1>9. \A d \in Callers : /\ me(d)' = me(d) /\ (InFlight(d)' <=> InFlight(d)) /\ SlotOf(d)' = SlotOf(d)
                         /\ call'[d].epoch = call[d].epoch /\ call'[d].id = call[d].id
                         /\ call'[d].n = call[d].n /\ call'[d].inbox = call[d].inbox
                         /\ call'[d].abandoned = call[d].abandoned
                         /\ (call'[d].pc = call[d].pc \/ (call[d].pc = "start" /\ call'[d].pc = "boot"))
  BY <1>2 DEF me, OnlyCall, InFlight, SlotOf
<1>10. SlotInv'
  BY <1>9 DEF IInv, SlotInv, Alike
<1>11. TraceInv'
  <2>1. ASSUME NEW x \in Traces PROVE TraceOf(x)'
    <3>1. TraceOf(x)
      BY <2>1 DEF IInv, TraceInv
    <3>2. x.epoch \in 1..epoch /\ x.epoch \in 1..epoch' /\ gens'[x.epoch] = gens[x.epoch]
      BY <1>1, <3>1 DEF TraceOf
    <3>3. \A d \in Callers : Awaits(d, x) => Awaits(d, x)'
      BY <1>9 DEF Awaits, Alike
    <3>4. gens'[x.epoch].alive => \E d \in Callers : Awaits(d, x)'
      BY <3>1, <3>2, <3>3 DEF TraceOf
    <3>5. ASSUME NEW d \in Callers
          PROVE  /\ x.owner[1] = d => x.owner[2] <= call'[d].n
                 /\ x.owner = me(d)' => /\ call'[d].inbox = NoMessage
                                        /\ call'[d].pc \in {"wait", "end"} \/ call'[d].abandoned
                 /\ InFlight(d)' /\ Alike(d, x)' => x.owner = me(d)'
      BY <1>9, <3>1 DEF TraceOf, Alike
    <3> QED BY <3>2, <3>4, <3>5 DEF TraceOf
  <2>2. Traces' = Traces
    BY DEF Traces
  <2> QED BY <2>1, <2>2 DEF IInv, TraceInv
<1>12. ResultIsOwn'
  BY <1>9 DEF IInv, ResultIsOwn
<1> QED BY <1>4, <1>5, <1>6, <1>7, <1>8, <1>10, <1>11, <1>12 DEF IInv

(* A generation is started, or cannot be (startGenerationLocked). *)
LEMMA StartSafe ==
  ASSUME TypeOK, IInv, NEW c \in Callers, startGeneration(c)
  PROVE  TypeOK' /\ IInv'
<1>0. call[c].pc = "start" /\ call[c].pc \in Booting /\ UNCHANGED <<rootLock, closed, closing, jobs, sent>>
  BY DEF startGeneration, Booting
<1>1. CASE Return(c, "failure") /\ Unlock /\ UNCHANGED <<epoch, health, gens>>
  <2>1. health' \in {"starting", "healthy", "failed", "closed"}
    BY <1>1 DEF TypeOK
  <2> QED BY <1>0, <1>1, <2>1, GiveUpSafe
<1>2. CASE ~(Return(c, "failure") /\ Unlock /\ UNCHANGED <<epoch, health, gens>>)
  <2>1. PICK k \in Kernels :
          gens' = Append(gens, [kernel |-> k, alive |-> TRUE, tree |-> "up", reported |-> FALSE])
    BY <1>2 DEF startGeneration
  <2> QED BY <1>0, <1>2, <2>1, LaunchedSafe DEF startGeneration
<1> QED BY <1>1, <1>2

(* A generation is stopped by the caller that boots it, or whose cancellation it
   ignored. *)
LEMMA TerminateAges ==
  ASSUME TypeOK, IInv, NEW e \in 1..epoch, gens' = [gens EXCEPT ![e] = terminate(gens[e])], epoch' = epoch
  PROVE  Aging /\ ~gens'[e].alive
<1>1. gens[e] \in Generation
  BY DEF TypeOK
<1> DEFINE r == terminate(gens[e])
<1>2. r \in Generation /\ ~r.alive /\ (Done(e) => r.tree = "down") /\ gens' = [gens EXCEPT ![e] = r]
  BY <1>1, TerminateEffect DEF Done
<1> HIDE DEF r
<1>3. Aging
  BY <1>2, OneAges
<1>4. gens'[e] = r
  BY <1>2, GenEffect
<1> QED BY <1>2, <1>3, <1>4

(* A booted generation is taken, or dies at birth (bootstrap). *)
LEMMA BootstrapSafe ==
  ASSUME TypeOK, IInv, NEW c \in Callers, bootstrap(c)
  PROVE  TypeOK' /\ IInv'
<1>0. call[c].pc = "boot" /\ call[c].pc \in Booting /\ UNCHANGED <<rootLock, closed, closing, epoch, jobs, sent>>
  BY DEF bootstrap, Booting
<1>h. mutex = c /\ mutex \in Callers \cup {NoOne} /\ epoch > 0 /\ epoch \in 1..epoch
  BY <1>0 DEF TypeOK, IInv, LockInv, PointInv, PointOf, Booting
<1>1. CASE health' = "healthy" /\ Unlock /\ UNCHANGED gens /\ Return(c, "failure")
  BY <1>0, <1>1, GiveUpSafe
<1>2. CASE /\ health' = "healthy" /\ Unlock /\ UNCHANGED <<gens, pending>> /\ ~call[c].abandoned
           /\ call' = [call EXCEPT ![c] = [call[c] EXCEPT !.pc = "register", !.epoch = epoch]]
  BY <1>0, <1>h, <1>2, TakeSafe DEF Unlock
<1>3. CASE /\ Go(c, "stillborn") /\ gens' = [gens EXCEPT ![epoch] = terminate(gens[epoch])]
           /\ UNCHANGED <<mutex, health, pending>>
  <2>1. "stillborn" \in Pc
    BY DEF Pc
  <2>2. /\ call' \in [Callers -> Call] /\ OnlyCall(c)
        /\ call'[c].pc = "stillborn" /\ call'[c].id = call[c].id /\ call'[c].n = call[c].n
        /\ call'[c].epoch = call[c].epoch /\ call'[c].inbox = call[c].inbox
        /\ call'[c].abandoned = call[c].abandoned
    BY <1>3, <2>1, GoEffect
  <2>a. Aging
    BY <1>0, <1>h, <1>3, TerminateAges
  <2>3. LockStep(c)
    BY <1>0, <1>h, <1>3, <2>2 DEF LockStep, Booting, IInv, LockInv
  <2>4. PointOf(c)'
    <3>1. PointOf(c)
      BY DEF IInv, PointInv
    <3> QED BY <1>0, <1>h, <2>2, <2>a, <3>1 DEF PointOf, InFlight, Booting, Aging
  <2>5. InFlight(c)' <=> InFlight(c)
    BY <1>0, <2>2 DEF InFlight
  <2>6. health' \in {"starting", "healthy", "failed", "closed"}
    BY <1>3 DEF TypeOK
  <2> QED BY <1>0, <1>h, <1>3, <2>1, <2>3, <2>4, <2>5, <2>6, <2>a, GoSafe
<1> QED BY <1>1, <1>2, <1>3 DEF bootstrap

(* The still-born generation is joined and b.mu let go. *)
LEMMA StillbornSafe ==
  ASSUME TypeOK, IInv, NEW c \in Callers, Stillborn(c)
  PROVE  TypeOK' /\ IInv'
<1>1. call[c].pc \in Booting /\ health' \in {"starting", "healthy", "failed", "closed"}
  BY DEF Stillborn, Booting, TypeOK
<1> QED BY <1>1, GiveUpSafe DEF Stillborn

(* Where a caller that holds no lock returns an error. *)
LEMMA FailSafe ==
  ASSUME TypeOK, IInv, NEW c \in Callers, NEW o \in Outcome, call[c].pc \notin Booting, Return(c, o),
         \A x \in Traces : x.owner = me(c) => ~gens[x.epoch].alive,
         UNCHANGED <<mutex, rootLock, closed, closing, health, epoch, gens, jobs, sent>>
  PROVE  TypeOK' /\ IInv'
<1>1. mutex # c /\ health' \in {"starting", "healthy", "failed", "closed"}
  BY DEF IInv, LockInv, TypeOK
<1> QED BY <1>1, ReturnSafe

(* A slot for a generation and an ID nobody else has, in a living generation: no
   trace of an earlier request with them can be left. *)
LEMMA RegisteredSafe ==
  ASSUME TypeOK, IInv, NEW c \in Callers, call[c].pc = "register", gens[call[c].epoch].alive,
         ~\E s \in pending : s.epoch = call[c].epoch /\ s.id = call[c].id,
         pending' = pending \cup {SlotOf(c)}, Go(c, "submit"),
         UNCHANGED <<mutex, rootLock, closed, closing, health, epoch, gens, jobs, sent>>
  PROVE  TypeOK' /\ IInv'
<1>1. /\ call' \in [Callers -> Call] /\ OnlyCall(c)
      /\ call'[c].pc = "submit" /\ call'[c].id = call[c].id /\ call'[c].n = call[c].n
      /\ call'[c].epoch = call[c].epoch /\ call'[c].inbox = call[c].inbox
      /\ call'[c].abandoned = call[c].abandoned
  BY GoEffect DEF Pc
<1>2. TypeOK'
  <2>1. call[c] \in Call
    BY DEF TypeOK
  <2>2. SlotOf(c) \in PendingSlot
    BY <2>1 DEF SlotOf, me, PendingSlot, Serial, Call
  <2> QED BY <1>1, <2>2 DEF TypeOK
<1>3. LockInv'
  BY <1>1, LockFrame DEF LockStep, IInv, LockInv, Booting
<1>4. GenInv' /\ CloseInv'
  BY SameAge, GenFrame, CloseFrame DEF IInv
<1>a. ~call[c].abandoned /\ PointOf(c) /\ ~InFlight(c) /\ InFlight(c)'
  BY <1>1 DEF IInv, PointInv, PointOf, InFlight, Booting
<1>5. PointInv'
  <2>1. PointOf(c)'
    BY <1>1, <1>a DEF PointOf, InFlight, Booting
  <2> QED BY <1>1, <2>1, SameAge, PointFrame DEF IInv, PointInv, OnlyCall
<1>6. \A d \in Callers : /\ me(d)' = me(d) /\ SlotOf(d)' = SlotOf(d)
                         /\ call'[d].epoch = call[d].epoch /\ call'[d].id = call[d].id
                         /\ call'[d].n = call[d].n /\ call'[d].inbox = call[d].inbox
                         /\ call'[d].abandoned = call[d].abandoned
                         /\ d # c => (InFlight(d)' <=> InFlight(d)) /\ call'[d].pc = call[d].pc
  BY <1>1 DEF me, OnlyCall, InFlight, SlotOf
<1>7. \A d \in Callers : InFlight(d) => ~Alike(d, call[c])
  <2>1. \A d \in Callers : InFlight(d) => SlotOf(d) \in pending
    BY DEF IInv, SlotInv
  <2>2. \A d \in Callers : SlotOf(d).epoch = call[d].epoch /\ SlotOf(d).id = call[d].id
    BY DEF SlotOf
  <2> QED BY <2>1, <2>2 DEF Alike
<1>8. SlotInv'
  <2>1. {SlotOf(d)' : d \in {f \in Callers : InFlight(f)'}} = {SlotOf(d) : d \in {f \in Callers : InFlight(f)}} \cup {SlotOf(c)}
    BY <1>a, <1>6
  <2>2. \A d, f \in Callers : InFlight(d)' /\ InFlight(f)' /\ Alike(d, call[f])' => d = f
    BY <1>6, <1>7 DEF IInv, SlotInv, Alike
  <2> QED BY <2>1, <2>2 DEF IInv, SlotInv
<1>9. TraceInv'
  <2>1. ASSUME NEW x \in Traces PROVE TraceOf(x)'
    <3>1. TraceOf(x) /\ x.owner # me(c)
      BY <1>a, <2>1 DEF IInv, TraceInv, TraceOf
    <3>2. ~Alike(c, x)
      <4> SUFFICES ASSUME Alike(c, x) PROVE FALSE
        OBVIOUS
      <4>1. PICK d \in Callers : Awaits(d, x)
        BY <3>1 DEF TraceOf, Alike
      <4>2. InFlight(d)
        BY <4>1 DEF Awaits, InFlight, IInv, PointInv, PointOf
      <4> QED BY <1>7, <4>1, <4>2 DEF Awaits, Alike
    <3>3. \A d \in Callers : Awaits(d, x) => Awaits(d, x)'
      BY <1>6 DEF Awaits, Alike
    <3> QED BY <1>6, <3>1, <3>2, <3>3 DEF TraceOf, Alike
  <2>2. Traces' = Traces
    BY DEF Traces
  <2> QED BY <2>1, <2>2 DEF IInv, TraceInv
<1>10. ResultIsOwn'
  BY <1>6 DEF IInv, ResultIsOwn
<1> QED BY <1>2, <1>3, <1>4, <1>5, <1>8, <1>9, <1>10 DEF IInv

(* A slot is registered, or the call refused (registerPending). *)
LEMMA RegisterSafe ==
  ASSUME TypeOK, IInv, NEW c \in Callers, registerPending(c)
  PROVE  TypeOK' /\ IInv'
<1>0. call[c].pc = "register" /\ call[c].pc \notin Booting \cup {"wait", "cancel", "kill"}
      /\ UNCHANGED <<mutex, rootLock, closed, closing, health, epoch, gens, jobs, sent>>
  BY DEF registerPending, Booting
<1>1. CASE Return(c, "failure")
  BY <1>0, <1>1, NothingAwaited, FailSafe DEF Outcome
<1>2. CASE ~Return(c, "failure")
  <2>1. /\ gens[call[c].epoch].alive
        /\ ~\E s \in pending : s.epoch = call[c].epoch /\ s.id = call[c].id
        /\ pending' = pending \cup {SlotOf(c)} /\ Go(c, "submit")
    BY <1>2 DEF registerPending, SlotOf
  <2> QED BY <1>0, <2>1, RegisteredSafe
<1> QED BY <1>1, <1>2

(* The kernel takes a request: its only trace, in a slot nobody shares. *)
LEMMA SubmittedSafe ==
  ASSUME TypeOK, IInv, NEW c \in Callers, call[c].pc = "submit", gens[call[c].epoch].tree = "up", Go(c, "wait"),
         NEW j, j = [epoch |-> call[c].epoch, id |-> call[c].id, owner |-> me(c), cancelled |-> FALSE],
         jobs' = jobs \cup {j},
         UNCHANGED <<mutex, rootLock, closed, closing, health, epoch, gens, pending, sent>>
  PROVE  TypeOK' /\ IInv'
<1>j. /\ j \in Job /\ j.owner = me(c) /\ j.epoch = call[c].epoch /\ j.id = call[c].id
      /\ jobs' = jobs \cup {j} /\ call[c].n \in Nat
  <2>1. call[c] \in Call
    BY DEF TypeOK
  <2> QED BY <2>1 DEF me, Job, Serial, Call
<1>1. /\ call' \in [Callers -> Call] /\ OnlyCall(c)
      /\ call'[c].pc = "wait" /\ call'[c].id = call[c].id /\ call'[c].n = call[c].n
      /\ call'[c].epoch = call[c].epoch /\ call'[c].inbox = call[c].inbox
      /\ call'[c].abandoned = call[c].abandoned
  BY GoEffect DEF Pc
<1>2. TypeOK'
  BY <1>1, <1>j DEF TypeOK
<1>a. ~call[c].abandoned /\ call[c].inbox = NoMessage /\ PointOf(c) /\ InFlight(c) /\ InFlight(c)' /\ call[c].epoch \in 1..epoch
  BY <1>1 DEF IInv, PointInv, PointOf, InFlight, Booting
<1>3. LockInv'
  BY <1>1, LockFrame DEF LockStep, IInv, LockInv, Booting
<1>4. GenInv' /\ CloseInv'
  BY SameAge, GenFrame, CloseFrame DEF IInv
<1>5. PointInv'
  <2>1. PointOf(c)'
    BY <1>1, <1>a DEF PointOf, InFlight, Booting
  <2> QED BY <1>1, <2>1, SameAge, PointFrame DEF IInv, PointInv, OnlyCall
<1>6. \A d \in Callers : /\ me(d)' = me(d) /\ SlotOf(d)' = SlotOf(d) /\ (InFlight(d)' <=> InFlight(d))
                         /\ call'[d].epoch = call[d].epoch /\ call'[d].id = call[d].id
                         /\ call'[d].n = call[d].n /\ call'[d].inbox = call[d].inbox
                         /\ call'[d].abandoned = call[d].abandoned
                         /\ (d # c => call'[d].pc = call[d].pc)
  BY <1>1, <1>a DEF me, OnlyCall, InFlight, SlotOf
<1>7. SlotInv'
  BY <1>6 DEF IInv, SlotInv, Alike
<1>8. \A x \in Traces : x.owner # me(c)
  BY <1>a DEF IInv, TraceInv, TraceOf
<1>9. TraceInv'
  <2>1. ASSUME NEW x \in Traces PROVE TraceOf(x)'
    <3>1. TraceOf(x) /\ x.owner # me(c)
      BY <1>8, <2>1 DEF IInv, TraceInv
    <3>2. \A d \in Callers : Awaits(d, x) => Awaits(d, x)'
      BY <1>1, <1>6 DEF Awaits, Alike
    <3>3. gens'[x.epoch].alive => \E d \in Callers : Awaits(d, x)'
      BY <3>1, <3>2 DEF TraceOf
    <3>4. ASSUME NEW d \in Callers
          PROVE  /\ x.owner[1] = d => x.owner[2] <= call'[d].n
                 /\ x.owner = me(d)' => /\ call'[d].inbox = NoMessage
                                        /\ call'[d].pc \in {"wait", "end"} \/ call'[d].abandoned
                 /\ InFlight(d)' /\ Alike(d, x)' => x.owner = me(d)'
      BY <1>6, <3>1 DEF TraceOf, Alike
    <3> QED BY <3>1, <3>3, <3>4 DEF TraceOf
  <2>2. TraceOf(j)'
    <3>1. Awaits(c, j)'
      BY <1>1, <1>6, <1>j DEF Awaits, Alike
    <3>2. ASSUME NEW d \in Callers
          PROVE  /\ j.owner[1] = d => j.owner[2] <= call'[d].n
                 /\ j.owner = me(d)' => /\ call'[d].inbox = NoMessage
                                        /\ call'[d].pc \in {"wait", "end"} \/ call'[d].abandoned
                 /\ InFlight(d)' /\ Alike(d, j)' => j.owner = me(d)'
      <4>1. j.owner[1] = c /\ j.owner[2] = call[c].n
        BY <1>j DEF me
      <4>2. j.owner = me(d)' => d = c
        BY <1>6, <1>j DEF me
      <4>3. InFlight(d)' /\ Alike(d, j)' => d = c
        BY <1>6, <1>a, <1>j DEF IInv, SlotInv, Alike
      <4>4. me(c)' = me(c) /\ call'[c].n = call[c].n
        BY <1>6
      <4> QED BY <1>1, <1>a, <1>j, <4>1, <4>2, <4>3, <4>4
    <3> QED BY <1>a, <1>j, <3>1, <3>2 DEF TraceOf
  <2>3. Traces' = Traces \cup {j} /\ \A x \in Traces : x.owner # j.owner
    BY <1>8, <1>j DEF Traces
  <2>4. \A x \in Traces' : TraceOf(x)'
    BY <2>1, <2>2, <2>3
  <2> QED BY <1>j, <2>3, <2>4 DEF IInv, TraceInv, Traces
<1>10. ResultIsOwn'
  BY <1>6 DEF IInv, ResultIsOwn
<1> QED BY <1>2, <1>3, <1>4, <1>5, <1>7, <1>9, <1>10 DEF IInv

(* submit, when the kernel is there and when it is not. *)
LEMMA SubmitSafe ==
  ASSUME TypeOK, IInv, NEW c \in Callers, submit(c)
  PROVE  TypeOK' /\ IInv'
<1>0. call[c].pc = "submit" /\ call[c].pc \notin Booting \cup {"wait", "cancel", "kill"}
      /\ UNCHANGED <<mutex, rootLock, closed, closing, health, epoch, gens, sent>>
  BY DEF submit, Booting
<1>1. CASE Return(c, "failure") /\ UNCHANGED jobs
  BY <1>0, <1>1, NothingAwaited, FailSafe DEF Outcome
<1>2. CASE ~(Return(c, "failure") /\ UNCHANGED jobs)
  <2>1. /\ gens[call[c].epoch].tree = "up" /\ Go(c, "wait") /\ UNCHANGED pending
        /\ jobs' = jobs \cup {[epoch |-> call[c].epoch, id |-> call[c].id, owner |-> me(c), cancelled |-> FALSE]}
    BY <1>2 DEF submit
  <2> QED BY <1>0, <2>1, SubmittedSafe
<1> QED BY <1>1, <1>2

(* A call whose completion has arrived has nothing left on its way. *)
LEMMA AnsweredSafe ==
  ASSUME TypeOK, IInv, NEW c \in Callers, NEW o \in Outcome, call[c].inbox # NoMessage, Return(c, o),
         call[c].pc \notin Booting,
         UNCHANGED <<mutex, rootLock, closed, closing, health, epoch, gens, jobs, sent>>
  PROVE  TypeOK' /\ IInv'
<1>1. \A x \in Traces : x.owner # me(c)
  BY DEF IInv, TraceInv, TraceOf
<1> QED BY <1>1, FailSafe

(* The completion is decoded and returned. *)
LEMMA CompletedSafe ==
  ASSUME TypeOK, IInv, NEW c \in Callers, Completed(c)
  PROVE  TypeOK' /\ IInv'
<1>1. call[c].pc \notin Booting /\ decodeCompletion(call[c].inbox) \in Outcome
  BY DEF Completed, Booting, decodeCompletion, Outcome
<1> QED BY <1>1, AnsweredSafe DEF Completed

(* A generation that is gone is not alive. *)
LEMMA DiedSafe ==
  ASSUME TypeOK, IInv, NEW c \in Callers, Died(c)
  PROVE  TypeOK' /\ IInv'
<1>1. call[c].pc \notin Booting /\ "failure" \in Outcome /\ call[c].pc = "wait"
  BY DEF Died, Booting, Outcome
<1>2. call[c].epoch \in 1..epoch /\ ~gens[call[c].epoch].alive
  BY DEF Died, Done, IInv, PointInv, PointOf, InFlight, GenInv
<1>3. \A x \in Traces : x.owner = me(c) => ~gens[x.epoch].alive
  <2> SUFFICES ASSUME NEW x \in Traces, x.owner = me(c), gens[x.epoch].alive PROVE FALSE
    OBVIOUS
  <2>1. PICK d \in Callers : Awaits(d, x)
    BY DEF IInv, TraceInv, TraceOf
  <2>2. d = c
    BY <2>1 DEF Awaits, me
  <2> QED BY <1>2, <2>1, <2>2 DEF Awaits, Alike
<1> QED BY <1>1, <1>3, FailSafe DEF Died

(* The kernel is asked to cancel: the trace stays where it is, marked. *)
LEMMA AbandonSafe ==
  ASSUME TypeOK, IInv, NEW c \in Callers, abandon(c)
  PROVE  TypeOK' /\ IInv'
<1> DEFINE r == [call[c] EXCEPT !.pc = "cancel", !.abandoned = TRUE]
<1>0. /\ call[c].pc = "wait" /\ call' = [call EXCEPT ![c] = r]
      /\ jobs' = {IF j.owner = me(c) THEN [j EXCEPT !.cancelled = TRUE] ELSE j : j \in jobs}
      /\ UNCHANGED <<mutex, rootLock, closed, closing, health, epoch, gens, pending, sent>>
  BY DEF abandon
<1>r. r \in Call /\ r.pc = "cancel" /\ r.id = call[c].id /\ r.n = call[c].n /\ r.epoch = call[c].epoch
      /\ r.inbox = call[c].inbox /\ r.abandoned = TRUE
  <2>1. call[c] \in Call /\ "cancel" \in Pc
    BY DEF TypeOK, Pc
  <2> QED BY <2>1 DEF Call
<1> HIDE DEF r
<1>1. /\ call' \in [Callers -> Call] /\ OnlyCall(c)
      /\ call'[c].pc = "cancel" /\ call'[c].id = call[c].id /\ call'[c].n = call[c].n
      /\ call'[c].epoch = call[c].epoch /\ call'[c].inbox = call[c].inbox /\ call'[c].abandoned
  <2>1. call'[c] = r /\ call' \in [Callers -> Call] /\ OnlyCall(c)
    BY <1>0, <1>r, SetEffect
  <2> QED BY <1>r, <2>1
<1>j. /\ jobs' \subseteq Job
      /\ \A k \in jobs' : \E j \in jobs : k.owner = j.owner /\ k.epoch = j.epoch /\ k.id = j.id
                                          /\ (j.owner # me(c) => k = j)
      /\ \A k, l \in jobs' : k.owner = l.owner => k = l
  <2> DEFINE Mark(j) == IF j.owner = me(c) THEN [j EXCEPT !.cancelled = TRUE] ELSE j
  <2>1. \A j \in jobs : /\ Mark(j) \in Job /\ Mark(j).owner = j.owner /\ Mark(j).epoch = j.epoch
                        /\ Mark(j).id = j.id /\ (j.owner # me(c) => Mark(j) = j)
    BY DEF TypeOK, Job
  <2>2. jobs' = {Mark(j) : j \in jobs}
    BY <1>0
  <2>3. \A j, k \in jobs : j.owner = k.owner => j = k
    BY DEF IInv, TraceInv
  <2> HIDE DEF Mark
  <2> QED BY <2>1, <2>2, <2>3
<1>2. TypeOK'
  BY <1>0, <1>1, <1>j DEF TypeOK
<1>a. PointOf(c) /\ InFlight(c) /\ InFlight(c)' /\ call[c].epoch \in 1..epoch
  BY <1>0, <1>1 DEF IInv, PointInv, PointOf, InFlight
<1>3. LockInv'
  BY <1>0, <1>1, LockFrame DEF LockStep, IInv, LockInv, Booting
<1>4. GenInv' /\ CloseInv'
  BY <1>0, SameAge, GenFrame, CloseFrame DEF IInv
<1>5. PointInv'
  <2>1. PointOf(c)'
    BY <1>0, <1>1, <1>a DEF PointOf, InFlight, Booting
  <2> QED BY <1>0, <1>1, <2>1, SameAge, PointFrame DEF IInv, PointInv, OnlyCall
<1>6. \A d \in Callers : /\ me(d)' = me(d) /\ SlotOf(d)' = SlotOf(d) /\ (InFlight(d)' <=> InFlight(d))
                         /\ call'[d].epoch = call[d].epoch /\ call'[d].id = call[d].id
                         /\ call'[d].n = call[d].n /\ call'[d].inbox = call[d].inbox
                         /\ (d # c => call'[d].pc = call[d].pc /\ call'[d].abandoned = call[d].abandoned)
  BY <1>1, <1>a DEF me, OnlyCall, InFlight, SlotOf
<1>7. SlotInv'
  BY <1>0, <1>6 DEF IInv, SlotInv, Alike
<1>8. TraceInv'
  <2>1. ASSUME NEW x \in Traces' PROVE \E y \in Traces : TraceOf(y) /\ x.owner = y.owner /\ x.epoch = y.epoch /\ x.id = y.id
    BY <1>0, <1>j, <2>1 DEF Traces, IInv, TraceInv
  <2>2. ASSUME NEW x \in Traces' PROVE TraceOf(x)'
    <3>1. PICK y \in Traces : TraceOf(y) /\ x.owner = y.owner /\ x.epoch = y.epoch /\ x.id = y.id
      BY <2>1
    <3>2. \A d \in Callers : Awaits(d, y) => Awaits(d, x)'
      BY <1>0, <1>1, <1>6, <3>1 DEF Awaits, Alike
    <3>3. gens'[x.epoch].alive => \E d \in Callers : Awaits(d, x)'
      BY <1>0, <3>1, <3>2 DEF TraceOf
    <3>4. ASSUME NEW d \in Callers
          PROVE  /\ x.owner[1] = d => x.owner[2] <= call'[d].n
                 /\ x.owner = me(d)' => /\ call'[d].inbox = NoMessage
                                        /\ call'[d].pc \in {"wait", "end"} \/ call'[d].abandoned
                 /\ InFlight(d)' /\ Alike(d, x)' => x.owner = me(d)'
      BY <1>1, <1>6, <3>1 DEF TraceOf, Alike
    <3> QED BY <1>0, <3>1, <3>3, <3>4 DEF TraceOf
  <2>3. \A k \in jobs', m \in sent' : k.owner # m.owner
    BY <1>0, <1>j DEF IInv, TraceInv
  <2> QED BY <1>0, <1>j, <2>2, <2>3 DEF IInv, TraceInv
<1>9. ResultIsOwn'
  BY <1>6 DEF IInv, ResultIsOwn
<1> QED BY <1>2, <1>3, <1>4, <1>5, <1>7, <1>8, <1>9 DEF IInv

(* An acknowledged cancellation ends the call; without one, its generation is next. *)
LEMMA CancelSafe ==
  ASSUME TypeOK, IInv, NEW c \in Callers, cancelCooperatively(c)
  PROVE  TypeOK' /\ IInv'
<1>0. call[c].pc = "cancel" /\ call[c].pc \notin Booting
      /\ UNCHANGED <<mutex, rootLock, closed, closing, health, epoch, gens, jobs, sent>>
  BY DEF cancelCooperatively, Booting
<1>1. CASE Go(c, "kill") /\ UNCHANGED pending
  <2>1. "kill" \in Pc
    BY DEF Pc
  <2>2. /\ call' \in [Callers -> Call] /\ OnlyCall(c)
        /\ call'[c].pc = "kill" /\ call'[c].id = call[c].id /\ call'[c].n = call[c].n
        /\ call'[c].epoch = call[c].epoch /\ call'[c].inbox = call[c].inbox
        /\ call'[c].abandoned = call[c].abandoned
    BY <1>1, <2>1, GoEffect
  <2>3. LockStep(c)
    BY <1>0, <2>2 DEF LockStep, Booting, IInv, LockInv
  <2>4. PointOf(c)'
    BY <1>0, <2>2 DEF IInv, PointInv, PointOf, InFlight, Booting
  <2>5. InFlight(c)' <=> InFlight(c)
    BY <1>0, <2>2 DEF InFlight
  <2>6. health' \in {"starting", "healthy", "failed", "closed"} /\ mutex' \in Callers \cup {NoOne}
    BY <1>0 DEF TypeOK
  <2>7. call[c].abandoned
    BY <1>0 DEF IInv, PointInv, PointOf
  <2> QED BY <1>0, <1>1, <2>1, <2>3, <2>4, <2>5, <2>6, <2>7, SameAge, GoSafe
<1>2. CASE ~(Go(c, "kill") /\ UNCHANGED pending)
  <2> DEFINE o == IF call[c].inbox.payload = "cancelled" THEN "failure" ELSE decodeCompletion(call[c].inbox)
  <2>1. call[c].inbox # NoMessage /\ Return(c, o)
    BY <1>2 DEF cancelCooperatively
  <2>2. o \in Outcome
    BY DEF decodeCompletion, Outcome
  <2> HIDE DEF o
  <2> QED BY <1>0, <2>1, <2>2, AnsweredSafe
<1> QED BY <1>1, <1>2

(* The generation that ignored a cancellation is stopped. *)
LEMMA KillSafe ==
  ASSUME TypeOK, IInv, NEW c \in Callers, Kill(c)
  PROVE  TypeOK' /\ IInv'
<1>0. /\ call[c].pc = "kill" /\ call[c].pc \notin Booting /\ "killed" \in Pc /\ Go(c, "killed")
      /\ gens' = [gens EXCEPT ![call[c].epoch] = terminate(gens[call[c].epoch])]
      /\ UNCHANGED <<mutex, rootLock, closed, closing, health, epoch, pending, jobs, sent>>
  BY DEF Kill, Booting, Pc
<1>1. call[c].epoch \in 1..epoch /\ call[c].abandoned
  BY <1>0 DEF IInv, PointInv, PointOf, InFlight
<1>2. Aging /\ ~gens'[call[c].epoch].alive
  BY <1>0, <1>1, TerminateAges
<1>3. /\ call' \in [Callers -> Call] /\ OnlyCall(c)
      /\ call'[c].pc = "killed" /\ call'[c].id = call[c].id /\ call'[c].n = call[c].n
      /\ call'[c].epoch = call[c].epoch /\ call'[c].inbox = call[c].inbox
      /\ call'[c].abandoned = call[c].abandoned
  BY <1>0, GoEffect
<1>4. LockStep(c)
  BY <1>0, <1>3 DEF LockStep, Booting, IInv, LockInv
<1>5. PointOf(c)'
  BY <1>0, <1>1, <1>2, <1>3 DEF PointOf, InFlight, Booting
<1>6. InFlight(c)' <=> InFlight(c)
  BY <1>1, <1>3 DEF InFlight
<1>7. health' \in {"starting", "healthy", "failed", "closed"} /\ mutex' \in Callers \cup {NoOne}
  BY <1>0 DEF TypeOK
<1> QED BY <1>0, <1>1, <1>2, <1>4, <1>5, <1>6, <1>7, GoSafe

(* When it is gone, its caller goes back for another. *)
LEMMA KilledSafe ==
  ASSUME TypeOK, IInv, NEW c \in Callers, Killed(c)
  PROVE  TypeOK' /\ IInv'
<1>0. /\ call[c].pc = "killed" /\ call[c].pc \notin Booting /\ "ensure" \in Pc /\ Go(c, "ensure")
      /\ UNCHANGED <<mutex, rootLock, closed, closing, health, epoch, gens, pending, jobs, sent>>
  BY DEF Killed, Booting, Pc
<1>1. call[c].epoch \in 1..epoch /\ call[c].abandoned /\ ~gens[call[c].epoch].alive
  BY <1>0 DEF IInv, PointInv, PointOf, InFlight
<1>2. Aging
  BY <1>0, SameAge
<1>3. /\ call' \in [Callers -> Call] /\ OnlyCall(c)
      /\ call'[c].pc = "ensure" /\ call'[c].id = call[c].id /\ call'[c].n = call[c].n
      /\ call'[c].epoch = call[c].epoch /\ call'[c].inbox = call[c].inbox
      /\ call'[c].abandoned = call[c].abandoned
  BY <1>0, GoEffect
<1>4. LockStep(c)
  BY <1>0, <1>3 DEF LockStep, Booting, IInv, LockInv
<1>5. PointOf(c)'
  BY <1>0, <1>1, <1>3 DEF PointOf, InFlight, Booting
<1>6. InFlight(c)' <=> InFlight(c)
  BY <1>1, <1>3 DEF InFlight
<1>7. health' \in {"starting", "healthy", "failed", "closed"} /\ mutex' \in Callers \cup {NoOne}
  BY <1>0 DEF TypeOK
<1> QED BY <1>0, <1>1, <1>2, <1>4, <1>5, <1>6, <1>7, GoSafe

-----------------------------------------------------------------------------
(* The steps of the kernels, of serve and of Close. *)

(* Steps in which no caller moves: who is in flight, and for what, stays. *)
LEMMA CallersStay ==
  ASSUME NEW d \in Callers, call'[d] = call[d]
  PROVE  me(d)' = me(d) /\ SlotOf(d)' = SlotOf(d) /\ (InFlight(d)' <=> InFlight(d))
BY DEF me, SlotOf, InFlight

(* An answer takes the place of the request it answers. *)
LEMMA KernelAnswersSafe ==
  ASSUME TypeOK, IInv, NEW j \in jobs, NEW p \in Payload, KernelAnswers(j, p)
  PROVE  TypeOK' /\ IInv'
<1>0. UNCHANGED <<mutex, rootLock, closed, closing, health, epoch, gens, pending, call>> /\ jobs' = jobs \ {j}
  BY DEF KernelAnswers
<1>1. PICK m \in Message : m.epoch = j.epoch /\ m.id = j.id /\ m.owner = j.owner /\ sent' = sent \cup {m}
  <2>1. j \in Job
    BY DEF TypeOK
  <2>2. [epoch |-> j.epoch, id |-> j.id, owner |-> j.owner, payload |-> p] \in Message
    BY <2>1 DEF Message, Job
  <2> QED BY <2>2 DEF KernelAnswers
<1>2. TypeOK'
  BY <1>0, <1>1 DEF TypeOK
<1>3. LockInv' /\ GenInv' /\ CloseInv'
  BY <1>0 DEF IInv, LockInv, GenInv, CloseInv, Done
<1>4. PointInv'
  BY <1>0, SameAge, PointFrame DEF IInv, PointInv
<1>5. SlotInv'
  BY <1>0, CallersStay DEF IInv, SlotInv, Alike
<1>6. TraceInv'
  <2>1. ASSUME NEW x \in Traces' PROVE \E y \in Traces : TraceOf(y) /\ x.owner = y.owner /\ x.epoch = y.epoch /\ x.id = y.id
    BY <1>0, <1>1, <2>1 DEF Traces, IInv, TraceInv
  <2>2. ASSUME NEW x \in Traces' PROVE TraceOf(x)'
    <3>1. PICK y \in Traces : TraceOf(y) /\ x.owner = y.owner /\ x.epoch = y.epoch /\ x.id = y.id
      BY <2>1
    <3> QED BY <1>0, <3>1 DEF TraceOf, Awaits, Alike, InFlight, me
  <2>3. \A k, l \in jobs' : k.owner = l.owner => k = l
    BY <1>0 DEF IInv, TraceInv
  <2>4. \A k, l \in sent' : k.owner = l.owner => k = l
    BY <1>1 DEF IInv, TraceInv
  <2>5. \A k \in jobs', l \in sent' : k.owner # l.owner
    BY <1>0, <1>1 DEF IInv, TraceInv
  <2> QED BY <2>2, <2>3, <2>4, <2>5 DEF TraceInv
<1>7. ResultIsOwn'
  BY <1>0 DEF IInv, ResultIsOwn, me
<1> QED BY <1>2, <1>3, <1>4, <1>5, <1>6, <1>7 DEF IInv

(* The slot a completion finds is that of the request it completes. *)
LEMMA DeliverSafe ==
  ASSUME TypeOK, IInv, NEW m \in sent, deliver(m)
  PROVE  TypeOK' /\ IInv'
<1>0. UNCHANGED <<mutex, rootLock, closed, closing, health, epoch, gens, pending, jobs>> /\ sent' = sent \ {m}
  BY DEF deliver
<1>m. m \in Message /\ m \in Traces /\ TraceOf(m)
  BY DEF TypeOK, Traces, IInv, TraceInv
<1>1. ASSUME NEW d \in Callers
      PROVE  \/ call'[d] = call[d]
             \/ /\ call'[d] = [call[d] EXCEPT !.inbox = m]
                /\ m.owner = me(d) /\ InFlight(d) /\ call[d].inbox = NoMessage
  <2>1. CASE (\E s \in {t \in pending : pendingKey(m, t)} : s.owner = me(d)) /\ call[d].inbox = NoMessage
    <3>1. PICK s \in pending : pendingKey(m, s) /\ s.owner = me(d)
      BY <2>1
    <3>2. PICK f \in Callers : InFlight(f) /\ s = SlotOf(f)
      BY DEF IInv, SlotInv
    <3>3. f = d /\ Alike(d, m)
      BY <3>1, <3>2 DEF SlotOf, me, Alike, pendingKey
    <3>4. m.owner = me(d)
      BY <1>m, <3>2, <3>3 DEF TraceOf
    <3> QED BY <2>1, <3>2, <3>3, <3>4 DEF deliver
  <2>2. CASE ~((\E s \in {t \in pending : pendingKey(m, t)} : s.owner = me(d)) /\ call[d].inbox = NoMessage)
    BY <2>2 DEF deliver
  <2> QED BY <2>1, <2>2
<1>2. ASSUME NEW d \in Callers
      PROVE  /\ call'[d] \in Call
             /\ call'[d].pc = call[d].pc /\ call'[d].id = call[d].id /\ call'[d].n = call[d].n
             /\ call'[d].epoch = call[d].epoch /\ call'[d].abandoned = call[d].abandoned
             /\ call'[d].inbox = call[d].inbox
                  \/ (call'[d].inbox = m /\ m.owner = me(d) /\ InFlight(d) /\ call[d].inbox = NoMessage)
  <2>1. call[d] \in Call
    BY DEF TypeOK
  <2> DEFINE r == [call[d] EXCEPT !.inbox = m]
  <2>2. /\ r \in Call /\ r.pc = call[d].pc /\ r.id = call[d].id /\ r.n = call[d].n
        /\ r.epoch = call[d].epoch /\ r.abandoned = call[d].abandoned /\ r.inbox = m
    BY <1>m, <2>1 DEF Call
  <2> HIDE DEF r
  <2>3. call'[d] = call[d] \/ (call'[d] = r /\ m.owner = me(d) /\ InFlight(d) /\ call[d].inbox = NoMessage)
    BY <1>1 DEF r
  <2> QED BY <2>1, <2>2, <2>3
<1>3. TypeOK'
  <2>1. call' = [d \in Callers |-> call'[d]]
    BY DEF deliver
  <2>2. call' \in [Callers -> Call]
    BY <1>2, <2>1
  <2> QED BY <1>0, <2>2 DEF TypeOK
<1>4. \A d \in Callers : me(d)' = me(d) /\ SlotOf(d)' = SlotOf(d) /\ (InFlight(d)' <=> InFlight(d))
  BY <1>2 DEF me, SlotOf, InFlight
<1>5. LockInv'
  BY <1>0, <1>2 DEF IInv, LockInv
<1>6. GenInv' /\ CloseInv'
  BY <1>0 DEF IInv, GenInv, CloseInv, Done
<1>7. PointInv'
  <2>1. ASSUME NEW d \in Callers PROVE PointOf(d)'
    <3>1. PointOf(d)
      BY DEF IInv, PointInv
    <3>2. ~call'[d].abandoned /\ call'[d].pc # "wait" => call'[d].inbox = NoMessage
      <4>1. m.owner = me(d) /\ InFlight(d) /\ ~call[d].abandoned => call[d].pc = "wait"
        BY <1>m DEF TraceOf, InFlight
      <4> QED BY <1>2, <3>1, <4>1 DEF PointOf
    <3> QED BY <1>0, <1>2, <3>1, <3>2 DEF PointOf, InFlight, Done
  <2> QED BY <2>1 DEF PointInv
<1>8. SlotInv'
  BY <1>0, <1>2, <1>4 DEF IInv, SlotInv, Alike
<1>9. TraceInv'
  <2>1. ASSUME NEW x \in Traces, x # m PROVE TraceOf(x)' \/ x.owner = m.owner
    <3>1. TraceOf(x)
      BY <2>1 DEF IInv, TraceInv
    <3>2. \A d \in Callers : Awaits(d, x) => Awaits(d, x)'
      BY <1>2, <1>4 DEF Awaits, Alike
    <3>3. gens'[x.epoch].alive => \E d \in Callers : Awaits(d, x)'
      BY <1>0, <3>1, <3>2 DEF TraceOf
    <3>4. ASSUME NEW d \in Callers, x.owner # m.owner
          PROVE  /\ x.owner[1] = d => x.owner[2] <= call'[d].n
                 /\ x.owner = me(d)' => /\ call'[d].inbox = NoMessage
                                        /\ call'[d].pc \in {"wait", "end"} \/ call'[d].abandoned
                 /\ InFlight(d)' /\ Alike(d, x)' => x.owner = me(d)'
      BY <1>2, <1>4, <3>1, <3>4 DEF TraceOf, Alike
    <3> QED BY <1>0, <3>1, <3>3, <3>4 DEF TraceOf
  <2>2. Traces' \subseteq Traces /\ \A x \in Traces' : x.owner # m.owner
    BY <1>0 DEF Traces, IInv, TraceInv
  <2>3. \A x \in Traces' : TraceOf(x)'
    BY <2>1, <2>2
  <2> QED BY <1>0, <2>3 DEF IInv, TraceInv
<1>10. ResultIsOwn'
  BY <1>2, <1>4 DEF IInv, ResultIsOwn
<1> QED BY <1>3, <1>5, <1>6, <1>7, <1>8, <1>9, <1>10 DEF IInv

(* Steps on one generation alone. *)
LEMMA OneAgesSafe ==
  ASSUME TypeOK, IInv, NEW e \in 1..epoch, NEW r \in Generation, gens' = [gens EXCEPT ![e] = r],
         Done(e) => r.tree = "down", r.alive => gens[e].alive, r.tree \in {"stopping", "down"} => ~r.alive,
         UNCHANGED <<mutex, rootLock, closed, closing, epoch, pending, sent, call>>, jobs' \subseteq jobs,
         health' \in {"starting", "healthy", "failed", "closed"}
  PROVE  TypeOK' /\ IInv'
<1>1. Aging
  BY OneAges
<1>2. LockInv' /\ CloseInv'
  BY <1>1, CloseFrame DEF IInv, LockInv
<1>3. closed' \in BOOLEAN /\ rootLock' \in BOOLEAN /\ closing' \in {"no", "stop", "wait", "over"}
  BY DEF TypeOK
<1> QED BY <1>1, <1>2, <1>3, AgeSafe

(* A kernel dies, is stopped and joined, and is reported; an unanswered probe ends it. *)
LEMMA GenerationSafe ==
  ASSUME TypeOK, IInv, NEW e \in 1..epoch, Process(e) \/ KernelDies(e) \/ Health(e)
  PROVE  TypeOK' /\ IInv'
<1>1. gens[e] \in Generation /\ health \in {"starting", "healthy", "failed", "closed"}
  BY DEF TypeOK
<1>2. gens[e].tree \in {"stopping", "down"} => ~gens[e].alive
  BY DEF IInv, GenInv
<1>3. CASE serve(e)
  <2> DEFINE r == [gens[e] EXCEPT !.alive = FALSE, !.tree = "stopping"]
  <2>1. r \in Generation /\ ~r.alive /\ ~Done(e) /\ gens' = [gens EXCEPT ![e] = r] /\ jobs' \subseteq jobs
    BY <1>1, <1>3 DEF serve, Generation, Done
  <2>2. health' = health /\ UNCHANGED <<mutex, rootLock, closed, closing, epoch, pending, sent, call>>
    BY <1>3 DEF serve
  <2> HIDE DEF r
  <2> QED BY <1>1, <2>1, <2>2, OneAgesSafe
<1>4. CASE Joined(e)
  <2> DEFINE r == [gens[e] EXCEPT !.tree = "down"]
  <2>1. r \in Generation /\ ~r.alive /\ r.tree = "down" /\ gens' = [gens EXCEPT ![e] = r] /\ jobs' \subseteq jobs
    BY <1>1, <1>2, <1>4 DEF Joined, Tree, Generation
  <2>2. health' = health /\ UNCHANGED <<mutex, rootLock, closed, closing, epoch, pending, sent, call>>
    BY <1>4 DEF Joined
  <2> HIDE DEF r
  <2> QED BY <1>1, <2>1, <2>2, OneAgesSafe
<1>5. CASE Report(e)
  <2> DEFINE r == [gens[e] EXCEPT !.reported = TRUE]
  <2>1. /\ r \in Generation /\ r.alive = gens[e].alive /\ r.tree = gens[e].tree
        /\ gens' = [gens EXCEPT ![e] = r] /\ jobs' \subseteq jobs
    BY <1>1, <1>5 DEF Report, Generation
  <2>2. health' \in {"failed", health} /\ UNCHANGED <<mutex, rootLock, closed, closing, epoch, pending, sent, call>>
    BY <1>5 DEF Report
  <2> HIDE DEF r
  <2> QED BY <1>1, <1>2, <2>1, <2>2, OneAgesSafe DEF Done
<1>6. CASE KernelDies(e)
  <2> DEFINE r == [gens[e] EXCEPT !.tree = "crashed"]
  <2>1. /\ r \in Generation /\ r.alive = gens[e].alive /\ r.tree = "crashed" /\ ~Done(e)
        /\ gens' = [gens EXCEPT ![e] = r] /\ jobs' \subseteq jobs
    BY <1>1, <1>6 DEF KernelDies, Tree, Generation, Done
  <2>2. health' = health /\ UNCHANGED <<mutex, rootLock, closed, closing, epoch, pending, sent, call>>
    BY <1>6 DEF KernelDies
  <2> HIDE DEF r
  <2> QED BY <1>1, <2>1, <2>2, OneAgesSafe
<1>7. CASE Health(e)
  <2> DEFINE r == terminate(gens[e])
  <2>1. /\ r \in Generation /\ ~r.alive /\ ~Done(e)
        /\ gens' = [gens EXCEPT ![e] = r] /\ jobs' \subseteq jobs
    BY <1>1, <1>7, TerminateEffect DEF Health
  <2>2. health' = health /\ UNCHANGED <<mutex, rootLock, closed, closing, epoch, pending, sent, call>>
    BY <1>7 DEF Health
  <2> HIDE DEF r
  <2> QED BY <1>1, <2>1, <2>2, OneAgesSafe
<1> QED BY <1>3, <1>4, <1>5, <1>6, <1>7 DEF Process

(* Close: the root is let go at once only where no generation ever was, *)
LEMMA CloseSafe ==
  ASSUME TypeOK, IInv, Close
  PROVE  TypeOK' /\ IInv'
<1>0. /\ closing = "no" /\ mutex = NoOne /\ closed' = TRUE /\ health' = "closed"
      /\ closing' = IF epoch = 0 THEN "over" ELSE IF gens[epoch].alive THEN "stop" ELSE "wait"
      /\ rootLock' = (epoch # 0)
      /\ UNCHANGED <<mutex, epoch, gens, pending, jobs, sent, call>>
  BY DEF Close
<1>1. epoch \in Nat
  BY DEF TypeOK
<1>2. Aging
  BY <1>0, SameAge
<1>3. LockInv'
  BY <1>0 DEF IInv, LockInv
<1>4. CloseInv'
  <2>1. (closing' = "no") <=> ~closed'
    BY <1>0
  <2>2. closing' \in {"stop", "wait"} => epoch' > 0
    BY <1>0, <1>1
  <2>3. epoch # 0 => rootLock'
    BY <1>0, Zenon
  <2>4. epoch = 0 => closing' = "over" /\ 1..epoch' = {}
    BY <1>0
  <2> QED BY <2>1, <2>2, <2>3, <2>4 DEF CloseInv
<1>5. /\ closed' \in BOOLEAN /\ rootLock' \in BOOLEAN /\ closing' \in {"no", "stop", "wait", "over"}
      /\ health' \in {"starting", "healthy", "failed", "closed"} /\ jobs' \subseteq jobs
  BY <1>0
<1> QED BY <1>0, <1>2, <1>3, <1>4, <1>5, AgeSafe

(* and otherwise once its last generation, stopped, is gone. *)
LEMMA CloseStopSafe ==
  ASSUME TypeOK, IInv, CloseStop
  PROVE  TypeOK' /\ IInv'
<1> DEFINE r == [gens[epoch] EXCEPT !.alive = FALSE, !.tree = IF gens[epoch].tree = "down" THEN "down" ELSE "stopping"]
<1>0. /\ closing = "stop" /\ closing' = "wait" /\ gens' = [gens EXCEPT ![epoch] = r]
      /\ UNCHANGED <<mutex, rootLock, closed, health, epoch, pending, jobs, sent, call>>
  BY DEF CloseStop
<1>1. epoch \in 1..epoch
  BY <1>0 DEF TypeOK, IInv, CloseInv
<1>2. r \in Generation /\ ~r.alive /\ (Done(epoch) => r.tree = "down")
  <2>1. gens[epoch] \in Generation
    BY <1>1 DEF TypeOK
  <2> QED BY <2>1 DEF Generation, Done
<1> HIDE DEF r
<1>3. Aging
  BY <1>0, <1>1, <1>2, OneAges
<1>4. LockInv' /\ CloseInv'
  BY <1>0, <1>1, <1>3 DEF IInv, LockInv, CloseInv
<1>5. /\ closed' \in BOOLEAN /\ rootLock' \in BOOLEAN /\ closing' \in {"no", "stop", "wait", "over"}
      /\ health' \in {"starting", "healthy", "failed", "closed"} /\ jobs' \subseteq jobs
  BY <1>0 DEF TypeOK
<1> QED BY <1>0, <1>3, <1>4, <1>5, AgeSafe

(* Only then is the root let go. *)
LEMMA CloseWaitSafe ==
  ASSUME TypeOK, IInv, CloseWait
  PROVE  TypeOK' /\ IInv'
<1>0. /\ closing = "wait" /\ closing' = "over" /\ rootLock' = FALSE /\ Done(epoch)
      /\ UNCHANGED <<mutex, closed, health, epoch, gens, pending, jobs, sent, call>>
  BY DEF CloseWait
<1>1. Aging
  BY <1>0, SameAge
<1>2. LockInv'
  BY <1>0 DEF IInv, LockInv
<1>3. CloseInv'
  BY <1>0 DEF IInv, CloseInv, GenInv, Done
<1>4. /\ closed' \in BOOLEAN /\ rootLock' \in BOOLEAN /\ closing' \in {"no", "stop", "wait", "over"}
      /\ health' \in {"starting", "healthy", "failed", "closed"} /\ jobs' \subseteq jobs
  BY <1>0 DEF TypeOK
<1> QED BY <1>0, <1>1, <1>2, <1>3, <1>4, AgeSafe

-----------------------------------------------------------------------------
(* The theorems. *)

(* An opened backend has no generation and no calls. *)
LEMMA InitSafe == Init => TypeOK /\ IInv
<1> SUFFICES ASSUME Init PROVE TypeOK /\ IInv
  OBVIOUS
<1>1. \A c \in Callers : call[c] = NewCall
  BY DEF Init
<1>2. NewCall.pc = "idle" /\ NewCall.abandoned = FALSE /\ NewCall.inbox = NoMessage /\ NewCall.epoch = 0
  BY DEF NewCall
<1>3. 1..epoch = {} /\ epoch = Len(gens) /\ gens \in Seq(Generation)
  BY DEF Init
<1>4. TypeOK
  BY <1>3, NewCallIsCall DEF Init, TypeOK
<1>5. LockInv /\ GenInv /\ CloseInv
  BY <1>1, <1>2, <1>3 DEF Init, LockInv, GenInv, CloseInv, Booting
<1>6. PointInv
  BY <1>1, <1>2, <1>3 DEF PointInv, PointOf, InFlight, Booting
<1>7. \A c \in Callers : ~InFlight(c)
  BY <1>1, <1>2 DEF InFlight
<1>8. SlotInv
  BY <1>7 DEF Init, SlotInv
<1>9. TraceInv
  BY DEF Init, TraceInv, Traces
<1>10. ResultIsOwn
  BY <1>1, <1>2 DEF ResultIsOwn
<1> QED BY <1>4, <1>5, <1>6, <1>8, <1>9, <1>10 DEF IInv

(* Every step of a call keeps the invariant. *)
LEMMA CallStepSafe ==
  ASSUME TypeOK, IInv, NEW c \in Callers, CallStep(c)
  PROVE  TypeOK' /\ IInv'
BY EnsureSafe, RetiredSafe, StartSafe, BootstrapSafe, StillbornSafe, RegisterSafe, SubmitSafe,
   CompletedSafe, DiedSafe, AbandonSafe, CancelSafe, KillSafe, KilledSafe DEF CallStep

(* And so does every step of the backend. *)
LEMMA StepSafe == TypeOK /\ IInv /\ [Next]_vars => TypeOK' /\ IInv'
<1> SUFFICES ASSUME TypeOK, IInv, [Next]_vars PROVE TypeOK' /\ IInv'
  OBVIOUS
<1>1. ASSUME NEW c \in Callers, CallStep(c) PROVE TypeOK' /\ IInv'
  BY <1>1, CallStepSafe
<1>2. ASSUME NEW c \in Callers, NEW id \in Ids, CallStart(c, id) PROVE TypeOK' /\ IInv'
  BY <1>2, CallStartSafe
<1>3. ASSUME NEW e \in 1..epoch, Process(e) \/ KernelDies(e) \/ Health(e) PROVE TypeOK' /\ IInv'
  BY <1>3, GenerationSafe
<1>4. ASSUME NEW j \in jobs, NEW p \in Payload, KernelAnswers(j, p) PROVE TypeOK' /\ IInv'
  BY <1>4, KernelAnswersSafe
<1>5. ASSUME NEW m \in sent, deliver(m) PROVE TypeOK' /\ IInv'
  BY <1>5, DeliverSafe
<1>6. CASE Close \/ CloseStop \/ CloseWait
  BY <1>6, CloseSafe, CloseStopSafe, CloseWaitSafe
<1>7. CASE UNCHANGED vars
  <2>1. UNCHANGED <<mutex, rootLock, closed, closing, health, epoch, gens, pending, jobs, sent, call>>
    BY <1>7 DEF vars
  <2>2. LockInv' /\ CloseInv' /\ Aging
    BY <2>1, SameAge DEF IInv, LockInv, CloseInv, Done
  <2>3. /\ closed' \in BOOLEAN /\ rootLock' \in BOOLEAN /\ closing' \in {"no", "stop", "wait", "over"}
        /\ health' \in {"starting", "healthy", "failed", "closed"} /\ jobs' \subseteq jobs
    BY <2>1 DEF TypeOK
  <2> QED BY <2>1, <2>2, <2>3, AgeSafe
<1> QED BY <1>1, <1>2, <1>3, <1>4, <1>5, <1>6, <1>7 DEF Next

(* The inductive invariant holds: whoever holds b.mu is retiring, starting or booting
   a generation, every generation but the current one is gone, the completion slots
   are those of the calls in flight, and a living generation works on nothing that no
   call waits for. *)
THEOREM BackendInvariant == Spec => []TypeOK /\ []IInv
BY InitSafe, StepSafe, PTL DEF Spec

(* No call is ever given the completion of another request, however IDs are reused,
   cancellations ignored and notifications delayed (deliver, registerPending, abandon). *)
THEOREM ResultsAreOwn == Spec => []ResultIsOwn
<1>1. IInv => ResultIsOwn
  BY DEF IInv
<1> QED BY <1>1, BackendInvariant, PTL

(* At most one process tree of a backend is up at any time, and while one is the
   backend holds the lock on its root (Open, startGenerationLocked, Close). *)
THEOREM LockHeld == Spec => []LockCoversTree
<1>1. TypeOK /\ IInv => LockCoversTree
  <2> SUFFICES ASSUME TypeOK, IInv PROVE LockCoversTree
    OBVIOUS
  <2> DEFINE living == {e \in 1..epoch : ~Done(e)}
  <2>1. living \subseteq {epoch}
    BY DEF IInv, GenInv
  <2>2. IsFiniteSet({epoch}) /\ Cardinality({epoch}) = 1
    BY FS_Singleton
  <2>3. Cardinality(living) <= 1
    BY <2>1, <2>2, FS_Subset
  <2>4. living # {} => rootLock
    BY DEF IInv, CloseInv
  <2> QED BY <2>3, <2>4 DEF LockCoversTree
<1> QED BY <1>1, BackendInvariant, PTL
=============================================================================
