----------------------------- MODULE Revisions -----------------------------
(***************************************************************************)
(* What a workspace remembers of its documents, internal/workspace         *)
(* workspace.go and revision_budget.go: the last observation of each path, *)
(* the state sequence, and the revisions it still knows.                   *)
(*                                                                         *)
(* A revision token is derived from the path, the provider epoch and the   *)
(* bytes, so it is modelled by the epoch and the image.  Device, inode and *)
(* times only spare a rehash and are left out, as is the provider's dirty  *)
(* layer.  Retained records cost about the same, so the byte budget is a   *)
(* number of records.                                                      *)
(***************************************************************************)
EXTENDS Integers, Sequences, FiniteSets

CONSTANTS
  Paths,
  Images,          \* the contents of a file
  Missing,         \* no file
  Unseen,          \* no observation yet
  MaxHistory,      \* maxRevisionsPerDocument
  MaxSuperseded,   \* the historical budget
  MaxEpoch

ASSUME ImagesAssumption == Missing \notin Images /\ Unseen \notin Images \cup {Missing}
ASSUME HistoryAssumption == MaxHistory \in Nat \ {0} /\ {MaxSuperseded, MaxEpoch} \subseteq Nat

OnDisk == Images \cup {Missing}
Revision == [epoch : Nat, image : OnDisk]

(* The part of Workspace that w.mu protects: cache is documents, history is
   revisionHistory, superseded the eviction order of the budget, retained the
   revisions map, known the primed inventory. *)
Memory ==
  [seq : Nat, epoch : Nat, cache : [Paths -> OnDisk \cup {Unseen}],
   history : [Paths -> Seq(Revision)], superseded : Seq(Paths \X Revision),
   retained : SUBSET (Paths \X Revision), primed : BOOLEAN, known : SUBSET Paths]
NewMemory ==
  [seq |-> 1, epoch |-> 0, cache |-> [p \in Paths |-> Unseen],
   history |-> [p \in Paths |-> <<>>], superseded |-> <<>>, retained |-> {},
   primed |-> FALSE, known |-> {}]

Elems(s) == {s[i] : i \in DOMAIN s}
(* s without the first x. *)
Without(s, x) ==
  IF x \notin Elems(s) THEN s
  ELSE [i \in 1..(Len(s) - 1) |-> IF x \in {s[j] : j \in 1..i} THEN s[i + 1] ELSE s[i]]
revisionFor(m, image) == [epoch |-> m.epoch, image |-> image]

(* retireRevisionLocked: a replaced revision becomes evictable. *)
Retire(m, p, r) ==
  IF <<p, r>> \notin m.retained \/ <<p, r>> \in Elems(m.superseded) THEN m
  ELSE [m EXCEPT !.superseded = Append(@, <<p, r>>)]

(* Mutant: a revision that is current again stays evictable. *)
ReviveNothing(m, p, r) == m

(* reviveRevisionLocked: it is current again, or about to be dropped. *)
Revive(m, p, r) == [m EXCEPT !.superseded = Without(@, <<p, r>>)]

(* The per-document bound drops the oldest revision. *)
CapHistory(m, p) ==
  IF Len(m.history[p]) <= MaxHistory THEN m
  ELSE LET oldest == Head(m.history[p]) IN
       [Revive(m, p, oldest) EXCEPT !.retained = @ \ {<<p, oldest>>}, !.history[p] = Tail(@)]

(* enforceRevisionBudgetLocked: the least recently superseded goes; each observation
   retires one revision at most, so there is never more than one too many. *)
EnforceBudget(m) ==
  LET oldest == Head(m.superseded) IN
  IF Len(m.superseded) <= MaxSuperseded THEN m
  ELSE [m EXCEPT !.superseded = Tail(@), !.retained = @ \ {oldest},
                 !.history[oldest[1]] = Without(@, oldest[2])]

(* rememberRevisionLocked *)
Remember(m, p, r) ==
  LET h == m.history[p]
      retired == IF h # <<>> /\ h[Len(h)] # r THEN Retire(m, p, h[Len(h)]) ELSE m
      revived == Revive(retired, p, r)
      appended == [revived EXCEPT !.history[p] = Append(Without(@, r), r)]
      capped == CapHistory(appended, p) IN
  EnforceBudget([capped EXCEPT !.retained = @ \cup {<<p, r>>}])

(* The locked half of snapshot: publish what was inspected, and advance the
   sequence if it differs from what is recorded now. *)
Publish(m, p, image) ==
  LET changed == m.cache[p] \notin {Unseen, image}
      seen == [m EXCEPT !.seq = IF changed THEN @ + 1 ELSE @, !.cache[p] = image] IN
  Remember(seen, p, revisionFor(seen, image))

(* The locked half of PrimeDocuments: an inventory that changed since the last
   priming is one step. *)
Inventory(m, current) ==
  [m EXCEPT !.seq = IF m.primed /\ m.known # current THEN @ + 1 ELSE @,
            !.known = current, !.primed = TRUE]

SyncProviderEpoch(m) == [m EXCEPT !.epoch = @ + 1, !.seq = @ + 1]

(* ValidateMutation, once the path has been refreshed to image: the token has to
   name the bytes, and a token the workspace knows has to be of this epoch. *)
Valid(m, p, expected, image) == revisionFor(m, image) = expected

-----------------------------------------------------------------------------
(* The revision of the last observation is never evicted, and the records that
   count against the budget are exactly the retained ones a newer observation
   replaced: rememberRevisionLocked and the budget keep three structures in
   step. *)
Accounted(m) ==
  /\ \A p \in Paths : m.cache[p] # Unseen =>
       /\ m.history[p] # <<>>
       /\ m.history[p][Len(m.history[p])].image = m.cache[p]
       /\ <<p, m.history[p][Len(m.history[p])]>> \in m.retained
  /\ m.retained = UNION {{<<p, r>> : r \in Elems(m.history[p])} : p \in Paths}
  /\ Elems(m.superseded) =
       UNION {{<<p, m.history[p][i]>> : i \in 1..(Len(m.history[p]) - 1)} : p \in Paths}
  /\ Len(m.superseded) <= MaxSuperseded
=============================================================================
