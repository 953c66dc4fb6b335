---------------------------- MODULE ProviderPool ----------------------------
(***************************************************************************)
(* The provider pool, internal/providerpool/provider_pool.go,              *)
(* provider_limits.go and provider_reap.go: one slot per workspace whose   *)
(* provider callers lease, a bound on live providers that evicts the least *)
(* recently used idle one, the idle reaper, and Close.                     *)
(*                                                                         *)
(* A provider is a black box here: it opens or fails to, loses its health, *)
(* replaces its own generation, closes or fails to.  Times only say which  *)
(* use came first and whether a slot was used since a snapshot, so earlier *)
(* relates the slots by last use, and a use strikes the slot from every    *)
(* snapshot.                                                               *)
(***************************************************************************)
EXTENDS Integers, Sequences, FiniteSets

CONSTANTS
  Workspaces,
  Lessees,
  Reaper, NoOne,
  MaxProviders,      \* Limits.MaxProviders
  MaxCalls, MaxMishaps   \* requests, each of which opens at most one provider, and faults

ASSUME ActorAssumption == Reaper \notin Lessees /\ NoOne \notin Lessees \cup {Reaper} \cup Workspaces
ASSUME BoundAssumption == MaxProviders \in Nat \ {0} /\ {MaxCalls, MaxMishaps} \subseteq Nat

VARIABLES
  owned,       \* the reservations
  backends,    \* every provider a reservation was made for
  slots,
  earlier,     \* the pairs of workspaces whose first was last used before the second
  admit,       \* who holds admitMu
  actor,       \* what callers and the reaper are doing
  pool,        \* where Close is
  given,       \* history: the highest epoch a workspace was given
  spent

poolVars == <<owned, backends, slots, earlier, admit, actor, pool, given, spent>>

Actors == Lessees \cup {Reaper}
Backend == [state : {"opening", "open", "stuck", "closed"}, healthy : BOOLEAN, epoch : Nat]
Slot == [lock : Actors \cup {NoOne}, backend : Nat, users : Nat, epoch : Nat]
Pc == {"idle", "lock", "look", "closeold", "reserve", "admit", "evict", "evicting", "open", "install",
       "using", "pinned", "existing", "restart", "restarting", "reaping"}
Actor == [pc : Pc, ws : Workspaces \cup {NoOne}, backend : Nat,
          victims : SUBSET Workspaces, victim : Workspaces \cup {NoOne}]
Idle == [pc |-> "idle", ws |-> NoOne, backend |-> 0, victims |-> {}, victim |-> NoOne]

(* Everything has its shape, and every reservation is for a provider. *)
PoolTypeOK ==
  /\ backends \in Seq(Backend) /\ owned \subseteq DOMAIN backends
  /\ slots \in [Workspaces -> Slot] /\ earlier \subseteq Workspaces \X Workspaces
  /\ admit \in Actors \cup {NoOne}
  /\ actor \in [Actors -> Actor]
  /\ pool \in [phase : {"open", "waiting", "joining", "slots", "owned", "closed"}, todo : SUBSET Workspaces]
  /\ given \in [Workspaces -> Nat]

PoolInit ==
  /\ owned = {} /\ backends = <<>>
  /\ slots = [w \in Workspaces |-> [lock |-> NoOne, backend |-> 0, users |-> 0, epoch |-> 0]]
  /\ earlier = {}
  /\ admit = NoOne
  /\ actor = [a \in Actors |-> Idle]
  /\ pool = [phase |-> "open", todo |-> {}]
  /\ given = [w \in Workspaces |-> 0]
  /\ spent = [calls |-> 0, mishaps |-> 0]

-----------------------------------------------------------------------------
isClosed == pool.phase # "open"
At(a, pc) == actor[a].pc = pc
Go(a, pc) == actor' = [actor EXCEPT ![a] = [actor[a] EXCEPT !.pc = pc]]
SetLock(w, a) == slots' = [slots EXCEPT ![w] = [slots[w] EXCEPT !.lock = a]]
Mishap == spent.mishaps < MaxMishaps /\ spent' = [spent EXCEPT !.mishaps = @ + 1]

(* A use of a slot is the latest, and no snapshot taken before it is still true
   of the slot. *)
Used(w) == earlier' = {p \in earlier : p[1] # w} \cup ((Workspaces \ {w}) \X {w})
Strike(w, after) == [a \in Actors |-> [after[a] EXCEPT !.victims = @ \ {w}]]

(* leaseLocked *)
leaseLocked(a, w, b) ==
  /\ slots' = [slots EXCEPT ![w] = [slots[w] EXCEPT !.users = slots[w].users + 1, !.lock = NoOne, !.backend = b]]
  /\ actor' = Strike(w, [actor EXCEPT ![a] = [Idle EXCEPT !.pc = "using", !.ws = w, !.backend = b]])
  /\ given' = [given EXCEPT ![w] = IF backends[b].epoch > @ THEN backends[b].epoch ELSE @]
  /\ Used(w)

(* A call that fails lets go of its slot. *)
Fail(a) ==
  /\ actor' = [actor EXCEPT ![a] = Idle]
  /\ slots' = [w \in Workspaces |-> IF slots[w].lock = a THEN [slots[w] EXCEPT !.lock = NoOne] ELSE slots[w]]

-----------------------------------------------------------------------------
(* A caller asks for the provider of a workspace, an existing one, a fresh one, or
   one of its own for a sandbox (Open).  A closed pool's new slots are empty. *)
Ask(c, w, pc) ==
  /\ At(c, "idle") /\ spent.calls < MaxCalls
  /\ spent' = [spent EXCEPT !.calls = @ + 1]
  /\ actor' = [actor EXCEPT ![c] = IF pc = "reserve" THEN [Idle EXCEPT !.pc = pc]
                                   ELSE [Idle EXCEPT !.pc = pc, !.ws = w]]
  /\ UNCHANGED <<owned, backends, slots, earlier, admit, pool, given>>

LockSlot(c) ==
  LET w == actor[c].ws IN
  /\ At(c, "lock") /\ slots[w].lock = NoOne
  /\ SetLock(w, c)
  /\ Go(c, "look")
  /\ UNCHANGED <<owned, backends, earlier, admit, pool, given, spent>>

(* Canonical, with the slot locked. *)
Canonical(c) ==
  LET w == actor[c].ws
      b == slots[w].backend IN
  /\ At(c, "look")
  /\ IF isClosed THEN Fail(c) /\ UNCHANGED <<earlier, given>>
     ELSE IF b # 0 /\ backends[b].healthy /\ backends[b].state = "open" THEN leaseLocked(c, w, b)
     ELSE IF b # 0 /\ slots[w].users # 0 THEN Fail(c) /\ UNCHANGED <<earlier, given>>
     ELSE Go(c, IF b # 0 THEN "closeold" ELSE "reserve") /\ UNCHANGED <<slots, earlier, given>>
  /\ UNCHANGED <<owned, backends, admit, pool, spent>>

(* Existing never starts one. *)
Existing(c) ==
  LET w == actor[c].ws
      b == slots[w].backend IN
  /\ At(c, "existing") /\ slots[w].lock = NoOne
  /\ IF b = 0 \/ isClosed THEN Fail(c) /\ UNCHANGED <<earlier, given>> ELSE leaseLocked(c, w, b)
  /\ UNCHANGED <<owned, backends, admit, pool, spent>>

(* Restart closes an unused provider and asks for a fresh one. *)
Restart(c) ==
  LET w == actor[c].ws IN
  /\ At(c, "restart") /\ slots[w].lock = NoOne
  /\ IF slots[w].users # 0 THEN Fail(c)
     ELSE IF slots[w].backend = 0 THEN Go(c, "lock") /\ UNCHANGED slots
     ELSE SetLock(w, c) /\ Go(c, "restarting")
  /\ UNCHANGED <<owned, backends, earlier, admit, pool, given, spent>>

-----------------------------------------------------------------------------
(* Closing a slot's provider: slow, under the slot's lock.  The generation is
   recorded before, the reservation is given back after; a failure keeps both
   (closeSlotLocked, ownedProvider.Close). *)
CloseBackends(bs) ==
  /\ backends' = [b \in DOMAIN backends |-> IF b \in bs THEN [backends[b] EXCEPT !.state = "closed"] ELSE backends[b]]
  /\ owned' = owned \ bs
Shut(w) == slots[w].backend # 0 /\ CloseBackends({slots[w].backend})

(* Mutant: the generation is not recorded. *)
ShutSlotForgetful(w, unlock) ==
  /\ Shut(w)
  /\ slots' = [slots EXCEPT ![w] = [slots[w] EXCEPT !.backend = 0, !.lock = IF unlock THEN NoOne ELSE slots[w].lock]]
ShutSlot(w, unlock) ==
  /\ Shut(w)
  /\ slots' = [slots EXCEPT ![w] = [slots[w] EXCEPT !.backend = 0, !.epoch = backends[slots[w].backend].epoch,
                                             !.lock = IF unlock THEN NoOne ELSE slots[w].lock]]
KeepSlot(w, unlock) ==
  /\ slots' = [slots EXCEPT ![w] = [slots[w] EXCEPT !.epoch = backends[slots[w].backend].epoch,
                                             !.lock = IF unlock THEN NoOne ELSE slots[w].lock]]
  /\ UNCHANGED <<owned, backends>>

(* The unhealthy provider of a Canonical, and the provider of a Restart. *)
CloseOld(c) ==
  LET w == actor[c].ws IN
  /\ actor[c].pc \in {"closeold", "restarting"}
  /\ \/ /\ ShutSlot(w, At(c, "restarting")) /\ UNCHANGED spent
        /\ Go(c, IF At(c, "restarting") THEN "lock" ELSE "reserve")
     \/ /\ Mishap /\ KeepSlot(w, TRUE)
        /\ actor' = [actor EXCEPT ![c] = Idle]
  /\ UNCHANGED <<earlier, admit, pool, given>>

-----------------------------------------------------------------------------
(* reserve: one at a time decides about capacity. *)
LockAdmit(c) ==
  /\ At(c, "reserve") /\ admit = NoOne /\ admit' = c /\ Go(c, "admit")
  /\ UNCHANGED <<owned, backends, slots, earlier, pool, given, spent>>

(* Mutant: a lease is not looked at. *)
EvictableLeased(w) == slots[w].lock = NoOne /\ slots[w].backend # 0

(* Idle providers; the least recently used goes first. *)
Evictable(w) == slots[w].lock = NoOne /\ slots[w].backend # 0 /\ slots[w].users = 0
Candidates == {w \in Workspaces : Evictable(w)}
Oldest(ws, w) == w \in ws /\ \A v \in ws : <<v, w>> \notin earlier

reserve(c) ==
  /\ At(c, "admit")
  /\ IF isClosed THEN Fail(c) /\ admit' = NoOne /\ UNCHANGED <<owned, backends>>
     ELSE IF Cardinality(owned) < MaxProviders
     THEN /\ LET after == IF actor[c].ws = NoOne THEN 0 ELSE slots[actor[c].ws].epoch IN
               backends' = Append(backends, [state |-> "opening", healthy |-> TRUE, epoch |-> after + 1])
          /\ owned' = owned \cup {Len(backends) + 1}
          /\ actor' = [actor EXCEPT ![c] = [actor[c] EXCEPT !.pc = "open", !.backend = Len(backends) + 1]]
          /\ admit' = NoOne /\ UNCHANGED slots
     ELSE /\ actor' = [actor EXCEPT ![c] = [actor[c] EXCEPT !.pc = "evict", !.victims = Candidates]]
          /\ UNCHANGED <<owned, backends, slots, admit>>
  /\ UNCHANGED <<earlier, pool, given, spent>>

(* Mutant: the evictor waits for the slot of its candidate. *)
evictLRUWaiting(c) ==
  /\ At(c, "evict")
  /\ \/ /\ actor[c].victims = {}
        /\ Fail(c) /\ admit' = NoOne
     \/ \E w \in Workspaces :
          /\ Oldest(actor[c].victims, w) /\ slots[w].lock = NoOne
          /\ IF Evictable(w)
             THEN /\ SetLock(w, c)
                  /\ actor' = [actor EXCEPT ![c] = [actor[c] EXCEPT !.pc = "evicting", !.victims = actor[c].victims \ {w}, !.victim = w]]
             ELSE actor' = [actor EXCEPT ![c] = [actor[c] EXCEPT !.victims = actor[c].victims \ {w}]] /\ UNCHANGED slots
          /\ UNCHANGED admit
  /\ UNCHANGED <<owned, backends, earlier, pool, given, spent>>

(* evictLRU: the oldest candidate, if it is still idle, or none is left. *)
evictLRU(c) ==
  /\ At(c, "evict")
  /\ \/ /\ actor[c].victims = {}
        /\ Fail(c) /\ admit' = NoOne
     \/ \E w \in Workspaces :
          /\ Oldest(actor[c].victims, w)
          /\ IF Evictable(w)
             THEN /\ SetLock(w, c)
                  /\ actor' = [actor EXCEPT ![c] = [actor[c] EXCEPT !.pc = "evicting", !.victims = actor[c].victims \ {w}, !.victim = w]]
             ELSE actor' = [actor EXCEPT ![c] = [actor[c] EXCEPT !.victims = actor[c].victims \ {w}]] /\ UNCHANGED slots
          /\ UNCHANGED admit
  /\ UNCHANGED <<owned, backends, earlier, pool, given, spent>>
Evicted(c) ==
  LET w == actor[c].victim IN
  /\ At(c, "evicting")
  /\ \/ /\ ShutSlot(w, TRUE) /\ UNCHANGED spent
        /\ actor' = [actor EXCEPT ![c] = [actor[c] EXCEPT !.pc = "admit", !.victims = {}, !.victim = NoOne]]
     \/ /\ Mishap /\ KeepSlot(w, TRUE)
        /\ actor' = [actor EXCEPT ![c] = [actor[c] EXCEPT !.pc = "evict", !.victim = NoOne]]
  /\ UNCHANGED <<earlier, admit, pool, given>>

(* Mutant: a failed start keeps its reservation. *)
OpenedLeaky(c) ==
  LET b == actor[c].backend IN
  /\ At(c, "open")
  /\ \/ /\ backends' = [backends EXCEPT ![b] = [backends[b] EXCEPT !.state = "open"]]
        /\ Go(c, IF actor[c].ws = NoOne THEN "pinned" ELSE "install")
        /\ UNCHANGED <<slots, spent>>
     \/ /\ Mishap
        /\ backends' = [backends EXCEPT ![b] = [backends[b] EXCEPT !.state = "closed"]]
        /\ Fail(c)
  /\ UNCHANGED <<owned, earlier, admit, pool, given>>

(* openOwned: the reservation outlives a slow start and not a failed one. *)
Opened(c) ==
  LET b == actor[c].backend IN
  /\ At(c, "open")
  /\ \/ /\ backends' = [backends EXCEPT ![b] = [backends[b] EXCEPT !.state = "open"]]
        /\ Go(c, IF actor[c].ws = NoOne THEN "pinned" ELSE "install")
        /\ UNCHANGED <<owned, slots, spent>>
     \/ /\ Mishap
        /\ backends' = [backends EXCEPT ![b] = [backends[b] EXCEPT !.state = "closed"]]
        /\ owned' = owned \ {b}
        /\ Fail(c)
  /\ UNCHANGED <<earlier, admit, pool, given>>

(* The end of Canonical: the slot gets its provider and the caller its lease. *)
Install(c) ==
  /\ At(c, "install")
  /\ leaseLocked(c, actor[c].ws, actor[c].backend)
  /\ UNCHANGED <<owned, backends, admit, pool, spent>>

(* The release function; Resync restarts a provider that failed its call. *)
Release(c) ==
  LET w == actor[c].ws IN
  /\ At(c, "using") /\ slots[w].lock = NoOne
  /\ slots' = [slots EXCEPT ![w] = [slots[w] EXCEPT !.users = slots[w].users - 1]]
  /\ Used(w)
  /\ \/ actor' = Strike(w, [actor EXCEPT ![c] = Idle]) /\ UNCHANGED spent
     \/ /\ spent.calls < MaxCalls /\ spent' = [spent EXCEPT !.calls = @ + 1]
        /\ actor' = Strike(w, [actor EXCEPT ![c] = [Idle EXCEPT !.pc = "restart", !.ws = w]])
  /\ UNCHANGED <<owned, backends, admit, pool, given>>

(* A stager closes its own provider when its work is done, and forgets it: one that
   will not close is left to the pool's Close. *)
ClosePinned(c) ==
  LET b == actor[c].backend IN
  /\ At(c, "pinned")
  /\ IF b \notin owned THEN UNCHANGED <<owned, backends, spent>>
     ELSE \/ CloseBackends({b}) /\ UNCHANGED spent
          \/ Mishap /\ backends' = [backends EXCEPT ![b] = [backends[b] EXCEPT !.state = "stuck"]] /\ UNCHANGED owned
  /\ actor' = [actor EXCEPT ![c] = Idle]
  /\ UNCHANGED <<slots, earlier, admit, pool, given>>

-----------------------------------------------------------------------------
(* The process dies, or replaces its own generation. *)
Sicken(b) ==
  /\ backends[b].state = "open" /\ backends[b].healthy /\ Mishap
  /\ backends' = [backends EXCEPT ![b] = [backends[b] EXCEPT !.healthy = FALSE]]
  /\ UNCHANGED <<owned, slots, earlier, admit, actor, pool, given>>
Regenerate(b) ==
  /\ backends[b].state = "open" /\ Mishap
  /\ backends' = [backends EXCEPT ![b] = [backends[b] EXCEPT !.epoch = backends[b].epoch + 1, !.healthy = TRUE]]
  /\ given' = [w \in Workspaces |-> IF slots[w].backend = b /\ backends'[b].epoch > given[w]
                                    THEN backends'[b].epoch ELSE given[w]]
  /\ UNCHANGED <<owned, slots, earlier, admit, actor, pool>>

(* ReapIdle: a slot that is locked or leased is left alone; whether it has been
   idle long enough is the clock's choice. *)
ReapIdle(w) ==
  /\ At(Reaper, "idle") /\ pool.phase \in {"open", "waiting"}
  /\ Evictable(w)
  /\ SetLock(w, Reaper)
  /\ actor' = [actor EXCEPT ![Reaper] = [Idle EXCEPT !.pc = "reaping", !.ws = w]]
  /\ UNCHANGED <<owned, backends, earlier, admit, pool, given, spent>>
reapSlotLocked ==
  LET w == actor[Reaper].ws IN
  /\ At(Reaper, "reaping")
  /\ \/ ShutSlot(w, TRUE) /\ UNCHANGED spent
     \/ Mishap /\ KeepSlot(w, TRUE)
  /\ actor' = [actor EXCEPT ![Reaper] = Idle]
  /\ UNCHANGED <<earlier, admit, pool, given>>

-----------------------------------------------------------------------------
(* Close: nobody reserves any more, *)
Close ==
  /\ pool.phase = "open" /\ pool' = [phase |-> "waiting", todo |-> {}]
  /\ UNCHANGED <<owned, backends, slots, earlier, admit, actor, given, spent>>

(* starts in flight end, the reaper is joined, *)
CloseWaited ==
  /\ pool.phase = "waiting" /\ \A c \in Lessees : ~At(c, "open")
  /\ pool' = [phase |-> "joining", todo |-> {}]
  /\ UNCHANGED <<owned, backends, slots, earlier, admit, actor, given, spent>>
CloseJoined ==
  /\ pool.phase = "joining" /\ At(Reaper, "idle")
  /\ pool' = [phase |-> "slots", todo |-> Workspaces]
  /\ UNCHANGED <<owned, backends, slots, earlier, admit, actor, given, spent>>

(* every slot is emptied, leased or not, and whether or not its provider closes, *)
CloseSlot(w) ==
  LET b == slots[w].backend IN
  /\ pool.phase = "slots" /\ w \in pool.todo /\ slots[w].lock = NoOne
  /\ IF b = 0 THEN UNCHANGED <<owned, backends, slots>>
     ELSE slots' = [slots EXCEPT ![w] = [slots[w] EXCEPT !.backend = 0]] /\ (Shut(w) \/ UNCHANGED <<owned, backends>>)
  /\ pool' = [phase |-> IF pool.todo = {w} THEN "owned" ELSE "slots", todo |-> pool.todo \ {w}]
  /\ UNCHANGED <<earlier, admit, actor, given, spent>>

(* and whatever is left of the reservations is closed, if it closes. *)
CloseOwned ==
  /\ pool.phase = "owned"
  /\ pool' = [pool EXCEPT !.phase = "closed"]
  /\ \/ CloseBackends(owned) /\ UNCHANGED spent
     \/ /\ Mishap
        /\ \E b \in owned :
             /\ backends' = [x \in DOMAIN backends |->
                               IF x \in owned THEN [backends[x] EXCEPT !.state = IF x = b THEN "stuck" ELSE "closed"]
                               ELSE backends[x]]
             /\ owned' = {b}
  /\ UNCHANGED <<slots, earlier, admit, actor, given>>

(* Holds, which keeps the registry from forgetting a workspace. *)
Holds(w) == slots[w].lock # NoOne \/ slots[w].backend # 0 \/ slots[w].users > 0

-----------------------------------------------------------------------------
CallerStep(c) ==
  \/ LockSlot(c) \/ Canonical(c) \/ Existing(c) \/ Restart(c) \/ CloseOld(c) \/ LockAdmit(c) \/ reserve(c)
  \/ evictLRU(c) \/ Evicted(c) \/ Opened(c) \/ Install(c)
Leave(c) == Release(c) \/ ClosePinned(c)
PoolNext ==
  \/ \E c \in Lessees : CallerStep(c) \/ Leave(c)
  \/ \E c \in Lessees, w \in Workspaces, pc \in {"lock", "existing", "restart", "reserve"} : Ask(c, w, pc)
  \/ \E b \in DOMAIN backends : Sicken(b) \/ Regenerate(b)
  \/ \E w \in Workspaces : ReapIdle(w) \/ CloseSlot(w)
  \/ reapSlotLocked \/ Close \/ CloseWaited \/ CloseJoined \/ CloseOwned

(* Goroutines run on, mutexes are not held for ever, and callers return their
   lease. *)
Fairness ==
  /\ \A c \in Lessees : WF_poolVars(CallerStep(c) \/ Leave(c))
  /\ WF_poolVars(reapSlotLocked)
PoolSpec == PoolInit /\ [][PoolNext]_poolVars /\ Fairness

-----------------------------------------------------------------------------
(* A leased provider stays open and in its slot until the lease is returned or the
   pool closes, whichever caller evicts, reaps or restarts meanwhile, and the
   workspace counts as held (evictLRU, ReapIdle, Restart, Canonical). *)
LeasedStaysOpen ==
  \A c \in Lessees : At(c, "using") /\ pool.phase \in {"open", "waiting", "joining"} =>
    /\ backends[actor[c].backend].state = "open"
    /\ slots[actor[c].ws].backend = actor[c].backend
    /\ Holds(actor[c].ws)

(* Live providers have a reservation, reservations keep the limit, and none is
   lost: each is that of a start in flight, of a slot, of a stager, or of a provider
   its stager could not close.  Once Close has returned only such a provider is left
   (reserve, openOwned, closeSlotLocked, stageIntoSandbox, Close). *)
ReservationsExact ==
  /\ {b \in DOMAIN backends : backends[b].state # "closed"} = owned
  /\ Cardinality(owned) <= MaxProviders
  /\ pool.phase \in {"open", "waiting"} =>
       owned = {slots[w].backend : w \in {v \in Workspaces : slots[v].backend # 0}}
               \cup {actor[c].backend : c \in {a \in Lessees : actor[a].pc \in {"open", "install", "pinned"}}}
               \cup {b \in DOMAIN backends : backends[b].state = "stuck"}
  /\ pool.phase = "closed" => \A b \in DOMAIN backends : backends[b].state \in {"stuck", "closed"}

(* A workspace is never given an epoch twice: a replacement provider starts after
   every generation of the one it replaces. *)
EpochsAdvance ==
  [][\A c \in Lessees : At(c, "install") /\ At(c, "using")' =>
       backends[actor[c].backend].epoch > given[actor[c].ws]]_poolVars

(* Every request ends in a lease, a provider of its own, or an error: no two
   callers wait for each other's slot and admission. *)
RequestsEnd ==
  \A c \in Lessees : (actor[c].pc \in {"lock", "existing", "restart", "reserve"}) ~>
                       (actor[c].pc \in {"idle", "using", "pinned"})

-----------------------------------------------------------------------------
(* The inductive strengthening.  Who holds which lock: the callers between the look
   at their slot and its lease, the evictor its candidate, the reaper its slot. *)
Holding == {"look", "closeold", "restarting", "reserve", "admit", "evict", "evicting", "open", "install", "reaping"}
Locking(a, w) ==
  \/ actor[a].pc \in Holding /\ actor[a].ws = w
  \/ At(a, "evicting") /\ actor[a].victim = w
LockInv ==
  /\ \A w \in Workspaces, a \in Actors : (slots[w].lock = a) <=> Locking(a, w)
  /\ \A a \in Actors : (admit = a) <=> actor[a].pc \in {"admit", "evict", "evicting"}

(* What an actor at each point of its work knows of its slot. *)
WithSlot == {"lock", "look", "closeold", "existing", "restart", "restarting", "using", "install", "reaping"}
Starting == {"reserve", "admit", "evict", "evicting", "open", "install"}
Claiming == {"open", "install", "pinned"}
Closable(w) == w \in Workspaces /\ slots[w].backend # 0 /\ slots[w].users = 0
PointOf(a) ==
  /\ At(a, "reaping") => a = Reaper
  /\ a = Reaper => actor[a].pc \in {"idle", "reaping"}
  /\ actor[a].pc \in WithSlot => actor[a].ws \in Workspaces
  /\ actor[a].pc \in {"closeold", "restarting", "reaping"} => Closable(actor[a].ws)
  /\ At(a, "evicting") => Closable(actor[a].victim) /\ actor[a].victim # actor[a].ws
  /\ actor[a].pc \in Starting /\ actor[a].ws # NoOne => slots[actor[a].ws].backend = 0
  /\ actor[a].pc \in Claiming \cup {"using"} => actor[a].backend \in DOMAIN backends
  /\ At(a, "open") => pool.phase \in {"open", "waiting"}
PointInv ==
  /\ \A a \in Actors : PointOf(a)
  /\ \A w \in Workspaces : slots[w].backend \in DOMAIN backends \cup {0}

(* A slot counts its leases. *)
Leases(w) == {c \in Lessees : At(c, "using") /\ actor[c].ws = w}
LeaseInv == \A w \in Workspaces : IsFiniteSet(Leases(w)) /\ slots[w].users = Cardinality(Leases(w))

(* A reservation is for a provider that is not closed. *)
OwnedInv ==
  /\ {b \in DOMAIN backends : backends[b].state # "closed"} = owned
  /\ IsFiniteSet(owned) /\ Cardinality(owned) <= MaxProviders
  /\ pool.phase = "closed" => \A b \in DOMAIN backends : backends[b].state \in {"stuck", "closed"}

(* Until Close empties the slots, a live provider is in one place. *)
Emptying == pool.phase \in {"slots", "owned", "closed"}
SlotPlaces == \A w \in Workspaces : slots[w].backend # 0 =>
  /\ backends[slots[w].backend].state = "open"
  /\ \A v \in Workspaces \ {w} : slots[v].backend # slots[w].backend
CallerPlaces == \A c \in Lessees :
  /\ actor[c].pc \in Claiming =>
       /\ backends[actor[c].backend].state = IF At(c, "open") THEN "opening" ELSE "open"
       /\ \A w \in Workspaces : slots[w].backend # actor[c].backend
       /\ \A d \in Lessees \ {c} : actor[d].pc \in Claiming => actor[d].backend # actor[c].backend
  /\ At(c, "using") => slots[actor[c].ws].backend = actor[c].backend
NoneLost == \A b \in DOMAIN backends : backends[b].state \in {"opening", "open"} =>
  \/ \E w \in Workspaces : slots[w].backend = b
  \/ \E c \in Lessees : actor[c].pc \in Claiming /\ actor[c].backend = b
PlaceInv == Emptying \/ (SlotPlaces /\ CallerPlaces /\ NoneLost)

(* The epochs a workspace was given end with its provider's, or with the last one
   its slot recorded; a start in flight comes after them. *)
EpochInv ==
  /\ ~Emptying => \A w \in Workspaces :
       given[w] <= IF slots[w].backend = 0 THEN slots[w].epoch ELSE backends[slots[w].backend].epoch
  /\ \A c \in Lessees : actor[c].pc \in {"open", "install"} /\ actor[c].ws # NoOne =>
       backends[actor[c].backend].epoch > given[actor[c].ws]

PoolInv == LockInv /\ PointInv /\ LeaseInv /\ OwnedInv /\ PlaceInv /\ EpochInv
=============================================================================
