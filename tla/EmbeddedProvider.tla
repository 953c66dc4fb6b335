-------------------------- MODULE EmbeddedProvider --------------------------
(***************************************************************************)
(* One owned Neovim backend, internal/provider/embed/embed.go: generations *)
(* of the process that replace each other, requests that complete from a   *)
(* notification, cooperative cancellation with a grace period, and Close.  *)
(*                                                                         *)
(* mutex is b.mu, which a call holds while it waits for a dying generation *)
(* and while it boots a new one.  A caller's deadline and the grace period *)
(* are steps that may happen at any moment.  The kernel may answer, answer *)
(* late, never answer, or die.                                             *)
(***************************************************************************)
EXTENDS Integers, FiniteSets, Sequences

CONSTANTS
  Callers,
  Ids,              \* request IDs
  Kernels,          \* the Neovims that may be started
  MinAPILevel, ProtocolMin, ProtocolMax, KernelMethods, KnownCapabilities,
  NoOne,
  MaxGenerations, MaxCalls,
  MaxMishaps        \* deaths of a kernel and probes it never answers

Kernel == [level : Nat, protocol : Nat, cooperative : BOOLEAN,
           methods : SUBSET KernelMethods, capabilities : SUBSET KnownCapabilities]
ASSUME KernelAssumption == Kernels \subseteq Kernel
ASSUME CallerAssumption == NoOne \notin Callers /\ Ids # {}
ASSUME BoundAssumption == {MaxGenerations, MaxCalls, MaxMishaps} \subseteq Nat

VARIABLES
  mutex,        \* who holds b.mu
  rootLock,     \* the flock on the workspace root
  closed,       \* b.closed
  closing,      \* where Close is
  health,
  epoch,        \* descriptor.Epoch: the current generation, 0 before the first
  gens,         \* every generation
  pending,      \* the completion slots
  jobs,         \* what the kernels work on
  sent,         \* completion notifications on their way
  call,
  spent

vars == <<mutex, rootLock, closed, closing, health, epoch, gens, pending, jobs, sent, call, spent>>

Epochs == 1..MaxGenerations
Serial == Callers \X Nat
Payload == {"value", "cancelled", "empty"}
PendingSlot == [epoch : Nat, id : Ids, owner : Serial]
Job == [epoch : Nat, id : Ids, owner : Serial, cancelled : BOOLEAN]
Message == [epoch : Nat, id : Ids, owner : Serial, payload : Payload]
NoMessage == [payload |-> "none"]
Pc == {"idle", "ensure", "retiring", "start", "boot", "stillborn", "register", "submit", "wait", "cancel", "kill", "killed",
       "end"}
Generation == [kernel : Kernels, alive : BOOLEAN, tree : {"up", "crashed", "stopping", "down"},
               reported : BOOLEAN]
Outcome == {"none", "value", "error", "failure"}   \* a provider.Failure of any code
Call == [pc : Pc, id : Ids, n : Nat, epoch : Nat, inbox : Message \cup {NoMessage},
         outcome : Outcome, abandoned : BOOLEAN]

NewCall == [pc |-> "idle", id |-> CHOOSE i \in Ids : TRUE, n |-> 0, epoch |-> 0, inbox |-> NoMessage,
            outcome |-> "none", abandoned |-> FALSE]

(* Everything has its shape; a completion slot belongs to a call in flight. *)
TypeOK ==
  /\ mutex \in Callers \cup {NoOne} /\ rootLock \in BOOLEAN /\ closed \in BOOLEAN
  /\ closing \in {"no", "stop", "wait", "over"}
  /\ health \in {"starting", "healthy", "failed", "closed"}
  /\ gens \in Seq(Generation) /\ epoch = Len(gens)
  /\ pending \subseteq PendingSlot /\ jobs \subseteq Job /\ sent \subseteq Message
  /\ call \in [Callers -> Call]

(* Open has the root lock; its own ensureGeneration is that of the first call. *)
Init ==
  /\ mutex = NoOne /\ rootLock = TRUE /\ closed = FALSE /\ closing = "no"
  /\ health = "starting" /\ epoch = 0 /\ gens = <<>>
  /\ pending = {} /\ jobs = {} /\ sent = {}
  /\ call = [c \in Callers |-> NewCall]
  /\ spent = [calls |-> 0, mishaps |-> 0]

-----------------------------------------------------------------------------
Done(e) == gens[e].tree = "down"
me(c) == <<c, call[c].n>>
Go(c, pc) == call' = [call EXCEPT ![c] = [call[c] EXCEPT !.pc = pc]]
Lock(c) == mutex = NoOne /\ mutex' = c
Unlock == mutex' = NoOne

(* terminate: the guard stops Neovim and everything it started. *)
terminate(g) ==
  IF g.alive THEN [g EXCEPT !.alive = FALSE, !.tree = IF g.tree = "down" THEN "down" ELSE "stopping"] ELSE g
Tree(e, tree) == gens' = [gens EXCEPT ![e] = [gens[e] EXCEPT !.tree = tree]]

(* Mutant: completions are found by their request ID alone. *)
pendingKeyById(m, slot) == slot.id = m.id
pendingKey(m, slot) == slot.epoch = m.epoch /\ slot.id = m.id

(* registerPending's release, and the end of Call. *)
Return(c, outcome) ==
  /\ call' = [call EXCEPT ![c] = [NewCall EXCEPT !.pc = "end", !.n = call[c].n, !.outcome = outcome]]
  /\ pending' = {s \in pending : s.owner # me(c)}

(* decodeCompletion *)
decodeCompletion(m) == IF m.payload = "value" THEN "value" ELSE IF m.payload = "empty" THEN "failure" ELSE "error"

(* checkAPILevel and checkHandshake *)
checkAPILevel(k) == k.level >= MinAPILevel
checkHandshake(k) ==
  /\ k.protocol \in ProtocolMin..ProtocolMax
  /\ k.cooperative
  /\ KernelMethods \subseteq k.methods
  /\ k.capabilities \cap KnownCapabilities # {}
connectKernel(k) == checkAPILevel(k)
runBootstrap(k) == connectKernel(k) /\ checkHandshake(k)

-----------------------------------------------------------------------------
(* Call starts, with an ID that another call may be using. *)
CallStart(c, id) ==
  /\ call[c].pc \in {"idle", "end"} /\ spent.calls < MaxCalls
  /\ spent' = [spent EXCEPT !.calls = @ + 1]
  /\ call' = [call EXCEPT ![c] = [NewCall EXCEPT !.pc = "ensure", !.id = id, !.n = call[c].n + 1]]
  /\ UNCHANGED <<mutex, rootLock, closed, closing, health, epoch, gens, pending, jobs, sent>>

(* ensureGeneration: a living generation is taken; b.mu is kept otherwise.  After
   an abandoned call it only restarts the backend. *)
ensureGeneration(c) ==
  /\ call[c].pc = "ensure" /\ mutex = NoOne
  /\ IF closed THEN Return(c, "failure") /\ UNCHANGED mutex
     ELSE IF epoch > 0 /\ gens[epoch].alive
     THEN /\ IF call[c].abandoned THEN Return(c, "failure")
             ELSE call' = [call EXCEPT ![c] = [call[c] EXCEPT !.pc = "register", !.epoch = epoch]] /\ UNCHANGED pending
          /\ UNCHANGED mutex
     ELSE Lock(c) /\ Go(c, IF epoch = 0 THEN "start" ELSE "retiring") /\ UNCHANGED pending
  /\ UNCHANGED <<rootLock, closed, closing, health, epoch, gens, jobs, sent, spent>>

(* The wait for the retiring tree ends with it, or with the caller's context. *)
Retired(c) ==
  /\ call[c].pc = "retiring"
  /\ \/ Done(epoch) /\ Go(c, "start") /\ UNCHANGED <<mutex, pending>>
     \/ Return(c, "failure") /\ Unlock
  /\ UNCHANGED <<rootLock, closed, closing, health, epoch, gens, jobs, sent, spent>>

(* startGenerationLocked: launch, or fail to. *)
startGeneration(c) ==
  /\ call[c].pc = "start"
  /\ \/ /\ epoch < MaxGenerations
        /\ epoch' = epoch + 1 /\ health' = "starting"
        /\ \E k \in Kernels :
             gens' = Append(gens, [kernel |-> k, alive |-> TRUE, tree |-> "up", reported |-> FALSE])
        /\ Go(c, "boot")
        /\ UNCHANGED <<mutex, pending>>
     \/ /\ Return(c, "failure") /\ Unlock
        /\ UNCHANGED <<epoch, health, gens>>
  /\ UNCHANGED <<rootLock, closed, closing, jobs, sent, spent>>

(* bootstrap races the sequence with the death of the generation and the end of
   the context. *)
bootstrap(c) ==
  LET g == gens[epoch] IN
  /\ call[c].pc = "boot"
  /\ \/ /\ g.tree = "up" /\ runBootstrap(g.kernel)
        /\ health' = "healthy" /\ Unlock
        /\ IF call[c].abandoned THEN Return(c, "failure")
           ELSE call' = [call EXCEPT ![c] = [call[c] EXCEPT !.pc = "register", !.epoch = epoch]] /\ UNCHANGED pending
        /\ UNCHANGED gens
     \/ /\ Go(c, "stillborn")
        /\ gens' = [gens EXCEPT ![epoch] = terminate(gens[epoch])]
        /\ UNCHANGED <<mutex, health, pending>>
  /\ UNCHANGED <<rootLock, closed, closing, epoch, jobs, sent, spent>>

(* A failed bootstrap waits for its processes before it lets go of b.mu. *)
Stillborn(c) ==
  /\ call[c].pc = "stillborn" /\ Done(epoch)
  /\ Return(c, "failure")
  /\ Unlock
  /\ UNCHANGED <<rootLock, closed, closing, health, epoch, gens, jobs, sent, spent>>

registerPending(c) ==
  LET e == call[c].epoch
      slot == [epoch |-> e, id |-> call[c].id, owner |-> me(c)] IN
  /\ call[c].pc = "register" /\ mutex = NoOne
  /\ IF closed \/ epoch # e \/ ~gens[e].alive THEN Return(c, "failure")
     ELSE IF \E s \in pending : s.epoch = e /\ s.id = call[c].id THEN Return(c, "failure")
     ELSE pending' = pending \cup {slot} /\ Go(c, "submit")
  /\ UNCHANGED <<mutex, rootLock, closed, closing, health, epoch, gens, jobs, sent, spent>>

(* submit: the kernel takes the request, or the connection is gone. *)
submit(c) ==
  LET e == call[c].epoch IN
  /\ call[c].pc = "submit"
  /\ \/ /\ gens[e].tree = "up"
        /\ jobs' = jobs \cup {[epoch |-> e, id |-> call[c].id, owner |-> me(c), cancelled |-> FALSE]}
        /\ Go(c, "wait") /\ UNCHANGED pending
     \/ /\ gens[e].tree # "up" /\ Return(c, "failure") /\ UNCHANGED jobs
  /\ UNCHANGED <<mutex, rootLock, closed, closing, health, epoch, gens, sent, spent>>

(* The select of Call: whichever is ready. *)
Completed(c) ==
  /\ call[c].pc = "wait" /\ call[c].inbox # NoMessage
  /\ Return(c, decodeCompletion(call[c].inbox))
  /\ UNCHANGED <<mutex, rootLock, closed, closing, health, epoch, gens, jobs, sent, spent>>
Died(c) ==
  /\ call[c].pc = "wait" /\ Done(call[c].epoch)
  /\ Return(c, "failure")
  /\ UNCHANGED <<mutex, rootLock, closed, closing, health, epoch, gens, jobs, sent, spent>>

(* abandon: the context ended, the kernel is asked to cancel. *)
abandon(c) ==
  /\ call[c].pc = "wait"
  /\ call' = [call EXCEPT ![c] = [call[c] EXCEPT !.pc = "cancel", !.abandoned = TRUE]]
  /\ jobs' = {IF j.owner = me(c) THEN [j EXCEPT !.cancelled = TRUE] ELSE j : j \in jobs}
  /\ UNCHANGED <<mutex, rootLock, closed, closing, health, epoch, gens, pending, sent, spent>>

(* cancelCooperatively: acknowledged, or the grace period passes or the
   generation dies. *)
cancelCooperatively(c) ==
  /\ call[c].pc = "cancel"
  /\ \/ /\ call[c].inbox # NoMessage
        /\ Return(c, IF call[c].inbox.payload = "cancelled" THEN "failure" ELSE decodeCompletion(call[c].inbox))
     \/ Go(c, "kill") /\ UNCHANGED pending
  /\ UNCHANGED <<mutex, rootLock, closed, closing, health, epoch, gens, jobs, sent, spent>>

(* An unacknowledged cancellation costs the generation, *)
Kill(c) ==
  /\ call[c].pc = "kill"
  /\ gens' = [gens EXCEPT ![call[c].epoch] = terminate(gens[call[c].epoch])]
  /\ Go(c, "killed")
  /\ UNCHANGED <<mutex, rootLock, closed, closing, health, epoch, pending, jobs, sent, spent>>

(* and the caller starts the next one. *)
Killed(c) ==
  /\ call[c].pc = "killed" /\ Done(call[c].epoch)
  /\ Go(c, "ensure")
  /\ UNCHANGED <<mutex, rootLock, closed, closing, health, epoch, gens, pending, jobs, sent, spent>>

-----------------------------------------------------------------------------
(* The kernel answers, cancelled or not. *)
KernelAnswers(j, payload) ==
  /\ gens[j.epoch].tree = "up"
  /\ payload = "cancelled" => j.cancelled
  /\ jobs' = jobs \ {j}
  /\ sent' = sent \cup {[epoch |-> j.epoch, id |-> j.id, owner |-> j.owner, payload |-> payload]}
  /\ UNCHANGED <<mutex, rootLock, closed, closing, health, epoch, gens, pending, call, spent>>

KernelDies(e) ==
  /\ spent.mishaps < MaxMishaps /\ gens[e].tree = "up"
  /\ Tree(e, "crashed")
  /\ spent' = [spent EXCEPT !.mishaps = @ + 1]
  /\ UNCHANGED <<mutex, rootLock, closed, closing, health, epoch, pending, jobs, sent, call>>

(* deliver: a notification outlives its generation and looks for its slot. *)
deliver(m) ==
  LET slots == {s \in pending : pendingKey(m, s)} IN
  /\ mutex = NoOne
  /\ sent' = sent \ {m}
  /\ call' = [c \in Callers |->
       IF (\E s \in slots : s.owner = me(c)) /\ call[c].inbox = NoMessage
       THEN [call[c] EXCEPT !.inbox = m] ELSE call[c]]
  /\ UNCHANGED <<mutex, rootLock, closed, closing, health, epoch, gens, pending, jobs, spent>>

(* serve: the connection ends, the tree is stopped and joined, then the health is
   corrected under b.mu. *)
serve(e) ==
  /\ gens[e].tree = "crashed"
  /\ gens' = [gens EXCEPT ![e] = [gens[e] EXCEPT !.alive = FALSE, !.tree = "stopping"]]
  /\ UNCHANGED <<mutex, rootLock, closed, closing, health, epoch, pending, jobs, sent, call, spent>>

(* Mutant: the end is signalled under b.mu, with the health. *)
JoinedUnderLock(e) ==
  /\ gens[e].tree = "stopping" /\ mutex = NoOne
  /\ Tree(e, "down")
  /\ jobs' = {j \in jobs : j.epoch # e}
  /\ UNCHANGED <<mutex, rootLock, closed, closing, health, epoch, pending, sent, call, spent>>
Joined(e) ==
  /\ gens[e].tree = "stopping"
  /\ Tree(e, "down")
  /\ jobs' = {j \in jobs : j.epoch # e}
  /\ UNCHANGED <<mutex, rootLock, closed, closing, health, epoch, pending, sent, call, spent>>
Report(e) ==
  /\ Done(e) /\ ~gens[e].reported /\ mutex = NoOne
  /\ gens' = [gens EXCEPT ![e] = [gens[e] EXCEPT !.reported = TRUE]]
  /\ health' = IF epoch = e /\ ~closed THEN "failed" ELSE health
  /\ UNCHANGED <<mutex, rootLock, closed, closing, epoch, pending, jobs, sent, call, spent>>

(* Health: a probe of a healthy generation that is never answered ends it, also
   when the generation it was sent to has been replaced. *)
Health(e) ==
  /\ spent.mishaps < MaxMishaps /\ gens[e].alive /\ ~Done(e)
  /\ epoch = e => health = "healthy"
  /\ gens' = [gens EXCEPT ![e] = terminate(gens[e])]
  /\ spent' = [spent EXCEPT !.mishaps = @ + 1]
  /\ UNCHANGED <<mutex, rootLock, closed, closing, health, epoch, pending, jobs, sent, call>>

-----------------------------------------------------------------------------
(* Close, once. *)
Close ==
  /\ closing = "no" /\ mutex = NoOne
  /\ closed' = TRUE /\ health' = "closed"
  /\ closing' = IF epoch = 0 THEN "over" ELSE IF gens[epoch].alive THEN "stop" ELSE "wait"
  /\ rootLock' = (epoch # 0)
  /\ UNCHANGED <<mutex, epoch, gens, pending, jobs, sent, call, spent>>

(* Neovim is asked to quit, or killed when it does not. *)
CloseStop ==
  /\ closing = "stop" /\ closing' = "wait"
  /\ gens' = [gens EXCEPT ![epoch] = [gens[epoch] EXCEPT !.alive = FALSE,
                                                     !.tree = IF gens[epoch].tree = "down" THEN "down" ELSE "stopping"]]
  /\ UNCHANGED <<mutex, rootLock, closed, health, epoch, pending, jobs, sent, call, spent>>

(* Mutant: the root is free as soon as the backend is closed. *)
CloseAtOnce ==
  /\ closing = "wait"
  /\ closing' = "over" /\ rootLock' = FALSE
  /\ UNCHANGED <<mutex, closed, health, epoch, gens, pending, jobs, sent, call, spent>>
CloseWait ==
  /\ closing = "wait" /\ Done(epoch)
  /\ closing' = "over" /\ rootLock' = FALSE
  /\ UNCHANGED <<mutex, closed, health, epoch, gens, pending, jobs, sent, call, spent>>

-----------------------------------------------------------------------------
CallStep(c) ==
  \/ ensureGeneration(c) \/ Retired(c) \/ startGeneration(c) \/ bootstrap(c) \/ Stillborn(c)
  \/ registerPending(c) \/ submit(c) \/ Completed(c) \/ Died(c) \/ abandon(c)
  \/ cancelCooperatively(c) \/ Kill(c) \/ Killed(c)
Process(e) == serve(e) \/ Joined(e) \/ Report(e)

Next ==
  \/ \E c \in Callers : CallStep(c) \/ \E id \in Ids : CallStart(c, id)
  \/ \E e \in 1..epoch : Process(e) \/ KernelDies(e) \/ Health(e)
  \/ \E j \in jobs, p \in Payload : KernelAnswers(j, p)
  \/ \E m \in sent : deliver(m)
  \/ Close \/ CloseStop \/ CloseWait

(* Every goroutine of the service runs on, and a stopped process tree ends; b.mu
   is not held for ever.  Nothing is assumed of the kernel, and clients need not call. *)
Fairness ==
  /\ \A c \in Callers : WF_vars(CallStep(c))
  /\ \A e \in Epochs : WF_vars(e <= epoch /\ (serve(e) \/ Joined(e)))
Spec == Init /\ [][Next]_vars /\ Fairness

-----------------------------------------------------------------------------
(* A call never returns the completion of another request: IDs may be reused by
   later calls and notifications arrive after their generation is gone, but a slot
   is found by generation and ID, and a generation that still works on an
   abandoned request is not used again (deliver, registerPending, abandon). *)
ResultIsOwn == \A c \in Callers : call[c].inbox # NoMessage => call[c].inbox.owner = me(c)

(* Two generations' process trees, with their language servers, never run side by
   side, and the root is not free for another provider while a process of this one
   is left (embed.go:471, Open, Close). *)
LockCoversTree ==
  LET living == {e \in 1..epoch : ~Done(e)} IN
  Cardinality(living) <= 1 /\ (living # {} => rootLock)

(* Every call returns, whatever the kernel does: nobody waits for a generation
   that cannot end while holding b.mu. *)
CallsReturn == \A c \in Callers : (call[c].pc = "ensure") ~> (call[c].pc = "end")

-----------------------------------------------------------------------------
(* The inductive strengthening.  b.mu is held while a generation retires, starts,
   boots or is still-born, and by nobody once the backend is closed. *)
Booting == {"retiring", "start", "boot", "stillborn"}
LockInv ==
  /\ \A c \in Callers : (mutex = c) <=> call[c].pc \in Booting
  /\ closed => mutex = NoOne

(* Generations before the current one are gone, and one that is stopped is never
   taken again. *)
GenInv ==
  /\ \A e \in 1..epoch : e = epoch \/ Done(e)
  /\ \A e \in 1..epoch : gens[e].tree \in {"stopping", "down"} => ~gens[e].alive
CloseInv ==
  /\ (closing = "no") <=> ~closed
  /\ closing \in {"stop", "wait"} => epoch > 0
  /\ ~rootLock => closing = "over" /\ \A e \in 1..epoch : Done(e)

(* A call that was submitted, or will be, and one whose cancellation is its only work. *)
InFlight(c) == call[c].abandoned \/ call[c].pc \in {"submit", "wait"}
PointOf(c) ==
  /\ call[c].pc = "start" => \A e \in 1..epoch : Done(e)
  /\ call[c].pc \in Booting \ {"start"} => epoch > 0
  /\ call[c].pc = "register" \/ InFlight(c) => call[c].epoch \in 1..epoch
  /\ call[c].abandoned <=> call[c].pc \in {"cancel", "kill", "killed"} \/ (call[c].pc \in Booting \cup {"ensure"} /\ call[c].epoch > 0)
  /\ call[c].abandoned /\ call[c].pc \notin {"cancel", "kill"} => ~gens[call[c].epoch].alive
  /\ ~call[c].abandoned /\ call[c].pc # "wait" => call[c].inbox = NoMessage
PointInv == \A c \in Callers : PointOf(c)

(* The completion slots are those of the calls in flight, one for each generation
   and ID. *)
SlotOf(c) == [epoch |-> call[c].epoch, id |-> call[c].id, owner |-> me(c)]
Alike(c, x) == call[c].epoch = x.epoch /\ call[c].id = x.id
SlotInv ==
  /\ pending = {SlotOf(c) : c \in {d \in Callers : InFlight(d)}}
  /\ \A c, d \in Callers : InFlight(c) /\ InFlight(d) /\ Alike(c, call[d]) => c = d

(* A request leaves one trace, with the kernel, on its way back, or with its caller.
   In a living generation it is that of a call that waits for it. *)
Traces == jobs \cup sent
Awaits(c, x) == x.owner = me(c) /\ Alike(c, x) /\ call[c].pc \in {"wait", "cancel", "kill"}
TraceOf(x) ==
  /\ x.epoch \in 1..epoch
  /\ \A c \in Callers :
       /\ x.owner[1] = c => x.owner[2] <= call[c].n
       /\ x.owner = me(c) => /\ call[c].inbox = NoMessage
                             /\ call[c].pc \in {"wait", "end"} \/ call[c].abandoned
       /\ InFlight(c) /\ Alike(c, x) => x.owner = me(c)
  /\ gens[x.epoch].alive => \E c \in Callers : Awaits(c, x)
TraceInv ==
  /\ \A x \in Traces : TraceOf(x)
  /\ \A j, k \in jobs : j.owner = k.owner => j = k
  /\ \A m, n \in sent : m.owner = n.owner => m = n
  /\ \A j \in jobs, m \in sent : j.owner # m.owner

IInv == LockInv /\ GenInv /\ CloseInv /\ PointInv /\ SlotInv /\ TraceInv /\ ResultIsOwn
=============================================================================
