----------------------------- MODULE Scheduler -----------------------------
(***************************************************************************)
(* The workspace scheduler, internal/service/scheduler.go, the part of     *)
(* executeScheduled (dispatch.go) that takes and gives back its slots, and *)
(* the registry sweep (registry_sweep.go) that forgets workspaces and the  *)
(* lanes made for them.                                                    *)
(*                                                                         *)
(* A slot is a buffered channel; acquiring is a send, so a channel is the  *)
(* set of the calls whose token it buffers.  Lanes are made on first use   *)
(* and looked up before the send, so a lane that the sweep forgets in      *)
(* between leaves the caller with a channel no one else will look up.  A   *)
(* handler resolves its workspace only once it holds its slots.  IDs are   *)
(* minted at random, so a forgotten one never comes back: reopening the    *)
(* root is another workspace.                                              *)
(***************************************************************************)
EXTENDS Integers, FiniteSets

CONSTANTS
  Callers, Workspaces,
  Lanes, SandboxLanes,     \* channels, by what they are made for
  Nil,
  ProviderQuota,           \* --provider-quota, at least one
  SandboxQuota,            \* sandbox_service_quota, 4 in the code
  SandboxLaneQuota         \* sandbox_workspace_quota, 2 in the code

ASSUME QuotaAssumption ==
  {ProviderQuota, SandboxQuota, SandboxLaneQuota} \subseteq Nat \ {0}
ASSUME ChannelAssumption == Lanes \cap SandboxLanes = {} /\ Nil \notin Lanes \cup SandboxLanes
ASSUME CallersAssumption == IsFiniteSet(Callers)

Classes == {"pure_read", "provider_read", "canonical_write", "sandbox_write"}
Channels == Lanes \cup SandboxLanes

VARIABLES
  caller,    \* the calls in flight
  laneOf, sandboxLaneOf,   \* the lanes the scheduler knows
  made,      \* the channels made so far
  buffer,    \* the tokens each lane buffers
  provider, sandbox,       \* the tokens of the service-wide slots
  registered,              \* the workspaces the registry knows
  sweep      \* the sweep in progress: the workspaces it chose to forget

slots == <<laneOf, sandboxLaneOf, made, buffer, provider, sandbox>>
schedulerVars == <<caller, slots, registered, sweep>>

(* provider, service, lookup, enter: what a call waits for; resolve: it is about to
   look its workspace up; running: it works in it; leave, unservice, unprovider: what
   it gives back next. *)
CallerPcs == {"idle", "provider", "service", "lookup", "enter", "resolve", "running",
              "leave", "unservice", "unprovider"}
CallRecords == [pc : CallerPcs, class : Classes, ws : Workspaces \cup {Nil}, lane : Channels \cup {Nil}]
NoCall == [pc |-> "idle", class |-> "pure_read", ws |-> Nil, lane |-> Nil]

(* Every call, lane and slot variable has its shape. *)
SchedulerTypeOK ==
  /\ caller \in [Callers -> CallRecords]
  /\ laneOf \in [Workspaces -> Lanes \cup {Nil}]
  /\ sandboxLaneOf \in [Workspaces -> SandboxLanes \cup {Nil}]
  /\ made \subseteq Channels
  /\ buffer \in [Channels -> SUBSET Callers]
  /\ provider \subseteq Callers /\ sandbox \subseteq Callers
  /\ registered \subseteq Workspaces
  /\ sweep \in [pc : {"check", "drop"}, forget : SUBSET Workspaces]

SchedulerInit ==
  /\ caller = [c \in Callers |-> NoCall]
  /\ laneOf = [w \in Workspaces |-> Nil] /\ sandboxLaneOf = [w \in Workspaces |-> Nil]
  /\ made = {}
  /\ buffer = [ch \in Channels |-> {}]
  /\ provider = {} /\ sandbox = {}
  /\ registered = Workspaces
  /\ sweep = [pc |-> "check", forget |-> {}]

-----------------------------------------------------------------------------
CallerAt(c, pc) == caller[c].pc = pc
CallerGoto(c, pc) == caller' = [caller EXCEPT ![c] = IF pc = "idle" THEN NoCall ELSE [@ EXCEPT !.pc = pc]]

HasRoom(tokens, quota) == Cardinality(tokens) < quota

(* What acquire asks for first. *)
FirstPc(class) ==
  CASE class = "pure_read" -> "resolve"
    [] class = "canonical_write" -> "lookup"
    [] OTHER -> "provider"

Start(c, class, w) ==
  /\ CallerAt(c, "idle")
  /\ caller' = [caller EXCEPT ![c] = [pc |-> FirstPc(class), class |-> class, ws |-> w, lane |-> Nil]]
  /\ UNCHANGED <<slots, registered, sweep>>

AcquireProvider(c) ==
  /\ CallerAt(c, "provider") /\ HasRoom(provider, ProviderQuota)
  /\ provider' = provider \cup {c}
  /\ CallerGoto(c, IF caller[c].class = "sandbox_write" THEN "service" ELSE "lookup")
  /\ UNCHANGED <<laneOf, sandboxLaneOf, made, buffer, sandbox, registered, sweep>>

AcquireService(c) ==
  /\ CallerAt(c, "service") /\ HasRoom(sandbox, SandboxQuota)
  /\ sandbox' = sandbox \cup {c}
  /\ CallerGoto(c, "lookup")
  /\ UNCHANGED <<laneOf, sandboxLaneOf, made, buffer, provider, registered, sweep>>

(* A channel not made before: make(chan struct{}, n). *)
Fresh(kind) == CHOOSE ch \in kind \ made : TRUE
CanMake(kind) == kind \ made # {}

LookupLane(c) ==
  LET w  == caller[c].ws
      ch == IF laneOf[w] = Nil THEN Fresh(Lanes) ELSE laneOf[w] IN
  /\ CallerAt(c, "lookup") /\ caller[c].class # "sandbox_write"
  /\ laneOf[w] = Nil => CanMake(Lanes)
  /\ made' = made \cup {ch} /\ laneOf' = [laneOf EXCEPT ![w] = ch]
  /\ caller' = [caller EXCEPT ![c] = [@ EXCEPT !.pc = "enter", !.lane = ch]]
  /\ UNCHANGED <<sandboxLaneOf, buffer, provider, sandbox, registered, sweep>>

LookupSandboxLane(c) ==
  LET w  == caller[c].ws
      ch == IF sandboxLaneOf[w] = Nil THEN Fresh(SandboxLanes) ELSE sandboxLaneOf[w] IN
  /\ CallerAt(c, "lookup") /\ caller[c].class = "sandbox_write"
  /\ sandboxLaneOf[w] = Nil => CanMake(SandboxLanes)
  /\ made' = made \cup {ch} /\ sandboxLaneOf' = [sandboxLaneOf EXCEPT ![w] = ch]
  /\ caller' = [caller EXCEPT ![c] = [@ EXCEPT !.pc = "enter", !.lane = ch]]
  /\ UNCHANGED <<laneOf, buffer, provider, sandbox, registered, sweep>>

LaneQuota(c) == IF caller[c].class = "sandbox_write" THEN SandboxLaneQuota ELSE 1

EnterLane(c) ==
  /\ CallerAt(c, "enter") /\ HasRoom(buffer[caller[c].lane], LaneQuota(c))
  /\ buffer' = [buffer EXCEPT ![caller[c].lane] = @ \cup {c}]
  /\ CallerGoto(c, "resolve")
  /\ UNCHANGED <<laneOf, sandboxLaneOf, made, provider, sandbox, registered, sweep>>

(* Where a call starts to give back what it holds. *)
AfterLane(class) ==
  CASE class = "sandbox_write" -> "unservice"
    [] class = "provider_read" -> "unprovider"
    [] OTHER -> "idle"

(* Mutant: a cancelled wait returns without giving anything back. *)
CancelLeaks(c) ==
  /\ caller[c].pc \in {"provider", "service", "enter"}
  /\ CallerGoto(c, "idle")
  /\ UNCHANGED <<slots, registered, sweep>>

(* The context ends while the call waits: it gives back what it took so far. *)
CancelWait(c) ==
  /\ caller[c].pc \in {"provider", "service", "enter"}
  /\ CallerGoto(c, CASE CallerAt(c, "provider") -> "idle"
               [] CallerAt(c, "service") -> "unprovider"
               [] CallerAt(c, "enter") -> AfterLane(caller[c].class))
  /\ UNCHANGED <<slots, registered, sweep>>

ReleasePc(c) == IF caller[c].class = "pure_read" THEN "idle" ELSE "leave"

(* Execute looks its workspace up and goes on, or answers that there is none. *)
Resolve(c) ==
  /\ CallerAt(c, "resolve")
  /\ CallerGoto(c, IF caller[c].ws \in registered THEN "running" ELSE ReleasePc(c))
  /\ UNCHANGED <<slots, registered, sweep>>

(* Execute returned, and release runs. *)
ExecuteReturns(c) ==
  /\ CallerAt(c, "running")
  /\ CallerGoto(c, ReleasePc(c))
  /\ UNCHANGED <<slots, registered, sweep>>

LeaveLane(c) ==
  /\ CallerAt(c, "leave")
  /\ buffer' = [buffer EXCEPT ![caller[c].lane] = @ \ {c}]
  /\ CallerGoto(c, AfterLane(caller[c].class))
  /\ UNCHANGED <<laneOf, sandboxLaneOf, made, provider, sandbox, registered, sweep>>

ReleaseService(c) ==
  /\ CallerAt(c, "unservice")
  /\ sandbox' = sandbox \ {c} /\ CallerGoto(c, "unprovider")
  /\ UNCHANGED <<laneOf, sandboxLaneOf, made, buffer, provider, registered, sweep>>

ReleaseProvider(c) ==
  /\ CallerAt(c, "unprovider")
  /\ provider' = provider \ {c} /\ CallerGoto(c, "idle")
  /\ UNCHANGED <<laneOf, sandboxLaneOf, made, buffer, sandbox, registered, sweep>>

Idle(ch) == IF ch = Nil THEN TRUE ELSE buffer[ch] = {}

(* A call holds a lane, or a preparation has its receipt in flight.  The other holders
   workspaceBusy asks for are of other components. *)
WorkspaceBusy(w) ==
  \/ ~Idle(laneOf[w]) \/ ~Idle(sandboxLaneOf[w])
  \/ \E c \in Callers : caller[c].ws = w /\ caller[c].class = "sandbox_write" /\ ~CallerAt(c, "idle")

(* sweepWorkspaceState chooses, one at a time, the workspaces whose root is long gone. *)
CheckBusy(w) ==
  /\ sweep.pc = "check" /\ w \in registered /\ ~WorkspaceBusy(w)
  /\ sweep' = [sweep EXCEPT !.forget = @ \cup {w}]
  /\ UNCHANGED <<caller, slots, registered>>

(* Mutant: the lanes go though the registry still knows the workspaces. *)
RegistryForgetKeeps(persisted) ==
  /\ sweep.pc = "check" /\ sweep.forget # {}
  /\ registered' = IF persisted THEN registered ELSE registered \ sweep.forget
  /\ sweep' = IF persisted THEN [sweep EXCEPT !.pc = "drop"] ELSE [sweep EXCEPT !.forget = {}]
  /\ UNCHANGED <<caller, slots>>

(* The registry forgets them all; when that cannot be persisted the sweep ends there. *)
RegistryForget(persisted) ==
  /\ sweep.pc = "check" /\ sweep.forget # {}
  /\ registered' = registered \ sweep.forget
  /\ sweep' = IF persisted THEN [sweep EXCEPT !.pc = "drop"] ELSE [sweep EXCEPT !.forget = {}]
  /\ UNCHANGED <<caller, slots>>

(* dropWorkspaceState of one of them: the lanes that buffer nothing go. *)
Forget(w) ==
  /\ sweep.pc = "drop" /\ w \in sweep.forget
  /\ laneOf' = [laneOf EXCEPT ![w] = IF Idle(@) THEN Nil ELSE @]
  /\ sandboxLaneOf' = [sandboxLaneOf EXCEPT ![w] = IF Idle(@) THEN Nil ELSE @]
  /\ sweep' = [pc |-> IF sweep.forget = {w} THEN "check" ELSE "drop", forget |-> sweep.forget \ {w}]
  /\ UNCHANGED <<caller, made, buffer, provider, sandbox, registered>>

Acquire(c) ==
  \/ AcquireProvider(c)
  \/ AcquireService(c)
  \/ LookupLane(c)
  \/ LookupSandboxLane(c)
  \/ EnterLane(c)

Release(c) ==
  \/ Resolve(c)
  \/ ExecuteReturns(c)
  \/ LeaveLane(c)
  \/ ReleaseService(c)
  \/ ReleaseProvider(c)

SchedulerNext ==
  \/ \E c \in Callers, class \in Classes, w \in Workspaces : Start(c, class, w)
  \/ \E c \in Callers : Acquire(c) \/ CancelWait(c) \/ Release(c)
  \/ \E w \in Workspaces : CheckBusy(w)
  \/ \E persisted \in BOOLEAN : RegistryForget(persisted)
  \/ \E w \in Workspaces : Forget(w)

(* Handlers return: each is bounded by its timeout.  A send that waits on a full
   channel is served in arrival order, so it is not passed over for ever. *)
SchedulerFairness == \A c \in Callers : SF_schedulerVars(Acquire(c)) /\ WF_schedulerVars(Release(c))

SchedulerSpec == SchedulerInit /\ [][SchedulerNext]_schedulerVars /\ SchedulerFairness

-----------------------------------------------------------------------------
(* Properties. *)

Running(c) == CallerAt(c, "running") /\ caller[c].class # "pure_read"
InLane(c) == Running(c) /\ caller[c].class # "sandbox_write"

(* Canonical writes and provider reads of one workspace run one at a time, though the
   sweep drops a lane that a call has looked up and not yet entered. *)
LaneExclusive ==
  \A c, d \in Callers : InLane(c) /\ InLane(d) /\ caller[c].ws = caller[d].ws => c = d

(* At most two preparations of one workspace and four of the service run at a time,
   and no more calls than the quota are with a provider. *)
QuotasHold ==
  /\ \A w \in Workspaces : Cardinality({c \in Callers : Running(c) /\ ~InLane(c) /\ caller[c].ws = w})
                             <= SandboxLaneQuota
  /\ Cardinality({c \in Callers : Running(c) /\ caller[c].class = "sandbox_write"}) <= SandboxQuota
  /\ Cardinality({c \in Callers : Running(c) /\ caller[c].class # "canonical_write"}) <= ProviderQuota

(* A call buffers a token exactly where it is entitled to one: none is lost when a
   wait is cancelled between two slots, and none is given back twice. *)
TokensAreHeld ==
  \A c \in Callers :
    /\ c \in provider <=>
         /\ caller[c].class \in {"provider_read", "sandbox_write"}
         /\ caller[c].pc \in {"service", "lookup", "enter", "resolve", "running", "leave",
                          "unservice", "unprovider"}
    /\ c \in sandbox <=>
         /\ caller[c].class = "sandbox_write"
         /\ caller[c].pc \in {"lookup", "enter", "resolve", "running", "leave", "unservice"}
    /\ \A ch \in Channels : c \in buffer[ch] <=>
         /\ ch = caller[c].lane /\ caller[c].class # "pure_read"
         /\ caller[c].pc \in {"resolve", "running", "leave"}

(* A call that waits gets to run, or ends: holding a provider slot while it waits for
   its lane never makes a circle. *)
WaitEnds ==
  \A c \in Callers :
    (caller[c].pc \in {"provider", "service", "lookup", "enter", "resolve"})
      ~> (caller[c].pc \in {"running", "idle"})
=============================================================================
