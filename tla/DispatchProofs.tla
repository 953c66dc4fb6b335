--------------------------- MODULE DispatchProofs ---------------------------
(***************************************************************************)
(* Proofs about the two halves of the dispatcher: Scheduler, for any       *)
(* number of calls, workspaces, lanes and quotas, and Receipts, for any    *)
(* number of calls and keys, any caps and restarts.                        *)
(***************************************************************************)
EXTENDS Scheduler, Receipts, FiniteSetTheorems, TLAPS

-----------------------------------------------------------------------------
(* The scheduler: no token is lost, calls exclude each other, quotas hold. *)

InALane == {"enter", "resolve", "running", "leave"}
LaneClasses == {"provider_read", "canonical_write"}

(* The class of a call says which steps it can be at. *)
Path(class) ==
  CASE class = "pure_read" -> {"idle", "resolve", "running"}
    [] class = "canonical_write" -> {"idle", "lookup", "enter", "resolve", "running", "leave"}
    [] class = "provider_read" ->
         {"idle", "provider", "lookup", "enter", "resolve", "running", "leave", "unprovider"}
    [] OTHER -> CallerPcs
OnPath ==
  \A c \in Callers :
    /\ caller[c].pc \in Path(caller[c].class)
    /\ caller[c].pc # "idle" => caller[c].ws \in Workspaces

(* A call is in a lane of its kind. *)
RightKind ==
  \A c \in Callers : caller[c].pc \in InALane =>
    /\ caller[c].class \in LaneClasses => caller[c].lane \in Lanes
    /\ caller[c].class = "sandbox_write" => caller[c].lane \in SandboxLanes

(* No channel buffers more than it was made for. *)
WithinCapacity ==
  /\ Cardinality(provider) <= ProviderQuota
  /\ Cardinality(sandbox) <= SandboxQuota
  /\ \A l \in Lanes : Cardinality(buffer[l]) <= 1
  /\ \A b \in SandboxLanes : Cardinality(buffer[b]) <= SandboxLaneQuota

(* The sweep drops lanes only of workspaces the registry has forgotten. *)
SweepSound == sweep.pc = "drop" => sweep.forget \cap registered = {}

(* A call of a workspace that is registered, or that works in it, is in the lane the
   scheduler knows. *)
InKnownLane ==
  \A c \in Callers :
    caller[c].pc \in InALane /\ (caller[c].ws \in registered \/ caller[c].pc = "running") =>
      /\ caller[c].class \in LaneClasses => caller[c].lane = laneOf[caller[c].ws]
      /\ caller[c].class = "sandbox_write" => caller[c].lane = sandboxLaneOf[caller[c].ws]

SchedulerInv ==
  /\ SchedulerTypeOK /\ OnPath /\ RightKind /\ TokensAreHeld
  /\ WithinCapacity /\ SweepSound /\ InKnownLane

(* A send that acquireSlot accepts leaves its channel within the quota. *)
LEMMA Room ==
  ASSUME NEW S \in SUBSET Callers, NEW c \in Callers, NEW q \in Nat, HasRoom(S, q)
  PROVE  /\ Cardinality(S \cup {c}) \in Nat /\ Cardinality(S \cup {c}) <= q
<1>1. IsFiniteSet(S)
  BY CallersAssumption, FS_Subset
<1>2. Cardinality(S) \in Nat /\ Cardinality(S) < q
  BY <1>1, FS_CardinalityType DEF HasRoom
<1>3. Cardinality(S \cup {c}) = IF c \in S THEN Cardinality(S) ELSE Cardinality(S) + 1
  BY <1>1, FS_AddElement
<1>4. QED
  BY <1>2, <1>3

(* Giving a token back never makes a channel fuller. *)
LEMMA Less ==
  ASSUME NEW S \in SUBSET Callers, NEW c \in Callers
  PROVE  Cardinality(S) \in Nat /\ Cardinality(S \ {c}) \in Nat /\ Cardinality(S \ {c}) <= Cardinality(S)
<1>1. IsFiniteSet(S) /\ S \ {c} \subseteq S
  BY CallersAssumption, FS_Subset
<1>2. IsFiniteSet(S \ {c}) /\ Cardinality(S \ {c}) <= Cardinality(S)
  BY <1>1, FS_Subset
<1>3. QED
  BY <1>1, <1>2, FS_CardinalityType

(* What lane and sandboxLane give a call that looks a channel up. *)
LaneFound(c, ch) ==
  LET w == caller[c].ws IN
  /\ CallerAt(c, "lookup") /\ caller[c].class # "sandbox_write"
  /\ laneOf[w] \in {Nil, ch}
  /\ made' = made \cup {ch} /\ laneOf' = [laneOf EXCEPT ![w] = ch]
  /\ caller' = [caller EXCEPT ![c] = [@ EXCEPT !.pc = "enter", !.lane = ch]]
  /\ UNCHANGED <<sandboxLaneOf, buffer, provider, sandbox, registered, sweep>>
SandboxLaneFound(c, ch) ==
  LET w == caller[c].ws IN
  /\ CallerAt(c, "lookup") /\ caller[c].class = "sandbox_write"
  /\ sandboxLaneOf[w] \in {Nil, ch}
  /\ made' = made \cup {ch} /\ sandboxLaneOf' = [sandboxLaneOf EXCEPT ![w] = ch]
  /\ caller' = [caller EXCEPT ![c] = [@ EXCEPT !.pc = "enter", !.lane = ch]]
  /\ UNCHANGED <<laneOf, buffer, provider, sandbox, registered, sweep>>

(* A lookup finds a channel of its kind: the known one, or a new one. *)
LEMMA Found ==
  ASSUME SchedulerTypeOK, OnPath, NEW c \in Callers
  PROVE  /\ LookupLane(c) => \E ch \in Lanes : LaneFound(c, ch)
         /\ LookupSandboxLane(c) => \E ch \in SandboxLanes : SandboxLaneFound(c, ch)
<1> DEFINE w == caller[c].ws
<1>1. ASSUME LookupLane(c) PROVE \E ch \in Lanes : LaneFound(c, ch)
  <2> DEFINE ch == IF laneOf[w] = Nil THEN Fresh(Lanes) ELSE laneOf[w]
  <2>1. laneOf[w] \in Lanes \cup {Nil}
    BY <1>1 DEF LookupLane, CallerAt, SchedulerTypeOK, OnPath
  <2>2. laneOf[w] = Nil => Fresh(Lanes) \in Lanes
    BY <1>1 DEF LookupLane, CanMake, Fresh
  <2>3. ch \in Lanes /\ LaneFound(c, ch)
    BY <1>1, <2>1, <2>2 DEF LookupLane, LaneFound
  <2>4. QED
    BY <2>3
<1>2. ASSUME LookupSandboxLane(c) PROVE \E ch \in SandboxLanes : SandboxLaneFound(c, ch)
  <2> DEFINE ch == IF sandboxLaneOf[w] = Nil THEN Fresh(SandboxLanes) ELSE sandboxLaneOf[w]
  <2>1. sandboxLaneOf[w] \in SandboxLanes \cup {Nil}
    BY <1>2 DEF LookupSandboxLane, CallerAt, SchedulerTypeOK, OnPath
  <2>2. sandboxLaneOf[w] = Nil => Fresh(SandboxLanes) \in SandboxLanes
    BY <1>2 DEF LookupSandboxLane, CanMake, Fresh
  <2>3. ch \in SandboxLanes /\ SandboxLaneFound(c, ch)
    BY <1>2, <2>1, <2>2 DEF LookupSandboxLane, SandboxLaneFound
  <2>4. QED
    BY <2>3
<1>3. QED
  BY <1>1, <1>2

(* Moving on, and ending, keep the records of the calls. *)
LEMMA GotoType ==
  ASSUME SchedulerTypeOK, NEW c \in Callers, NEW pc \in CallerPcs, CallerGoto(c, pc)
  PROVE  caller' \in [Callers -> CallRecords]
<1>1. NoCall \in CallRecords
  BY DEF NoCall, CallRecords, CallerPcs, Classes
<1>2. caller[c] \in CallRecords
  BY DEF SchedulerTypeOK
<1>3. [caller[c] EXCEPT !.pc = pc] \in CallRecords
  BY <1>2 DEF CallRecords
<1>4. QED
  BY <1>1, <1>3 DEF CallerGoto, SchedulerTypeOK

(* Every step of the scheduler keeps the types. *)
LEMMA SchedulerTypeStep ==
  ASSUME SchedulerTypeOK, OnPath, [SchedulerNext]_schedulerVars
  PROVE  SchedulerTypeOK'
<1> USE DEF Channels
<1>1. CASE \E c \in Callers, class \in Classes, w \in Workspaces : Start(c, class, w)
  BY <1>1 DEF Start, FirstPc, Classes, slots, SchedulerTypeOK, CallRecords, CallerPcs
<1>2. ASSUME NEW c \in Callers, AcquireProvider(c) PROVE SchedulerTypeOK'
  <2>1. caller' \in [Callers -> CallRecords]
    BY <1>2, GotoType DEF AcquireProvider, CallerPcs
  <2>2. QED
    BY <1>2, <2>1 DEF AcquireProvider, SchedulerTypeOK
<1>3. ASSUME NEW c \in Callers, AcquireService(c) PROVE SchedulerTypeOK'
  <2>1. caller' \in [Callers -> CallRecords]
    BY <1>3, GotoType DEF AcquireService, CallerPcs
  <2>2. QED
    BY <1>3, <2>1 DEF AcquireService, SchedulerTypeOK
<1>4. ASSUME NEW c \in Callers, NEW ch \in Channels
      PROVE  [caller[c] EXCEPT !.pc = "enter", !.lane = ch] \in CallRecords
  <2>1. caller[c] \in CallRecords
    BY DEF SchedulerTypeOK
  <2>2. QED
    BY <2>1 DEF CallRecords, CallerPcs
<1>5. ASSUME NEW c \in Callers, NEW ch \in Lanes, LaneFound(c, ch) PROVE SchedulerTypeOK'
  BY <1>4, <1>5 DEF LaneFound, SchedulerTypeOK
<1>6. ASSUME NEW c \in Callers, NEW ch \in SandboxLanes, SandboxLaneFound(c, ch) PROVE SchedulerTypeOK'
  BY <1>4, <1>6 DEF SandboxLaneFound, SchedulerTypeOK
<1>7. ASSUME NEW c \in Callers, EnterLane(c) PROVE SchedulerTypeOK'
  <2>1. caller' \in [Callers -> CallRecords]
    BY <1>7, GotoType DEF EnterLane, CallerPcs
  <2>2. QED
    BY <1>7, <2>1 DEF EnterLane, SchedulerTypeOK
<1>8. ASSUME NEW class PROVE AfterLane(class) \in CallerPcs
  BY DEF AfterLane, CallerPcs
<1>9. ASSUME NEW c \in Callers, CancelWait(c) PROVE SchedulerTypeOK'
  <2>1. caller' \in [Callers -> CallRecords]
    BY <1>8, <1>9, GotoType DEF CancelWait, CallerAt, CallerPcs
  <2>2. QED
    BY <1>9, <2>1 DEF CancelWait, slots, SchedulerTypeOK
<1>10. ASSUME NEW c \in Callers, Resolve(c) \/ ExecuteReturns(c) PROVE SchedulerTypeOK'
  <2>1. caller' \in [Callers -> CallRecords]
    BY <1>10, GotoType DEF Resolve, ExecuteReturns, ReleasePc, CallerPcs
  <2>2. QED
    BY <1>10, <2>1 DEF Resolve, ExecuteReturns, slots, SchedulerTypeOK
<1>11. ASSUME NEW c \in Callers, LeaveLane(c) PROVE SchedulerTypeOK'
  <2>1. caller' \in [Callers -> CallRecords]
    BY <1>8, <1>11, GotoType DEF LeaveLane
  <2>2. buffer' \in [Channels -> SUBSET Callers]
    BY <1>11 DEF LeaveLane, SchedulerTypeOK
  <2>3. QED
    BY <1>11, <2>1, <2>2 DEF LeaveLane, SchedulerTypeOK
<1>12. ASSUME NEW c \in Callers, ReleaseService(c) \/ ReleaseProvider(c) PROVE SchedulerTypeOK'
  <2>1. caller' \in [Callers -> CallRecords]
    BY <1>12, GotoType DEF ReleaseService, ReleaseProvider, CallerPcs
  <2>2. QED
    BY <1>12, <2>1 DEF ReleaseService, ReleaseProvider, SchedulerTypeOK
<1>13. ASSUME NEW w \in Workspaces, CheckBusy(w) \/ Forget(w) PROVE SchedulerTypeOK'
  BY <1>13 DEF CheckBusy, Forget, slots, SchedulerTypeOK
<1>14. ASSUME NEW persisted \in BOOLEAN, RegistryForget(persisted) PROVE SchedulerTypeOK'
  BY <1>14 DEF RegistryForget, slots, SchedulerTypeOK
<1>15. CASE UNCHANGED schedulerVars
  BY <1>15 DEF schedulerVars, slots, SchedulerTypeOK
<1>16. QED
  BY <1>1, <1>2, <1>3, <1>5, <1>6, <1>7, <1>9, <1>10, <1>11, <1>12, <1>13, <1>14, <1>15, Found
     DEF SchedulerNext, Acquire, Release

(* A step keeps a call on the path of its class. *)
LEMMA PathStep ==
  ASSUME SchedulerTypeOK, OnPath, [SchedulerNext]_schedulerVars
  PROVE  OnPath'
<1> USE DEF SchedulerTypeOK, OnPath, Path, CallRecords, CallerPcs, Classes
<1>1. ASSUME NEW c \in Callers, NEW class \in Classes, NEW w \in Workspaces, Start(c, class, w)
      PROVE  OnPath'
  BY <1>1 DEF slots, Start, CallerAt, FirstPc
<1>2. ASSUME NEW c \in Callers, AcquireProvider(c) PROVE OnPath'
  BY <1>2 DEF AcquireProvider, CallerAt, CallerGoto, NoCall, HasRoom
<1>3. ASSUME NEW c \in Callers, AcquireService(c) PROVE OnPath'
  BY <1>3 DEF AcquireService, CallerAt, CallerGoto, NoCall, HasRoom
<1>4. ASSUME NEW c \in Callers, NEW ch \in Lanes, LaneFound(c, ch) PROVE OnPath'
  BY <1>4 DEF LaneFound, CallerAt
<1>5. ASSUME NEW c \in Callers, NEW ch \in SandboxLanes, SandboxLaneFound(c, ch) PROVE OnPath'
  BY <1>5 DEF SandboxLaneFound, CallerAt
<1>6. ASSUME NEW c \in Callers, EnterLane(c) PROVE OnPath'
  BY <1>6 DEF EnterLane, CallerAt, CallerGoto, NoCall
<1>7. ASSUME NEW c \in Callers, CancelWait(c) PROVE OnPath'
  BY <1>7 DEF slots, CancelWait, CallerAt, CallerGoto, NoCall, AfterLane
<1>8. ASSUME NEW c \in Callers, Resolve(c) \/ ExecuteReturns(c) PROVE OnPath'
  BY <1>8 DEF slots, Resolve, ReleasePc, ExecuteReturns, CallerAt, CallerGoto, NoCall
<1>9. ASSUME NEW c \in Callers, LeaveLane(c) PROVE OnPath'
  BY <1>9 DEF LeaveLane, CallerAt, CallerGoto, NoCall, AfterLane
<1>10. ASSUME NEW c \in Callers, ReleaseService(c) PROVE OnPath'
  BY <1>10 DEF ReleaseService, CallerAt, CallerGoto, NoCall
<1>11. ASSUME NEW c \in Callers, ReleaseProvider(c) PROVE OnPath'
  BY <1>11 DEF ReleaseProvider, CallerAt, CallerGoto, NoCall
<1>12. ASSUME NEW w \in Workspaces, CheckBusy(w) \/ Forget(w) PROVE OnPath'
  BY <1>12 DEF CheckBusy, Forget, slots
<1>13. ASSUME NEW persisted \in BOOLEAN, RegistryForget(persisted) PROVE OnPath'
  BY <1>13 DEF RegistryForget, slots
<1>14. CASE UNCHANGED schedulerVars
  BY <1>14 DEF schedulerVars, slots
<1>15. QED
  BY <1>1, <1>2, <1>3, <1>4, <1>5, <1>6, <1>7, <1>8, <1>9, <1>10, <1>11, <1>12, <1>14, <1>13, Found
     DEF SchedulerNext, Acquire, Release

(* A step keeps a call in a lane of its kind. *)
LEMMA KindStep ==
  ASSUME SchedulerTypeOK, OnPath, RightKind, [SchedulerNext]_schedulerVars
  PROVE  RightKind'
<1> USE DEF SchedulerTypeOK, OnPath, Path, RightKind, InALane, LaneClasses, CallRecords, CallerPcs, Classes
<1>1. ASSUME NEW c \in Callers, NEW class \in Classes, NEW w \in Workspaces, Start(c, class, w)
      PROVE  RightKind'
  BY <1>1 DEF slots, Start, CallerAt, FirstPc
<1>2. ASSUME NEW c \in Callers, AcquireProvider(c) PROVE RightKind'
  BY <1>2 DEF AcquireProvider, CallerAt, CallerGoto, NoCall, HasRoom
<1>3. ASSUME NEW c \in Callers, AcquireService(c) PROVE RightKind'
  BY <1>3 DEF AcquireService, CallerAt, CallerGoto, NoCall, HasRoom
<1>4. ASSUME NEW c \in Callers, NEW ch \in Lanes, LaneFound(c, ch) PROVE RightKind'
  BY <1>4 DEF LaneFound, CallerAt
<1>5. ASSUME NEW c \in Callers, NEW ch \in SandboxLanes, SandboxLaneFound(c, ch) PROVE RightKind'
  BY <1>5 DEF SandboxLaneFound, CallerAt
<1>6. ASSUME NEW c \in Callers, EnterLane(c) PROVE RightKind'
  BY <1>6 DEF EnterLane, CallerAt, CallerGoto, NoCall
<1>7. ASSUME NEW c \in Callers, CancelWait(c) PROVE RightKind'
  BY <1>7 DEF slots, CancelWait, CallerAt, CallerGoto, NoCall, AfterLane
<1>8. ASSUME NEW c \in Callers, Resolve(c) \/ ExecuteReturns(c) PROVE RightKind'
  BY <1>8 DEF slots, Resolve, ReleasePc, ExecuteReturns, CallerAt, CallerGoto, NoCall
<1>9. ASSUME NEW c \in Callers, LeaveLane(c) PROVE RightKind'
  BY <1>9 DEF LeaveLane, CallerAt, CallerGoto, NoCall, AfterLane
<1>10. ASSUME NEW c \in Callers, ReleaseService(c) PROVE RightKind'
  BY <1>10 DEF ReleaseService, CallerAt, CallerGoto, NoCall
<1>11. ASSUME NEW c \in Callers, ReleaseProvider(c) PROVE RightKind'
  BY <1>11 DEF ReleaseProvider, CallerAt, CallerGoto, NoCall
<1>12. ASSUME NEW w \in Workspaces, CheckBusy(w) \/ Forget(w) PROVE RightKind'
  BY <1>12 DEF CheckBusy, Forget, slots
<1>13. ASSUME NEW persisted \in BOOLEAN, RegistryForget(persisted) PROVE RightKind'
  BY <1>13 DEF RegistryForget, slots
<1>14. CASE UNCHANGED schedulerVars
  BY <1>14 DEF schedulerVars, slots
<1>15. QED
  BY <1>1, <1>2, <1>3, <1>4, <1>5, <1>6, <1>7, <1>8, <1>9, <1>10, <1>11, <1>12, <1>14, <1>13, Found
     DEF SchedulerNext, Acquire, Release

(* A step keeps every token with the call that is entitled to it. *)
LEMMA TokenStep ==
  ASSUME SchedulerTypeOK, OnPath, RightKind, TokensAreHeld, [SchedulerNext]_schedulerVars
  PROVE  TokensAreHeld'
<1> USE DEF SchedulerTypeOK, OnPath, Path, RightKind, TokensAreHeld, InALane, LaneClasses, CallRecords,
           Channels, CallerPcs, Classes
<1>1. ASSUME NEW c \in Callers, NEW class \in Classes, NEW w \in Workspaces, Start(c, class, w)
      PROVE  TokensAreHeld'
  BY <1>1 DEF slots, Start, CallerAt, FirstPc
<1>2. ASSUME NEW c \in Callers, AcquireProvider(c) PROVE TokensAreHeld'
  BY <1>2 DEF AcquireProvider, CallerAt, CallerGoto, NoCall, HasRoom
<1>3. ASSUME NEW c \in Callers, AcquireService(c) PROVE TokensAreHeld'
  BY <1>3 DEF AcquireService, CallerAt, CallerGoto, NoCall, HasRoom
<1>4. ASSUME NEW c \in Callers, NEW ch \in Lanes, LaneFound(c, ch) PROVE TokensAreHeld'
  BY <1>4 DEF LaneFound, CallerAt
<1>5. ASSUME NEW c \in Callers, NEW ch \in SandboxLanes, SandboxLaneFound(c, ch) PROVE TokensAreHeld'
  BY <1>5 DEF SandboxLaneFound, CallerAt
<1>6. ASSUME NEW c \in Callers, EnterLane(c) PROVE TokensAreHeld'
  BY <1>6 DEF EnterLane, CallerAt, CallerGoto, NoCall
<1>7. ASSUME NEW c \in Callers, CancelWait(c) PROVE TokensAreHeld'
  BY <1>7 DEF slots, CancelWait, CallerAt, CallerGoto, NoCall, AfterLane
<1>8. ASSUME NEW c \in Callers, Resolve(c) \/ ExecuteReturns(c) PROVE TokensAreHeld'
  BY <1>8 DEF slots, Resolve, ReleasePc, ExecuteReturns, CallerAt, CallerGoto, NoCall
<1>9. ASSUME NEW c \in Callers, LeaveLane(c) PROVE TokensAreHeld'
  BY <1>9 DEF LeaveLane, CallerAt, CallerGoto, NoCall, AfterLane
<1>10. ASSUME NEW c \in Callers, ReleaseService(c) PROVE TokensAreHeld'
  BY <1>10 DEF ReleaseService, CallerAt, CallerGoto, NoCall
<1>11. ASSUME NEW c \in Callers, ReleaseProvider(c) PROVE TokensAreHeld'
  BY <1>11 DEF ReleaseProvider, CallerAt, CallerGoto, NoCall
<1>12. ASSUME NEW w \in Workspaces, CheckBusy(w) \/ Forget(w) PROVE TokensAreHeld'
  BY <1>12 DEF CheckBusy, Forget, slots
<1>13. ASSUME NEW persisted \in BOOLEAN, RegistryForget(persisted) PROVE TokensAreHeld'
  BY <1>13 DEF RegistryForget, slots
<1>14. CASE UNCHANGED schedulerVars
  BY <1>14 DEF schedulerVars, slots
<1>15. QED
  BY <1>1, <1>2, <1>3, <1>4, <1>5, <1>6, <1>7, <1>8, <1>9, <1>10, <1>11, <1>12, <1>14, <1>13, Found
     DEF SchedulerNext, Acquire, Release

(* A step overfills no channel. *)
LEMMA CapacityStep ==
  ASSUME SchedulerTypeOK, OnPath, RightKind, TokensAreHeld, WithinCapacity, [SchedulerNext]_schedulerVars
  PROVE  WithinCapacity'
<1> USE DEF SchedulerTypeOK, RightKind, WithinCapacity, InALane, LaneClasses, CallRecords, Channels, Classes
<1>1. ASSUME NEW c \in Callers, NEW class \in Classes, NEW w \in Workspaces, Start(c, class, w)
      PROVE  WithinCapacity'
  BY <1>1 DEF slots, Start
<1>2. ASSUME NEW c \in Callers, AcquireProvider(c) PROVE WithinCapacity'
  <2>1. Cardinality(provider \cup {c}) <= ProviderQuota
    BY <1>2, Room, QuotaAssumption DEF AcquireProvider
  <2>2. QED
    BY <1>2, <2>1 DEF AcquireProvider
<1>3. ASSUME NEW c \in Callers, AcquireService(c) PROVE WithinCapacity'
  <2>1. Cardinality(sandbox \cup {c}) <= SandboxQuota
    BY <1>3, Room, QuotaAssumption DEF AcquireService
  <2>2. QED
    BY <1>3, <2>1 DEF AcquireService
<1>4. ASSUME NEW c \in Callers, NEW ch \in Lanes, LaneFound(c, ch) PROVE WithinCapacity'
  BY <1>4 DEF LaneFound, CallerAt
<1>5. ASSUME NEW c \in Callers, NEW ch \in SandboxLanes, SandboxLaneFound(c, ch) PROVE WithinCapacity'
  BY <1>5 DEF SandboxLaneFound, CallerAt
<1>6. ASSUME NEW c \in Callers, EnterLane(c) PROVE WithinCapacity'
  <2> DEFINE l == caller[c].lane
  <2>1. LaneQuota(c) \in Nat
    BY QuotaAssumption DEF LaneQuota
  <2>2. l \in Channels /\ buffer[l] \in SUBSET Callers
    BY <1>6, ChannelAssumption DEF EnterLane, CallerAt, OnPath, Path
  <2>3. Cardinality(buffer[l] \cup {c}) <= LaneQuota(c)
    BY <1>6, <2>1, <2>2, Room DEF EnterLane
  <2>4. l \in Lanes => LaneQuota(c) = 1
    BY <1>6, ChannelAssumption DEF EnterLane, CallerAt, LaneQuota
  <2>5. l \in SandboxLanes => LaneQuota(c) = SandboxLaneQuota
    BY <1>6, ChannelAssumption DEF EnterLane, CallerAt, LaneQuota, OnPath, Path
  <2>6. buffer' = [buffer EXCEPT ![l] = buffer[l] \cup {c}] /\ provider' = provider /\ sandbox' = sandbox
    BY <1>6 DEF EnterLane
  <2> HIDE DEF l
  <2>7. QED
    BY <2>2, <2>3, <2>4, <2>5, <2>6
<1>7. ASSUME NEW c \in Callers, CancelWait(c) PROVE WithinCapacity'
  BY <1>7 DEF slots, CancelWait, CallerAt, CallerGoto, NoCall, AfterLane
<1>8. ASSUME NEW c \in Callers, Resolve(c) \/ ExecuteReturns(c) PROVE WithinCapacity'
  BY <1>8 DEF slots, Resolve, ReleasePc, ExecuteReturns, CallerAt, CallerGoto, NoCall
<1>9. ASSUME NEW c \in Callers, LeaveLane(c) PROVE WithinCapacity'
  <2> DEFINE l == caller[c].lane
  <2>1. buffer' = [buffer EXCEPT ![l] = buffer[l] \ {c}] /\ provider' = provider /\ sandbox' = sandbox
    BY <1>9 DEF LeaveLane
  <2>2. ASSUME l \in Channels
        PROVE  Cardinality(buffer[l]) \in Nat /\ Cardinality(buffer[l] \ {c}) \in Nat
               /\ Cardinality(buffer[l] \ {c}) <= Cardinality(buffer[l])
    BY <2>2, Less
  <2>3. \A ch \in Channels : Cardinality(buffer[ch]) \in Nat
    BY Less
  <2> HIDE DEF l
  <2>4. ASSUME NEW ch \in Channels
        PROVE  /\ Cardinality(buffer'[ch]) \in Nat
               /\ Cardinality(buffer'[ch]) <= Cardinality(buffer[ch])
    <3>1. CASE ch = l
      <4>1. buffer'[ch] = buffer[l] \ {c}
        BY <2>1, <3>1
      <4>2. QED
        BY <2>2, <3>1, <4>1
    <3>2. CASE ch # l
      <4>1. buffer'[ch] = buffer[ch]
        BY <2>1, <3>2
      <4>2. QED
        BY <2>3, <4>1
    <3>3. QED
      BY <3>1, <3>2
  <2>5. \A ch \in Lanes : Cardinality(buffer'[ch]) <= 1
    BY <2>3, <2>4
  <2>6. \A ch \in SandboxLanes : Cardinality(buffer'[ch]) <= SandboxLaneQuota
    BY <2>3, <2>4, QuotaAssumption
  <2>7. QED
    BY <2>1, <2>5, <2>6
<1>10. ASSUME NEW c \in Callers, ReleaseService(c) PROVE WithinCapacity'
  <2>1. /\ Cardinality(sandbox) \in Nat /\ Cardinality(sandbox \ {c}) \in Nat
        /\ Cardinality(sandbox \ {c}) <= Cardinality(sandbox)
    BY Less
  <2>2. QED
    BY <1>10, <2>1, QuotaAssumption DEF ReleaseService
<1>11. ASSUME NEW c \in Callers, ReleaseProvider(c) PROVE WithinCapacity'
  <2>1. /\ Cardinality(provider) \in Nat /\ Cardinality(provider \ {c}) \in Nat
        /\ Cardinality(provider \ {c}) <= Cardinality(provider)
    BY Less
  <2>2. QED
    BY <1>11, <2>1, QuotaAssumption DEF ReleaseProvider
<1>12. ASSUME NEW w \in Workspaces, CheckBusy(w) \/ Forget(w) PROVE WithinCapacity'
  BY <1>12 DEF CheckBusy, Forget, slots
<1>13. ASSUME NEW persisted \in BOOLEAN, RegistryForget(persisted) PROVE WithinCapacity'
  BY <1>13 DEF RegistryForget, slots
<1>14. CASE UNCHANGED schedulerVars
  BY <1>14 DEF schedulerVars, slots
<1>15. QED
  BY <1>1, <1>2, <1>3, <1>4, <1>5, <1>6, <1>7, <1>8, <1>9, <1>10, <1>11, <1>12, <1>14, <1>13, Found
     DEF SchedulerNext, Acquire, Release

(* The registry forgets before the lanes go. *)
LEMMA SweepStep ==
  ASSUME SchedulerTypeOK, SweepSound, [SchedulerNext]_schedulerVars
  PROVE  SweepSound'
<1>1. ASSUME NEW w \in Workspaces, CheckBusy(w) \/ Forget(w) PROVE SweepSound'
  BY <1>1 DEF CheckBusy, Forget, SweepSound, SchedulerTypeOK
<1>2. ASSUME NEW persisted \in BOOLEAN, RegistryForget(persisted) PROVE SweepSound'
  BY <1>2 DEF RegistryForget, SweepSound, SchedulerTypeOK
<1>3. CASE UNCHANGED <<registered, sweep>>
  BY <1>3 DEF SweepSound
<1>4. QED
  BY <1>1, <1>2, <1>3
     DEF SchedulerNext, Acquire, Release, Start, AcquireProvider, AcquireService, LookupLane, LookupSandboxLane,
         EnterLane, CancelWait, Resolve, ExecuteReturns, LeaveLane, ReleaseService, ReleaseProvider,
         schedulerVars

(* A step leaves the calls of registered workspaces in the known lanes. *)
LEMMA KnownLaneStep ==
  ASSUME SchedulerTypeOK, OnPath, RightKind, TokensAreHeld, SweepSound, InKnownLane,
         [SchedulerNext]_schedulerVars
  PROVE  InKnownLane'
<1> USE DEF SchedulerTypeOK, OnPath, Path, InKnownLane, InALane, LaneClasses, CallRecords,
           Channels, CallerPcs, Classes
<1>1. ASSUME NEW c \in Callers, NEW class \in Classes, NEW w \in Workspaces, Start(c, class, w)
      PROVE  InKnownLane'
  BY <1>1 DEF slots, Start, CallerAt, FirstPc
<1>2. ASSUME NEW c \in Callers, AcquireProvider(c) PROVE InKnownLane'
  BY <1>2 DEF AcquireProvider, CallerAt, CallerGoto, NoCall, HasRoom
<1>3. ASSUME NEW c \in Callers, AcquireService(c) PROVE InKnownLane'
  BY <1>3 DEF AcquireService, CallerAt, CallerGoto, NoCall, HasRoom
<1>4. ASSUME NEW c \in Callers, NEW ch \in Lanes, LaneFound(c, ch) PROVE InKnownLane'
  BY <1>4, ChannelAssumption DEF LaneFound, CallerAt, RightKind
<1>5. ASSUME NEW c \in Callers, NEW ch \in SandboxLanes, SandboxLaneFound(c, ch) PROVE InKnownLane'
  BY <1>5, ChannelAssumption DEF SandboxLaneFound, CallerAt, RightKind
<1>6. ASSUME NEW c \in Callers, EnterLane(c) PROVE InKnownLane'
  BY <1>6 DEF EnterLane, CallerAt, CallerGoto, NoCall
<1>7. ASSUME NEW c \in Callers, CancelWait(c) PROVE InKnownLane'
  BY <1>7 DEF slots, CancelWait, CallerAt, CallerGoto, NoCall, AfterLane
<1>8. ASSUME NEW c \in Callers, Resolve(c) \/ ExecuteReturns(c) PROVE InKnownLane'
  BY <1>8 DEF slots, Resolve, ReleasePc, ExecuteReturns, CallerAt, CallerGoto, NoCall
<1>9. ASSUME NEW c \in Callers, LeaveLane(c) PROVE InKnownLane'
  BY <1>9 DEF LeaveLane, CallerAt, CallerGoto, NoCall, AfterLane
<1>10. ASSUME NEW c \in Callers, ReleaseService(c) PROVE InKnownLane'
  BY <1>10 DEF ReleaseService, CallerAt, CallerGoto, NoCall
<1>11. ASSUME NEW c \in Callers, ReleaseProvider(c) PROVE InKnownLane'
  BY <1>11 DEF ReleaseProvider, CallerAt, CallerGoto, NoCall
<1>12. ASSUME NEW w \in Workspaces, CheckBusy(w) PROVE InKnownLane'
  BY <1>12 DEF CheckBusy, slots
<1>13. ASSUME NEW w \in Workspaces, Forget(w) PROVE InKnownLane'
  <2> SUFFICES ASSUME NEW d \in Callers, caller[d].pc \in InALane,
                      caller[d].ws \in registered \/ caller[d].pc = "running"
               PROVE  /\ caller[d].class \in LaneClasses => caller[d].lane = laneOf'[caller[d].ws]
                      /\ caller[d].class = "sandbox_write" => caller[d].lane = sandboxLaneOf'[caller[d].ws]
    BY <1>13 DEF Forget
  <2>1. w \notin registered
    BY <1>13 DEF Forget, SweepSound
  <2>2. CASE caller[d].ws # w
    BY <1>13, <2>2 DEF Forget
  <2>3. CASE caller[d].ws = w
    <3>1. caller[d].pc = "running"
      BY <2>1, <2>3
    <3>2. ASSUME caller[d].class \in LaneClasses PROVE caller[d].lane = laneOf'[w]
      <4>1. caller[d].lane = laneOf[w] /\ laneOf[w] \in Lanes
        BY <2>3, <3>1, <3>2 DEF RightKind
      <4>2. d \in buffer[laneOf[w]]
        BY <3>1, <3>2, <4>1 DEF TokensAreHeld
      <4>3. ~Idle(laneOf[w])
        BY <4>1, <4>2, ChannelAssumption DEF Idle
      <4>4. QED
        BY <1>13, <4>1, <4>3 DEF Forget
    <3>3. ASSUME caller[d].class = "sandbox_write" PROVE caller[d].lane = sandboxLaneOf'[w]
      <4>1. caller[d].lane = sandboxLaneOf[w] /\ sandboxLaneOf[w] \in SandboxLanes
        BY <2>3, <3>1, <3>3 DEF RightKind
      <4>2. d \in buffer[sandboxLaneOf[w]]
        BY <3>1, <3>3, <4>1 DEF TokensAreHeld
      <4>3. ~Idle(sandboxLaneOf[w])
        BY <4>1, <4>2, ChannelAssumption DEF Idle
      <4>4. QED
        BY <1>13, <4>1, <4>3 DEF Forget
    <3>4. QED
      BY <2>3, <3>2, <3>3
  <2>4. QED
    BY <2>2, <2>3
<1>14. ASSUME NEW persisted \in BOOLEAN, RegistryForget(persisted) PROVE InKnownLane'
  BY <1>14 DEF RegistryForget, slots
<1>15. CASE UNCHANGED schedulerVars
  BY <1>15 DEF schedulerVars, slots
<1>16. QED
  BY <1>1, <1>2, <1>3, <1>4, <1>5, <1>6, <1>7, <1>8, <1>9, <1>10, <1>11, <1>12, <1>15, <1>14, <1>13, Found
     DEF SchedulerNext, Acquire, Release

(* Initially nothing is held. *)
LEMMA SchedulerInitInv == SchedulerInit => SchedulerInv
<1> SUFFICES ASSUME SchedulerInit PROVE SchedulerInv
  OBVIOUS
<1>1. SchedulerTypeOK
  BY DEF SchedulerInit, SchedulerTypeOK, CallRecords, CallerPcs, Classes, NoCall
<1>2. OnPath /\ RightKind /\ InKnownLane /\ SweepSound
  BY DEF SchedulerInit, OnPath, Path, RightKind, InKnownLane, InALane, NoCall, SweepSound
<1>3. TokensAreHeld
  BY DEF SchedulerInit, TokensAreHeld, NoCall
<1>4. WithinCapacity
  BY FS_EmptySet, QuotaAssumption DEF SchedulerInit, WithinCapacity, Channels
<1>5. QED
  BY <1>1, <1>2, <1>3, <1>4 DEF SchedulerInv

(* IInv is inductive. *)
THEOREM SchedulerInductive == SchedulerSpec => []SchedulerInv
<1>1. SchedulerInv /\ [SchedulerNext]_schedulerVars => SchedulerInv'
  BY SchedulerTypeStep, PathStep, KindStep, TokenStep, CapacityStep, SweepStep, KnownLaneStep
  DEF SchedulerInv
<1>2. QED
  BY SchedulerInitInv, <1>1, PTL DEF SchedulerSpec

(* Every variable of the scheduler keeps its type, however the lanes are forgotten. *)
THEOREM SchedulerTypeCorrect == SchedulerSpec => []SchedulerTypeOK
<1>1. SchedulerInv => SchedulerTypeOK
  BY DEF SchedulerInv
<1>2. QED
  BY SchedulerInductive, <1>1, PTL

(* No token of acquireSlot is lost or given back twice, cancelled waits and forgotten
   lanes included. *)
THEOREM NoTokenLost == SchedulerSpec => []TokensAreHeld
<1>1. SchedulerInv => TokensAreHeld
  BY DEF SchedulerInv
<1>2. QED
  BY SchedulerInductive, <1>1, PTL

(* Canonical writes and provider reads of one workspace run one at a time, whatever the
   registry sweep forgets meanwhile. *)
THEOREM MutualExclusion == SchedulerSpec => []LaneExclusive
<1>1. ASSUME SchedulerInv PROVE LaneExclusive
  <2> SUFFICES ASSUME NEW c \in Callers, NEW d \in Callers, InLane(c), InLane(d), caller[c].ws = caller[d].ws
               PROVE  c = d
    BY DEF LaneExclusive
  <2> DEFINE l == caller[c].lane
  <2>1. caller[c].class \in LaneClasses /\ caller[d].class \in LaneClasses
    BY <1>1 DEF SchedulerInv, SchedulerTypeOK, CallRecords, Classes, LaneClasses, InLane, Running
  <2>2. caller[d].lane = l /\ l \in Lanes
    BY <1>1, <2>1 DEF SchedulerInv, InKnownLane, RightKind, InALane, InLane, Running, CallerAt
  <2>3. c \in buffer[l] /\ d \in buffer[l]
    BY <1>1, <2>1, <2>2 DEF SchedulerInv, TokensAreHeld, InLane, Running, CallerAt, Channels, LaneClasses
  <2>4. IsFiniteSet(buffer[l]) /\ Cardinality(buffer[l]) <= 1
    BY <1>1, <2>2, CallersAssumption, FS_Subset DEF SchedulerInv, SchedulerTypeOK, WithinCapacity, Channels
  <2> HIDE DEF l
  <2>5. IsFiniteSet({c, d}) /\ {c, d} \subseteq buffer[l] /\ Cardinality({c, d}) <= Cardinality(buffer[l])
    BY <2>3, <2>4, FS_Subset
  <2>6. c # d => Cardinality({c, d}) = 2
    <3>1. IsFiniteSet({c}) /\ Cardinality({c}) = 1
      BY FS_Singleton
    <3>2. Cardinality({c} \cup {d}) = IF d \in {c} THEN Cardinality({c}) ELSE Cardinality({c}) + 1
      BY <3>1, FS_AddElement
    <3>3. {c} \cup {d} = {c, d}
      OBVIOUS
    <3>4. QED
      BY <3>1, <3>2, <3>3
  <2>7. Cardinality(buffer[l]) \in Nat
    BY <2>4, FS_CardinalityType
  <2>8. QED
    BY <2>4, <2>5, <2>6, <2>7
<1>2. QED
  BY SchedulerInductive, <1>1, PTL

(* No more preparations and provider calls run than the quotas allow, whatever the
   registry sweep forgets meanwhile. *)
THEOREM Quotas == SchedulerSpec => []QuotasHold
<1>1. ASSUME SchedulerInv PROVE QuotasHold
  <2> USE <1>1 DEF SchedulerInv
  <2>1. ASSUME NEW w \in Workspaces
        PROVE  Cardinality({c \in Callers : Running(c) /\ ~InLane(c) /\ caller[c].ws = w}) <= SandboxLaneQuota
    <3> DEFINE S == {c \in Callers : Running(c) /\ ~InLane(c) /\ caller[c].ws = w}
    <3> DEFINE b == sandboxLaneOf[w]
    <3>1. CASE S = {}
      BY <3>1, FS_EmptySet, QuotaAssumption
    <3>2. CASE S # {}
      <4>1. S \subseteq buffer[b] /\ b \in SandboxLanes
        BY <3>2 DEF Running, InLane, CallerAt, InKnownLane, RightKind, InALane, TokensAreHeld, Channels
      <4>2. IsFiniteSet(buffer[b]) /\ Cardinality(buffer[b]) <= SandboxLaneQuota
        BY <4>1, CallersAssumption, FS_Subset DEF SchedulerTypeOK, WithinCapacity, Channels
      <4> HIDE DEF S, b
      <4>3. Cardinality(S) <= Cardinality(buffer[b]) /\ Cardinality(S) \in Nat /\ Cardinality(buffer[b]) \in Nat
        BY <4>1, <4>2, FS_Subset, FS_CardinalityType
      <4>4. QED
        BY <4>2, <4>3, QuotaAssumption DEF S
    <3>3. QED
      BY <3>1, <3>2
  <2>2. Cardinality({c \in Callers : Running(c) /\ caller[c].class = "sandbox_write"}) <= SandboxQuota
    <3> DEFINE S == {c \in Callers : Running(c) /\ caller[c].class = "sandbox_write"}
    <3>1. S \subseteq sandbox
      BY DEF Running, CallerAt, TokensAreHeld
    <3>2. IsFiniteSet(sandbox)
      BY CallersAssumption, FS_Subset DEF SchedulerTypeOK
    <3> HIDE DEF S
    <3>3. Cardinality(S) <= Cardinality(sandbox) /\ Cardinality(S) \in Nat /\ Cardinality(sandbox) \in Nat
      BY <3>1, <3>2, FS_Subset, FS_CardinalityType
    <3>4. QED
      BY <3>3, QuotaAssumption DEF S, WithinCapacity
  <2>3. Cardinality({c \in Callers : Running(c) /\ caller[c].class # "canonical_write"}) <= ProviderQuota
    <3> DEFINE S == {c \in Callers : Running(c) /\ caller[c].class # "canonical_write"}
    <3>1. S \subseteq provider
      BY DEF Running, CallerAt, TokensAreHeld, SchedulerTypeOK, CallRecords, Classes
    <3>2. IsFiniteSet(provider)
      BY CallersAssumption, FS_Subset DEF SchedulerTypeOK
    <3> HIDE DEF S
    <3>3. Cardinality(S) <= Cardinality(provider) /\ Cardinality(S) \in Nat /\ Cardinality(provider) \in Nat
      BY <3>1, <3>2, FS_Subset, FS_CardinalityType
    <3>4. QED
      BY <3>3, QuotaAssumption DEF S, WithinCapacity
  <2>4. QED
    BY <2>1, <2>2, <2>3 DEF QuotasHold
<1>2. QED
  BY SchedulerInductive, <1>1, PTL

-----------------------------------------------------------------------------
(* The receipts. *)

(* A call that runs owns its key: its receipt is in the table, unreleased, and no cap
   has touched it. *)
Owned ==
  \A c \in Calls : InFlight(c) =>
    /\ replays[call[c].key] = c
    /\ ~receipt[c].done /\ ~receipt[c].evicted

(* A call that waits knows on which receipt. *)
WaitsOn == \A c \in Calls : call[c].pc = "wait" => call[c].on \in Calls

(* Nothing mentions a call that has not begun. *)
Unbegun ==
  \A c \in Calls : call[c].pc = "new" =>
    /\ ~receipt[c].done /\ ~receipt[c].evicted
    /\ \A k \in Keys : replays[k] # c /\ file[k].of # c
    /\ \A d \in Calls, k \in Keys : call[d].snap[k].of # c

(* A receipt in the table, or that a call waits on, is released or will be. *)
Runs(o) == receipt[o].done \/ InFlight(o)
TableRuns == \A k \in Keys : replays[k] \in Calls => Runs(replays[k])
WaitRuns == \A c \in Calls : call[c].pc = "wait" => Runs(call[c].on)

(* Only calls that ended were answered, and only a writer holds a copy of the table. *)
Answered == \A c \in Calls : reply[c].kind # "none" => call[c].pc = "done"
Copied == \A c \in Calls, k \in Keys : call[c].pc # "write" => call[c].snap[k].of = None

(* The receipt of a change its client was told of is in the table: as long as the service
   runs, and after a restart if the file, or a copy about to become the file, has it. *)
Durable(c) ==
  LET k == call[c].key IN
  restarts = 0 \/ file[k].of = c \/ \E d \in Calls : call[d].snap[k].of = c
Kept ==
  \A c \in Calls :
    reply[c].kind = "created" /\ c \notin dropped /\ Kind[call[c].key] # "prepare" /\ Durable(c) =>
      replays[call[c].key] = c

IInv == TypeOK /\ Owned /\ WaitsOn /\ Unbegun /\ TableRuns /\ WaitRuns /\ Answered /\ Copied /\ Kept

(* applyReceiptCapsLocked keeps the shape of the table and of the receipts. *)
LEMMA CapsType ==
  ASSUME NEW table \in [Keys -> Calls \cup {None}], NEW recs \in [Calls -> Receipt]
  PROVE  /\ CappedReceipts(table, recs) \in [Calls -> Receipt]
         /\ CappedTable(table, recs) \in [Keys -> Calls \cup {None}]
<1>1. ASSUME NEW o \in Calls PROVE [recs[o] EXCEPT !.evicted = TRUE, !.result = "none"] \in Receipt
  <2>1. recs[o] \in Receipt
    OBVIOUS
  <2>2. QED
    BY <2>1 DEF Receipt, Results
<1>2. CappedReceipts(table, recs) \in [Calls -> Receipt]
  BY <1>1 DEF CappedReceipts
<1>3. CappedTable(table, recs) \in [Keys -> Calls \cup {None}]
  BY DEF CappedTable
<1>4. QED
  BY <1>2, <1>3

(* applyReceiptCapsLocked touches no receipt in flight and releases nobody. *)
LEMMA CapsSpare ==
  ASSUME NEW table \in [Keys -> Calls \cup {None}], NEW recs \in [Calls -> Receipt],
         NEW c \in Calls, NEW k \in Keys, table[k] = c, ~recs[c].done, ~recs[c].evicted
  PROVE  /\ CappedTable(table, recs)[k] = c
         /\ ~CappedReceipts(table, recs)[c].done /\ ~CappedReceipts(table, recs)[c].evicted
<1> DEFINE at == [j \in Keys |-> IF table[j] = None THEN 0 ELSE recs[table[j]].at]
           evicted == {table[j] : j \in Over(Settled(table, recs), PerWorkspace, at)}
<1>1. c \notin evicted
  <2>1. \A j \in Settled(table, recs) : recs[table[j]].done
    BY DEF Settled
  <2>2. Over(Settled(table, recs), PerWorkspace, at) \subseteq Settled(table, recs)
    BY DEF Over
  <2>3. QED
    BY <2>1, <2>2
<1>2. CappedReceipts(table, recs)[c] = recs[c]
  BY <1>1 DEF CappedReceipts
<1>3. CappedTable(table, recs)[k] = table[k]
  <2>1. k \notin Tombs(table, recs)
    BY <1>2 DEF Tombs
  <2>2. Excess(table, recs) \subseteq Tombs(table, recs)
    BY DEF Excess, Over
  <2>3. QED
    BY <2>1, <2>2 DEF CappedTable
<1>4. QED
  BY <1>2, <1>3

(* applyReceiptCapsLocked adds no call to the table, and changes no receipt outside it. *)
LEMMA CapsOutside ==
  ASSUME NEW table \in [Keys -> Calls \cup {None}], NEW recs \in [Calls -> Receipt],
         NEW c \in Calls, \A k \in Keys : table[k] # c
  PROVE  /\ CappedReceipts(table, recs)[c] = recs[c]
         /\ \A k \in Keys : CappedTable(table, recs)[k] \in {table[k], None}
<1> DEFINE at == [j \in Keys |-> IF table[j] = None THEN 0 ELSE recs[table[j]].at]
           evicted == {table[j] : j \in Over(Settled(table, recs), PerWorkspace, at)}
<1>1. Over(Settled(table, recs), PerWorkspace, at) \subseteq Keys
  BY DEF Over, Settled
<1>2. c \notin evicted
  BY <1>1
<1>3. CappedReceipts(table, recs)[c] = recs[c]
  BY <1>2 DEF CappedReceipts
<1>4. \A k \in Keys : CappedTable(table, recs)[k] \in {table[k], None}
  BY DEF CappedTable
<1>5. QED
  BY <1>3, <1>4

(* applyReceiptCapsLocked leaves every done channel as it is, and the table names no
   other call under a key. *)
LEMMA CapsDone ==
  ASSUME NEW table \in [Keys -> Calls \cup {None}], NEW recs \in [Calls -> Receipt]
  PROVE  /\ \A o \in Calls : CappedReceipts(table, recs)[o].done = recs[o].done
         /\ \A k \in Keys : CappedTable(table, recs)[k] \in {table[k], None}
<1>1. ASSUME NEW o \in Calls PROVE CappedReceipts(table, recs)[o].done = recs[o].done
  <2>1. recs[o] \in Receipt
    OBVIOUS
  <2>2. [recs[o] EXCEPT !.evicted = TRUE, !.result = "none"].done = recs[o].done
    BY <2>1 DEF Receipt
  <2>3. QED
    BY <2>2 DEF CappedReceipts
<1>2. \A k \in Keys : CappedTable(table, recs)[k] \in {table[k], None}
  BY DEF CappedTable
<1>3. QED
  BY <1>1, <1>2

(* The tombstones the caps remove are of calls, and a receipt leaves the table only
   among them. *)
LEMMA ExcessOfCalls ==
  ASSUME NEW table \in [Keys -> Calls \cup {None}], NEW recs \in [Calls -> Receipt]
  PROVE  /\ {table[k] : k \in Excess(table, recs)} \subseteq Calls
         /\ \A k \in Keys : CappedTable(table, recs)[k] = table[k] \/ k \in Excess(table, recs)
<1>1. Excess(table, recs) \subseteq Tombs(table, recs)
  BY DEF Excess, Over
<1>2. \A k \in Tombs(table, recs) : k \in Keys /\ table[k] # None
  BY DEF Tombs
<1>3. {table[k] : k \in Excess(table, recs)} \subseteq Calls
  BY <1>1, <1>2
<1>4. \A k \in Keys : CappedTable(table, recs)[k] = table[k] \/ k \in Excess(table, recs)
  BY DEF CappedTable
<1>5. QED
  BY <1>3, <1>4

(* The copy of the table that is written has the shape of the file. *)
LEMMA SnapshotType ==
  ASSUME TypeOK
  PROVE  Snapshot \in Files /\ NoFile \in Files
<1>1. NoRecord \in Persisted
  BY DEF NoRecord, Persisted, Results
<1>2. ASSUME NEW o \in Calls
      PROVE  [of |-> o, evicted |-> receipt[o].evicted, at |-> receipt[o].at, result |-> receipt[o].result]
               \in Persisted
  <2>1. receipt[o] \in Receipt
    BY DEF TypeOK
  <2>2. QED
    BY <2>1 DEF Receipt, Persisted
<1>3. QED
  BY <1>1, <1>2 DEF Snapshot, NoFile, Files, TypeOK

(* Every step keeps the types. *)
LEMMA TypeStep ==
  ASSUME TypeOK, WaitsOn, [Next]_vars
  PROVE  TypeOK'
<1> USE CapAssumption
<1>1. ASSUME NEW c \in Calls, NEW pc \in Pcs, Goto(c, pc) PROVE call' \in [Calls -> CallRecord]
  BY <1>1 DEF Goto, TypeOK, CallRecord
<1>2. ASSUME NEW c \in Calls, NEW kind \in {"created", "reused", "evicted", "timeout", "cancelled", "replayed"},
             NEW of \in Calls \cup {None}, NEW result \in Results, NEW persisted \in BOOLEAN,
             Answer(c, kind, of, result, persisted)
      PROVE  reply' \in [Calls -> Reply]
  BY <1>2 DEF Answer, TypeOK, Reply
<1>3. ASSUME NEW c \in Calls, Begin(c) PROVE TypeOK'
  <2>1. call[c] \in CallRecord /\ replays[call[c].key] \in Calls \cup {None}
    BY DEF TypeOK, CallRecord
  <2>2. call' \in [Calls -> CallRecord]
    BY <1>3, <2>1 DEF Begin, TypeOK, CallRecord, Pcs
  <2>3. replays' \in [Keys -> Calls \cup {None}]
    BY <1>3, <2>1 DEF Begin, TypeOK, CallRecord
  <2>4. QED
    BY <1>3, <2>2, <2>3 DEF Begin, TypeOK
<1>4. ASSUME NEW c \in Calls, Mutate(c) \/ Refuse(c) PROVE TypeOK'
  <2>1. call' \in [Calls -> CallRecord]
    BY <1>1, <1>4 DEF Mutate, Refuse, Pcs
  <2>2. QED
    BY <1>4, <2>1 DEF Mutate, Refuse, TypeOK
<1>5. ASSUME NEW c \in Calls, Store(c) PROVE TypeOK'
  <2> DEFINE k == call[c].key
             recs == [receipt EXCEPT ![c].complete = TRUE, ![c].at = clock + 1,
                              ![c].result = IF call[c].final THEN "final" ELSE "checkpoint",
                              ![c].checkpointed = @ \/ ~call[c].final]
             table == [replays EXCEPT ![k] = c]
  <2>1. recs \in [Calls -> Receipt]
    <3>1. receipt[c] \in Receipt /\ clock + 1 \in Nat
      BY DEF TypeOK
    <3>2. call[c].final \in BOOLEAN /\ (receipt[c].checkpointed \/ ~call[c].final) \in BOOLEAN
      BY DEF TypeOK, CallRecord
    <3>3. QED
      BY <3>1, <3>2 DEF TypeOK, Receipt, Results
  <2>2. table \in [Keys -> Calls \cup {None}]
    BY DEF TypeOK
  <2>3. /\ receipt' = CappedReceipts(table, recs) /\ replays' = CappedTable(table, recs)
        /\ dropped' = dropped \cup {table[j] : j \in Excess(table, recs)}
    BY <1>5 DEF Store
  <2> HIDE DEF recs, table
  <2>4. receipt' \in [Calls -> Receipt] /\ replays' \in [Keys -> Calls \cup {None}]
    BY <2>1, <2>2, <2>3, CapsType
  <2>5. call' \in [Calls -> CallRecord]
    BY <1>1, <1>5 DEF Store, Pcs
  <2>6. clock' \in Nat /\ UNCHANGED <<file, reply, mutated, restarts>>
    BY <1>5 DEF Store, TypeOK
  <2>7. dropped' \subseteq Calls
    BY <2>1, <2>2, <2>3, ExcessOfCalls DEF TypeOK
  <2>8. QED
    BY <2>4, <2>5, <2>6, <2>7 DEF TypeOK
<1>6. ASSUME NEW c \in Calls, Snap(c) PROVE TypeOK'
  <2>1. call' \in [Calls -> CallRecord]
    <3>1. Snapshot \in Files
      BY SnapshotType
    <3>2. call' = [call EXCEPT ![c].pc = "write", ![c].snap = Snapshot]
      BY <1>6 DEF Snap
    <3>3. call[c] \in CallRecord
      BY DEF TypeOK
    <3>4. [call[c] EXCEPT !.pc = "write", !.snap = Snapshot] \in CallRecord
      BY <3>1, <3>3 DEF CallRecord, Pcs
    <3>5. call' = [call EXCEPT ![c] = [call[c] EXCEPT !.pc = "write", !.snap = Snapshot]]
      BY <3>2 DEF TypeOK
    <3>6. QED
      BY <3>4, <3>5 DEF TypeOK
  <2>2. QED
    BY <1>6, <2>1 DEF Snap, TypeOK
<1>7. ASSUME NEW c \in Calls, NEW wrote \in BOOLEAN, NEW ok \in BOOLEAN, Write(c, wrote, ok) PROVE TypeOK'
  <2>1. call[c] \in CallRecord
    BY DEF TypeOK
  <2>2. call' \in [Calls -> CallRecord]
    BY <1>7, <2>1, SnapshotType DEF Write, TypeOK, CallRecord, Pcs
  <2>3. file' \in Files
    BY <1>7, <2>1 DEF Write, TypeOK, CallRecord
  <2>4. receipt' \in [Calls -> Receipt]
    BY <1>7 DEF Write, TypeOK, Receipt
  <2>5. QED
    BY <1>7, <2>2, <2>3, <2>4 DEF Write, TypeOK
<1>8. ASSUME NEW c \in Calls, NEW late \in BOOLEAN, Normalize(c, late) PROVE TypeOK'
  <2>1. call' \in [Calls -> CallRecord]
    <3>1. call[c] \in CallRecord
      BY DEF TypeOK
    <3>2. [call[c] EXCEPT !.pc = "store", !.final = TRUE] \in CallRecord
      BY <3>1 DEF CallRecord, Pcs
    <3>3. call' = [call EXCEPT ![c] = [call[c] EXCEPT !.pc = "store", !.final = TRUE]]
      BY <1>8 DEF Normalize, TypeOK
    <3>4. QED
      BY <3>2, <3>3 DEF TypeOK
  <2>2. QED
    BY <1>8, <2>1 DEF Normalize, TypeOK
<1>9. ASSUME NEW c \in Calls, Abandon(c) PROVE TypeOK'
  <2>1. call' \in [Calls -> CallRecord] /\ reply' \in [Calls -> Reply]
    BY <1>1, <1>2, <1>9 DEF Abandon, Pcs, Results
  <2>2. receipt' \in [Calls -> Receipt] /\ replays' \in [Keys -> Calls \cup {None}]
    BY <1>9 DEF Abandon, TypeOK, Receipt
  <2>3. QED
    BY <1>9, <2>1, <2>2 DEF Abandon, TypeOK
<1>10. ASSUME NEW c \in Calls, Finish(c) PROVE TypeOK'
  <2>1. call[c].stored \in BOOLEAN
    BY DEF TypeOK, CallRecord
  <2>2. call' \in [Calls -> CallRecord] /\ reply' \in [Calls -> Reply]
    BY <1>1, <1>2, <1>10, <2>1 DEF Finish, Pcs, Results
  <2>3. receipt' \in [Calls -> Receipt]
    BY <1>10 DEF Finish, TypeOK, Receipt
  <2>4. QED
    BY <1>10, <2>2, <2>3 DEF Finish, TypeOK
<1>11. ASSUME NEW c \in Calls, Replay(c) PROVE TypeOK'
  <2>1. call[c].on \in Calls /\ receipt[call[c].on].result \in Results
    BY <1>11 DEF Replay, At, WaitsOn, TypeOK, Receipt
  <2>2. call' \in [Calls -> CallRecord] /\ reply' \in [Calls -> Reply]
    BY <1>1, <1>2, <1>11, <2>1 DEF Replay, Pcs, Results
  <2>3. QED
    BY <1>11, <2>2 DEF Replay, TypeOK
<1>12. ASSUME NEW c \in Calls, Cancel(c) PROVE TypeOK'
  <2>1. call' \in [Calls -> CallRecord] /\ reply' \in [Calls -> Reply]
    BY <1>1, <1>2, <1>12 DEF Cancel, Pcs, Results
  <2>2. QED
    BY <1>12, <2>1 DEF Cancel, TypeOK
<1>13. ASSUME Restart PROVE TypeOK'
  <2> DEFINE table == [k \in Keys |-> IF Adopted(k) THEN file[k].of ELSE None]
             recs == [o \in Calls |->
                 IF \E k \in Keys : table[k] = o
                 THEN LET k == CHOOSE k \in Keys : table[k] = o IN
                      [complete |-> TRUE, checkpointed |-> FALSE, evicted |-> file[k].evicted,
                       done |-> TRUE, at |-> file[k].at, result |-> file[k].result]
                 ELSE NoReceipt]
  <2>1. table \in [Keys -> Calls \cup {None}]
    BY DEF TypeOK, Files, Persisted
  <2>2. ASSUME NEW k \in Keys
        PROVE  [complete |-> TRUE, checkpointed |-> FALSE, evicted |-> file[k].evicted,
                done |-> TRUE, at |-> file[k].at, result |-> file[k].result] \in Receipt
    <3>1. file[k] \in Persisted
      BY DEF TypeOK, Files
    <3>2. QED
      BY <3>1 DEF Persisted, Receipt
  <2>3. NoReceipt \in Receipt
    BY DEF NoReceipt, Receipt, Results
  <2>4. recs \in [Calls -> Receipt]
    BY <2>2, <2>3
  <2>5. /\ receipt' = CappedReceipts(table, recs) /\ replays' = CappedTable(table, recs)
        /\ dropped' = (dropped \ {table[k] : k \in Keys}) \cup {table[k] : k \in Excess(table, recs)}
    BY <1>13 DEF Restart
  <2> HIDE DEF recs, table
  <2>6. receipt' \in [Calls -> Receipt] /\ replays' \in [Keys -> Calls \cup {None}]
    BY <2>1, <2>4, <2>5, CapsType
  <2>7. ASSUME NEW c \in Calls PROVE [call[c] EXCEPT !.pc = "lost", !.snap = NoFile] \in CallRecord
    <3>1. call[c] \in CallRecord
      BY DEF TypeOK
    <3>2. QED
      BY <3>1, SnapshotType DEF CallRecord, Pcs
  <2>8. call' \in [Calls -> CallRecord]
    BY <1>13, <2>7 DEF Restart, TypeOK
  <2>9. restarts' \in 0..MaxRestarts /\ UNCHANGED <<file, reply, mutated, clock>>
    <3>1. MaxRestarts \in Nat /\ restarts \in 0..MaxRestarts
      BY DEF TypeOK
    <3>2. restarts < MaxRestarts /\ restarts' = restarts + 1 /\ UNCHANGED <<file, reply, mutated, clock>>
      BY <1>13 DEF Restart
    <3>3. QED
      BY <3>1, <3>2
  <2>10. dropped' \subseteq Calls
    BY <2>1, <2>4, <2>5, ExcessOfCalls DEF TypeOK
  <2>11. QED
    BY <2>6, <2>8, <2>9, <2>10 DEF TypeOK
<1>14. CASE UNCHANGED vars
  BY <1>14 DEF vars, TypeOK
<1>15. QED
  BY <1>3, <1>4, <1>5, <1>6, <1>7, <1>8, <1>9, <1>10, <1>11, <1>12, <1>13, <1>14 DEF Next, Step

(* A call starts to wait only on a receipt it found. *)
LEMMA WaitStep ==
  ASSUME TypeOK, WaitsOn, [Next]_vars
  PROVE  WaitsOn'
<1> USE DEF WaitsOn, TypeOK
<1>1. ASSUME NEW c \in Calls, Begin(c) PROVE WaitsOn'
  BY <1>1, CallsAssumption DEF Begin, CallRecord
<1>2. ASSUME NEW c \in Calls,
             \E pc \in Pcs \ {"wait"} : call' = [call EXCEPT ![c].pc = pc]
      PROVE  WaitsOn'
  BY <1>2 DEF CallRecord
<1>3. ASSUME NEW c \in Calls, Snap(c) PROVE WaitsOn'
  BY <1>3 DEF Snap, CallRecord
<1>4. ASSUME NEW c \in Calls, NEW wrote \in BOOLEAN, NEW ok \in BOOLEAN, Write(c, wrote, ok) PROVE WaitsOn'
  BY <1>4 DEF Write, CallRecord
<1>5. ASSUME NEW c \in Calls, NEW late \in BOOLEAN, Normalize(c, late) PROVE WaitsOn'
  BY <1>5 DEF Normalize, CallRecord
<1>6. ASSUME Restart PROVE WaitsOn'
  BY <1>6 DEF Restart, CallRecord
<1>7. CASE UNCHANGED vars
  BY <1>7 DEF vars
<1>8. QED
  BY <1>1, <1>2, <1>3, <1>4, <1>5, <1>6, <1>7
     DEF Next, Step, Mutate, Refuse, Store, Abandon, Finish, Replay, Cancel, Goto, Pcs

(* A step of c that only moves its call on, while c keeps running or ends, and touches
   neither the table nor the flags of its receipt. *)
Moves(c) ==
  /\ call[c].pc # "new" /\ call' \in [Calls -> CallRecord]
  /\ call'[c].pc # "new" /\ call'[c].key = call[c].key
  /\ \A d \in Calls \ {c} : call'[d] = call[d]
  /\ InFlight(c)' => InFlight(c)
  /\ replays' = replays
  /\ \A d \in Calls : receipt'[d].evicted = receipt[d].evicted
  /\ \A d \in Calls \ {c} : receipt'[d].done = receipt[d].done
  /\ InFlight(c)' => receipt'[c].done = receipt[c].done

(* Such a step keeps running calls with their keys. *)
LEMMA MovesOwned ==
  ASSUME TypeOK, Owned, NEW c \in Calls, Moves(c)
  PROVE  Owned'
<1> SUFFICES ASSUME NEW d \in Calls, InFlight(d)'
             PROVE  /\ replays'[call'[d].key] = d
                    /\ ~receipt'[d].done /\ ~receipt'[d].evicted
  BY DEF Owned
<1>1. CASE d = c
  BY <1>1 DEF Moves, Owned
<1>2. CASE d # c
  <2>1. InFlight(d) /\ call'[d] = call[d]
    BY <1>2 DEF Moves, InFlight
  <2>2. QED
    BY <1>2, <2>1 DEF Moves, Owned
<1>3. QED
  BY <1>1, <1>2

(* Such a step that writes only what a snapshot held mentions no new call. *)
LEMMA MovesUnbegun ==
  ASSUME TypeOK, Unbegun, NEW c \in Calls, Moves(c),
         \A k \in Keys : file'[k] = file[k] \/ file'[k].of = call[c].snap[k].of,
         \A k \in Keys : call'[c].snap[k].of \in {None, call[c].snap[k].of, replays[k]}
  PROVE  Unbegun'
<1> SUFFICES ASSUME NEW d \in Calls, call'[d].pc = "new"
             PROVE  /\ ~receipt'[d].done /\ ~receipt'[d].evicted
                    /\ \A k \in Keys : replays'[k] # d /\ file'[k].of # d
                    /\ \A e \in Calls, k \in Keys : call'[e].snap[k].of # d
  BY DEF Unbegun
<1>1. d # c /\ call'[d] = call[d] /\ call[d].pc = "new"
  BY DEF Moves
<1>2. ~receipt'[d].done /\ ~receipt'[d].evicted
  BY <1>1 DEF Moves, Unbegun
<1>3. ASSUME NEW k \in Keys PROVE replays'[k] # d /\ file'[k].of # d
  BY <1>1 DEF Moves, Unbegun
<1>4. ASSUME NEW e \in Calls, NEW k \in Keys PROVE call'[e].snap[k].of # d
  BY <1>1, CallsAssumption DEF Moves, Unbegun
<1>5. QED
  BY <1>2, <1>3, <1>4

(* Every step leaves the calls that run with their keys, and mentions no new call. *)
LEMMA OwnedStep ==
  ASSUME TypeOK, TypeOK', Owned, Unbegun, [Next]_vars
  PROVE  Owned' /\ Unbegun'
<1>0. NoFile \in Files /\ \A k \in Keys : NoFile[k].of = None
  BY SnapshotType DEF NoFile, NoRecord
<1>1. ASSUME NEW c \in Calls, Begin(c) PROVE Owned' /\ Unbegun'
  <2>1. call[c] \in CallRecord /\ call[c].pc = "new"
    BY <1>1 DEF TypeOK, Begin, At
  <2>2. CASE replays[call[c].key] # None
    <3>1. /\ call' = [call EXCEPT ![c].pc = "wait", ![c].on = replays[call[c].key]]
          /\ replays' = replays /\ receipt' = receipt /\ file' = file
      BY <1>1, <2>2 DEF Begin
    <3>2. Owned'
      BY <3>1 DEF Owned, InFlight, TypeOK, CallRecord
    <3>3. Unbegun'
      BY <3>1 DEF Unbegun, TypeOK, CallRecord
    <3>4. QED
      BY <3>2, <3>3
  <2>3. CASE replays[call[c].key] = None
    <3>1. /\ call' = [call EXCEPT ![c].pc = "execute", ![c].on = None]
          /\ replays' = [replays EXCEPT ![call[c].key] = c] /\ receipt' = receipt /\ file' = file
      BY <1>1, <2>3 DEF Begin
    <3>2. Owned'
      <4> SUFFICES ASSUME NEW d \in Calls, InFlight(d)'
                   PROVE  replays'[call'[d].key] = d /\ ~receipt'[d].done /\ ~receipt'[d].evicted
        BY DEF Owned
      <4>1. CASE d = c
        BY <2>1, <3>1, <4>1 DEF Unbegun, TypeOK, CallRecord
      <4>2. CASE d # c
        <5>1. InFlight(d) /\ call'[d] = call[d]
          BY <3>1, <4>2 DEF InFlight, TypeOK
        <5>2. call[d].key # call[c].key
          BY <2>3, <5>1, CallsAssumption DEF Owned
        <5>3. QED
          BY <3>1, <5>1, <5>2 DEF Owned, TypeOK, CallRecord
      <4>3. QED
        BY <4>1, <4>2
    <3>3. Unbegun'
      BY <2>1, <3>1 DEF Unbegun, TypeOK, CallRecord
    <3>4. QED
      BY <3>2, <3>3
  <2>4. QED
    BY <2>2, <2>3
<1>2. ASSUME NEW c \in Calls, Mutate(c) \/ Refuse(c) PROVE Owned' /\ Unbegun'
  <2>1. Moves(c) /\ file' = file /\ call'[c].snap = call[c].snap
    BY <1>2 DEF Mutate, Refuse, Goto, At, Moves, InFlight, TypeOK, CallRecord
  <2>2. QED
    BY <2>1, MovesOwned, MovesUnbegun
<1>3. ASSUME NEW c \in Calls, Store(c) PROVE Owned' /\ Unbegun'
  <2> DEFINE k == call[c].key
             recs == [receipt EXCEPT ![c].complete = TRUE, ![c].at = clock + 1,
                              ![c].result = IF call[c].final THEN "final" ELSE "checkpoint",
                              ![c].checkpointed = @ \/ ~call[c].final]
             table == [replays EXCEPT ![k] = c]
  <2>1. recs \in [Calls -> Receipt]
    <3>1. receipt[c] \in Receipt /\ clock + 1 \in Nat
      BY DEF TypeOK
    <3>2. call[c].final \in BOOLEAN /\ (receipt[c].checkpointed \/ ~call[c].final) \in BOOLEAN
      BY DEF TypeOK, CallRecord
    <3>3. QED
      BY <3>1, <3>2 DEF TypeOK, Receipt, Results
  <2>2. InFlight(c) /\ replays[k] = c /\ k \in Keys
    BY <1>3 DEF Store, At, InFlight, Owned, TypeOK, CallRecord
  <2>3. table = replays
    BY <2>2 DEF TypeOK
  <2>4. \A d \in Calls : recs[d].done = receipt[d].done /\ recs[d].evicted = receipt[d].evicted
    BY DEF TypeOK, Receipt
  <2>5. receipt' = CappedReceipts(table, recs) /\ replays' = CappedTable(table, recs) /\ file' = file
    BY <1>3 DEF Store
  <2>6. /\ call' = [call EXCEPT ![c].pc = "snap"] /\ call[c].pc = "store"
    BY <1>3 DEF Store, Goto, At
  <2> HIDE DEF recs, table, k
  <2>7. ASSUME NEW d \in Calls, InFlight(d)'
        PROVE  replays'[call'[d].key] = d /\ ~receipt'[d].done /\ ~receipt'[d].evicted
    <3>1. InFlight(d) /\ call'[d].key = call[d].key /\ call[d].key \in Keys
      BY <2>2, <2>6, <2>7 DEF InFlight, TypeOK, CallRecord
    <3>2. replays[call[d].key] = d /\ ~recs[d].done /\ ~recs[d].evicted
      BY <2>4, <3>1 DEF Owned
    <3>3. QED
      BY <2>1, <2>3, <2>5, <3>1, <3>2, CapsSpare DEF TypeOK
  <2>8. ASSUME NEW d \in Calls, call'[d].pc = "new"
        PROVE  /\ ~receipt'[d].done /\ ~receipt'[d].evicted
               /\ \A j \in Keys : replays'[j] # d /\ file'[j].of # d
               /\ \A e \in Calls, j \in Keys : call'[e].snap[j].of # d
    <3>1. call[d].pc = "new"
      BY <2>6, <2>8 DEF TypeOK, CallRecord
    <3>2. \A j \in Keys : table[j] # d
      BY <2>3, <3>1 DEF Unbegun
    <3>3. receipt'[d] = recs[d] /\ \A j \in Keys : replays'[j] \in {table[j], None}
      BY <2>1, <2>3, <2>5, <3>2, CapsOutside DEF TypeOK
    <3>4. \A e \in Calls : call'[e].snap = call[e].snap
      BY <2>6 DEF TypeOK, CallRecord
    <3>5. QED
      BY <2>4, <2>5, <3>1, <3>2, <3>3, <3>4, CallsAssumption DEF Unbegun
  <2>9. QED
    BY <2>7, <2>8 DEF Owned, Unbegun
<1>4. ASSUME NEW c \in Calls, Snap(c) PROVE Owned' /\ Unbegun'
  <2>1. Moves(c) /\ file' = file /\ call'[c].snap = Snapshot
    BY <1>4 DEF Snap, At, Moves, InFlight, TypeOK, CallRecord
  <2>2. \A k \in Keys : Snapshot[k].of \in {None, replays[k]}
    BY DEF Snapshot, NoRecord
  <2>3. QED
    BY <2>1, <2>2, MovesOwned, MovesUnbegun
<1>5. ASSUME NEW c \in Calls, NEW wrote \in BOOLEAN, NEW ok \in BOOLEAN, Write(c, wrote, ok)
      PROVE  Owned' /\ Unbegun'
  <2>1. Moves(c) /\ call'[c].snap = NoFile /\ (file' = file \/ file' = call[c].snap)
    <3>1. /\ \A d \in Calls : receipt'[d].evicted = receipt[d].evicted /\ receipt'[d].done = receipt[d].done
      BY <1>5 DEF Write, TypeOK, Receipt
    <3>2. /\ call[c].pc = "write" /\ call'[c].pc \in {"finish", "normalize"} /\ call'[c].key = call[c].key
          /\ call'[c].snap = NoFile /\ \A d \in Calls \ {c} : call'[d] = call[d]
      BY <1>5 DEF Write, At, TypeOK, CallRecord
    <3>3. replays' = replays /\ (file' = file \/ file' = call[c].snap)
      BY <1>5 DEF Write
    <3>4. QED
      BY <3>1, <3>2, <3>3 DEF Moves, InFlight, TypeOK
  <2>2. QED
    BY <1>0, <2>1, MovesOwned, MovesUnbegun
<1>6. ASSUME NEW c \in Calls, NEW late \in BOOLEAN, Normalize(c, late) PROVE Owned' /\ Unbegun'
  <2>1. Moves(c) /\ file' = file /\ call'[c].snap = call[c].snap
    BY <1>6 DEF Normalize, At, Moves, InFlight, TypeOK, CallRecord
  <2>2. QED
    BY <2>1, MovesOwned, MovesUnbegun
<1>7. ASSUME NEW c \in Calls, Abandon(c) PROVE Owned' /\ Unbegun'
  <2>1. /\ call[c].pc = "normalize" /\ call' = [call EXCEPT ![c].pc = "done"]
        /\ replays' = [replays EXCEPT ![call[c].key] = None]
        /\ receipt' = [receipt EXCEPT ![c].done = TRUE] /\ file' = file
    BY <1>7 DEF Abandon, At, Goto
  <2>2. replays[call[c].key] = c
    BY <2>1 DEF Owned, InFlight
  <2>3. ASSUME NEW d \in Calls, InFlight(d)'
        PROVE  replays'[call'[d].key] = d /\ ~receipt'[d].done /\ ~receipt'[d].evicted
    <3>1. d # c /\ InFlight(d) /\ call'[d] = call[d]
      BY <2>1, <2>3 DEF InFlight, TypeOK, CallRecord
    <3>2. call[d].key # call[c].key /\ call[d].key \in Keys
      BY <2>2, <3>1 DEF Owned, TypeOK, CallRecord
    <3>3. QED
      BY <2>1, <3>1, <3>2 DEF Owned, TypeOK
  <2>4. Unbegun'
    BY <2>1, CallsAssumption DEF Unbegun, TypeOK, CallRecord, Receipt
  <2>5. QED
    BY <2>3, <2>4 DEF Owned
<1>8. ASSUME NEW c \in Calls, Finish(c) PROVE Owned' /\ Unbegun'
  <2>1. Moves(c) /\ file' = file /\ call'[c].snap = call[c].snap
    BY <1>8 DEF Finish, Goto, At, Moves, InFlight, TypeOK, CallRecord, Receipt
  <2>2. QED
    BY <2>1, MovesOwned, MovesUnbegun
<1>9. ASSUME NEW c \in Calls, Replay(c) \/ Cancel(c) PROVE Owned' /\ Unbegun'
  <2>1. Moves(c) /\ file' = file /\ call'[c].snap = call[c].snap
    <3>1. /\ call[c].pc = "wait" /\ call' = [call EXCEPT ![c].pc = "done"]
          /\ UNCHANGED <<receipt, replays, file>>
      BY <1>9 DEF Replay, Cancel, Goto, At
    <3>2. call[c] \in CallRecord /\ call'[c] = [call[c] EXCEPT !.pc = "done"]
      BY <3>1 DEF TypeOK
    <3>3. call'[c].pc = "done" /\ call'[c].key = call[c].key /\ call'[c].snap = call[c].snap
      BY <3>2 DEF CallRecord
    <3>4. \A d \in Calls \ {c} : call'[d] = call[d]
      BY <3>1 DEF TypeOK
    <3>5. QED
      BY <3>1, <3>3, <3>4 DEF Moves, InFlight, TypeOK
  <2>2. QED
    BY <2>1, MovesOwned, MovesUnbegun
<1>10. ASSUME Restart PROVE Owned' /\ Unbegun'
  <2> DEFINE table == [k \in Keys |-> IF Adopted(k) THEN file[k].of ELSE None]
             recs == [o \in Calls |->
                 IF \E k \in Keys : table[k] = o
                 THEN LET k == CHOOSE k \in Keys : table[k] = o IN
                      [complete |-> TRUE, checkpointed |-> FALSE, evicted |-> file[k].evicted,
                       done |-> TRUE, at |-> file[k].at, result |-> file[k].result]
                 ELSE NoReceipt]
  <2>1. table \in [Keys -> Calls \cup {None}]
    BY DEF TypeOK, Files, Persisted
  <2>2. ASSUME NEW k \in Keys
        PROVE  [complete |-> TRUE, checkpointed |-> FALSE, evicted |-> file[k].evicted,
                done |-> TRUE, at |-> file[k].at, result |-> file[k].result] \in Receipt
    <3>1. file[k] \in Persisted
      BY DEF TypeOK, Files
    <3>2. QED
      BY <3>1 DEF Persisted, Receipt
  <2>3. NoReceipt \in Receipt /\ ~NoReceipt.done /\ ~NoReceipt.evicted
    BY DEF NoReceipt, Receipt, Results
  <2>4. recs \in [Calls -> Receipt]
    BY <2>2, <2>3
  <2>5. receipt' = CappedReceipts(table, recs) /\ replays' = CappedTable(table, recs) /\ file' = file
    BY <1>10 DEF Restart
  <2> HIDE DEF table, recs
  <2>6. ASSUME NEW c \in Calls
        PROVE  /\ call'[c].pc \in {"new", "done", "lost"}
               /\ call'[c].pc = "new" => call[c].pc = "new"
               /\ call'[c].snap = call[c].snap \/ call'[c].snap = NoFile
    <3>1. call[c] \in CallRecord
      BY DEF TypeOK
    <3>2. call'[c] = IF call[c].pc \in {"new", "done"} THEN call[c]
                     ELSE [call[c] EXCEPT !.pc = "lost", !.snap = NoFile]
      BY <1>10 DEF Restart
    <3>3. CASE call[c].pc \in {"new", "done"}
      BY <3>2, <3>3
    <3>4. CASE call[c].pc \notin {"new", "done"}
      <4>1. call'[c] = [call[c] EXCEPT !.pc = "lost", !.snap = NoFile]
        BY <3>2, <3>4
      <4>2. QED
        BY <3>1, <4>1 DEF CallRecord
    <3>5. QED
      BY <3>3, <3>4
  <2>7. Owned'
    BY <2>6 DEF Owned, InFlight
  <2>8. ASSUME NEW d \in Calls, call'[d].pc = "new"
        PROVE  /\ ~receipt'[d].done /\ ~receipt'[d].evicted
               /\ \A j \in Keys : replays'[j] # d /\ file'[j].of # d
               /\ \A e \in Calls, j \in Keys : call'[e].snap[j].of # d
    <3>1. call[d].pc = "new"
      BY <2>6, <2>8
    <3>2. \A j \in Keys : table[j] # d
      BY <3>1, CallsAssumption DEF Unbegun, table
    <3>3. recs[d] = NoReceipt
      BY <3>2 DEF recs
    <3>4. receipt'[d] = recs[d] /\ \A j \in Keys : replays'[j] \in {table[j], None}
      BY <2>1, <2>4, <2>5, <3>2, CapsOutside
    <3>5. \A e \in Calls : call'[e].snap = call[e].snap \/ call'[e].snap = NoFile
      BY <2>6
    <3>6. QED
      BY <1>0, <2>3, <2>5, <3>1, <3>2, <3>3, <3>4, <3>5, CallsAssumption DEF Unbegun
  <2>9. QED
    BY <2>7, <2>8 DEF Unbegun
<1>11. CASE UNCHANGED vars
  BY <1>11 DEF vars, Owned, InFlight, Unbegun
<1>12. QED
  BY <1>1, <1>2, <1>3, <1>4, <1>5, <1>6, <1>7, <1>8, <1>9, <1>10, <1>11 DEF Next, Step

(* While the service runs, a receipt that is released or will be stays so. *)
LEMMA RunsStep ==
  ASSUME TypeOK, NEW c \in Calls, Step(c) \/ Cancel(c), NEW o \in Calls, Runs(o)
  PROVE  Runs(o)'
<1>0. call[c] \in CallRecord /\ receipt[c] \in Receipt
  BY DEF TypeOK
<1>1. ASSUME \A d \in Calls : receipt[d].done => receipt'[d].done,
             \A d \in Calls \ {c} : call'[d] = call[d],
             InFlight(c) => InFlight(c)' \/ receipt'[c].done
      PROVE  Runs(o)'
  BY <1>1 DEF Runs, InFlight
<1>2. ASSUME NEW pc \in Pcs, call' = [call EXCEPT ![c].pc = pc]
      PROVE  (\A d \in Calls \ {c} : call'[d] = call[d]) /\ call'[c].pc = pc
  BY <1>0, <1>2 DEF TypeOK, CallRecord
<1>3. CASE Begin(c)
  <2>1. receipt' = receipt /\ ~InFlight(c) /\ \A d \in Calls \ {c} : call'[d] = call[d]
    BY <1>3 DEF Begin, At, InFlight, TypeOK
  <2>2. QED
    BY <1>1, <2>1
<1>4. CASE Mutate(c) \/ Refuse(c)
  <2>1. receipt' = receipt /\ \E pc \in {"store", "normalize"} : call' = [call EXCEPT ![c].pc = pc]
    BY <1>4 DEF Mutate, Refuse, Goto
  <2>2. QED
    BY <1>1, <1>2, <2>1 DEF InFlight, Pcs
<1>5. CASE Store(c)
  <2> DEFINE recs == [receipt EXCEPT ![c].complete = TRUE, ![c].at = clock + 1,
                              ![c].result = IF call[c].final THEN "final" ELSE "checkpoint",
                              ![c].checkpointed = @ \/ ~call[c].final]
             table == [replays EXCEPT ![call[c].key] = c]
  <2>1. recs \in [Calls -> Receipt]
    <3>1. clock + 1 \in Nat
      BY DEF TypeOK
    <3>2. call[c].final \in BOOLEAN /\ (receipt[c].checkpointed \/ ~call[c].final) \in BOOLEAN
      BY <1>0 DEF CallRecord
    <3>3. QED
      BY <1>0, <3>1, <3>2 DEF TypeOK, Receipt, Results
  <2>2. table \in [Keys -> Calls \cup {None}]
    BY DEF TypeOK
  <2>3. \A d \in Calls : recs[d].done = receipt[d].done
    BY DEF TypeOK, Receipt
  <2>4. receipt' = CappedReceipts(table, recs) /\ call' = [call EXCEPT ![c].pc = "snap"]
    BY <1>5 DEF Store, Goto
  <2> HIDE DEF recs, table
  <2>5. \A d \in Calls : receipt'[d].done = receipt[d].done
    BY <2>1, <2>2, <2>3, <2>4, CapsDone
  <2>6. QED
    BY <1>1, <1>2, <2>4, <2>5 DEF InFlight, Pcs
<1>6. CASE Snap(c)
  <2>1. receipt' = receipt /\ call'[c].pc = "write" /\ \A d \in Calls \ {c} : call'[d] = call[d]
    BY <1>0, <1>6 DEF Snap, TypeOK, CallRecord
  <2>2. QED
    BY <1>1, <2>1 DEF InFlight
<1>7. CASE \E wrote, ok \in BOOLEAN : Write(c, wrote, ok)
  <2>1. \A d \in Calls : receipt'[d].done = receipt[d].done
    BY <1>7 DEF Write, TypeOK, Receipt
  <2>2. call'[c].pc \in {"finish", "normalize"} /\ \A d \in Calls \ {c} : call'[d] = call[d]
    BY <1>0, <1>7 DEF Write, TypeOK, CallRecord
  <2>3. QED
    BY <1>1, <2>1, <2>2 DEF InFlight
<1>8. CASE \E late \in BOOLEAN : Normalize(c, late)
  <2>1. receipt' = receipt /\ call'[c].pc = "store" /\ \A d \in Calls \ {c} : call'[d] = call[d]
    BY <1>0, <1>8 DEF Normalize, TypeOK, CallRecord
  <2>2. QED
    BY <1>1, <2>1 DEF InFlight
<1>9. CASE Abandon(c) \/ Finish(c)
  <2>1. receipt' = [receipt EXCEPT ![c].done = TRUE] /\ call' = [call EXCEPT ![c].pc = "done"]
    BY <1>9 DEF Abandon, Finish, Goto
  <2>2. receipt'[c].done /\ \A d \in Calls : receipt[d].done => receipt'[d].done
    BY <1>0, <2>1 DEF TypeOK, Receipt
  <2>3. QED
    BY <1>1, <1>2, <2>1, <2>2 DEF Pcs
<1>10. CASE Replay(c) \/ Cancel(c)
  <2>1. receipt' = receipt /\ call[c].pc = "wait" /\ call' = [call EXCEPT ![c].pc = "done"]
    BY <1>10 DEF Replay, Cancel, Goto, At
  <2>2. QED
    BY <1>1, <1>2, <2>1 DEF InFlight, Pcs
<1>11. QED
  BY <1>3, <1>4, <1>5, <1>6, <1>7, <1>8, <1>9, <1>10 DEF Step

(* A step of a call adds to the table only the call itself, which then runs, and makes
   a call wait only on what the table holds. *)
LEMMA TableStep ==
  ASSUME TypeOK, NEW c \in Calls, Step(c) \/ Cancel(c)
  PROVE  /\ \A k \in Keys : replays'[k] \in {replays[k], None} \/ (replays'[k] = c /\ InFlight(c)')
         /\ \A d \in Calls : call'[d].pc = "wait" =>
              \/ call[d].pc = "wait" /\ call'[d].on = call[d].on
              \/ \E k \in Keys : call'[d].on = replays[k]
<1>0. call[c] \in CallRecord
  BY DEF TypeOK
<1>1. CASE Begin(c)
  <2>1. \A d \in Calls \ {c} : call'[d] = call[d]
    BY <1>1 DEF Begin, TypeOK
  <2>2. call[c].key \in Keys /\ call'[c].on = replays[call[c].key]
    BY <1>0, <1>1 DEF Begin, TypeOK, CallRecord
  <2>3. replays[call[c].key] = None => call'[c].pc = "execute"
    BY <1>0, <1>1 DEF Begin, TypeOK, CallRecord
  <2>4. replays' = IF replays[call[c].key] # None THEN replays ELSE [replays EXCEPT ![call[c].key] = c]
    BY <1>1 DEF Begin
  <2>5. \A k \in Keys : replays'[k] = replays[k] \/ (replays'[k] = c /\ InFlight(c)')
    BY <2>2, <2>3, <2>4 DEF TypeOK, InFlight
  <2>6. QED
    BY <2>1, <2>2, <2>5
<1>2. ASSUME NEW pc \in Pcs \ {"wait"}, call' = [call EXCEPT ![c].pc = pc]
      PROVE  \A d \in Calls : call'[d].pc = "wait" => call[d].pc = "wait" /\ call'[d].on = call[d].on
  <2>1. call'[c].pc = pc /\ \A d \in Calls \ {c} : call'[d] = call[d]
    BY <1>0, <1>2 DEF TypeOK, CallRecord
  <2>2. QED
    BY <2>1
<1>3. CASE Mutate(c) \/ Refuse(c) \/ Finish(c) \/ Replay(c) \/ Cancel(c)
  <2>1. replays' = replays /\ \E pc \in Pcs \ {"wait"} : call' = [call EXCEPT ![c].pc = pc]
    BY <1>3 DEF Mutate, Refuse, Finish, Replay, Cancel, Goto, Pcs
  <2>2. QED
    BY <1>2, <2>1
<1>4. CASE Abandon(c)
  <2>1. replays' = [replays EXCEPT ![call[c].key] = None] /\ call' = [call EXCEPT ![c].pc = "done"]
    BY <1>4 DEF Abandon, Goto
  <2>2. \A k \in Keys : replays'[k] \in {replays[k], None}
    BY <2>1 DEF TypeOK
  <2>3. QED
    BY <1>2, <2>1, <2>2 DEF Pcs
<1>5. CASE Store(c)
  <2> DEFINE recs == [receipt EXCEPT ![c].complete = TRUE, ![c].at = clock + 1,
                              ![c].result = IF call[c].final THEN "final" ELSE "checkpoint",
                              ![c].checkpointed = @ \/ ~call[c].final]
             table == [replays EXCEPT ![call[c].key] = c]
  <2>1. replays' = CappedTable(table, recs) /\ call' = [call EXCEPT ![c].pc = "snap"]
    BY <1>5 DEF Store, Goto
  <2>2. \A k \in Keys : table[k] \in {replays[k], c}
    BY DEF TypeOK
  <2> HIDE DEF recs, table
  <2>3. \A k \in Keys : CappedTable(table, recs)[k] \in {table[k], None}
    BY DEF CappedTable
  <2>4. call'[c].pc = "snap"
    BY <1>0, <2>1 DEF TypeOK, CallRecord
  <2>5. \A k \in Keys : replays'[k] \in {replays[k], None} \/ (replays'[k] = c /\ InFlight(c)')
    BY <2>1, <2>2, <2>3, <2>4 DEF InFlight
  <2>6. QED
    BY <1>2, <2>1, <2>5 DEF Pcs
<1>6. CASE Snap(c) \/ (\E wrote, ok \in BOOLEAN : Write(c, wrote, ok))
           \/ (\E late \in BOOLEAN : Normalize(c, late))
  <2>1. replays' = replays /\ \A d \in Calls \ {c} : call'[d] = call[d]
    BY <1>6 DEF Snap, Write, Normalize, TypeOK
  <2>2. call'[c].pc # "wait"
    <3>1. CASE Snap(c)
      BY <1>0, <3>1 DEF Snap, TypeOK, CallRecord
    <3>2. CASE \E wrote, ok \in BOOLEAN : Write(c, wrote, ok)
      BY <1>0, <3>2 DEF Write, TypeOK, CallRecord
    <3>3. CASE \E late \in BOOLEAN : Normalize(c, late)
      BY <1>0, <3>3 DEF Normalize, TypeOK, CallRecord
    <3>4. QED
      BY <1>6, <3>1, <3>2, <3>3
  <2>3. QED
    BY <2>1, <2>2
<1>7. QED
  BY <1>1, <1>3, <1>4, <1>5, <1>6 DEF Step

(* Every step keeps the receipts of the table, and those waited on, released or running. *)
LEMMA ReleaseStep ==
  ASSUME TypeOK, TypeOK', WaitsOn, WaitsOn', TableRuns, WaitRuns, [Next]_vars
  PROVE  TableRuns' /\ WaitRuns'
<1>1. ASSUME NEW c \in Calls, Step(c) \/ Cancel(c) PROVE TableRuns' /\ WaitRuns'
  <2>1. \A o \in Calls : Runs(o) => Runs(o)'
    BY <1>1, RunsStep
  <2>2. ASSUME NEW k \in Keys, replays'[k] \in Calls PROVE Runs(replays[k])'
    <3>1. replays'[k] = replays[k] \/ (replays'[k] = c /\ InFlight(c)')
      BY <1>1, <2>2, TableStep, CallsAssumption
    <3>2. QED
      BY <2>1, <2>2, <3>1 DEF TableRuns, Runs, InFlight
  <2>3. ASSUME NEW d \in Calls, call'[d].pc = "wait" PROVE Runs(call[d].on)'
    <3>1. call'[d].on \in Calls
      BY <2>3 DEF WaitsOn
    <3>2. \E o \in Calls : o = call'[d].on /\ Runs(o)
      BY <1>1, <2>3, <3>1, TableStep DEF TableRuns, WaitRuns
    <3>3. QED
      BY <2>1, <3>2 DEF Runs, InFlight
  <2>4. QED
    BY <2>2, <2>3 DEF TableRuns, WaitRuns
<1>2. ASSUME Restart PROVE TableRuns' /\ WaitRuns'
  <2> DEFINE table == [k \in Keys |-> IF Adopted(k) THEN file[k].of ELSE None]
             recs == [o \in Calls |->
                 IF \E k \in Keys : table[k] = o
                 THEN LET k == CHOOSE k \in Keys : table[k] = o IN
                      [complete |-> TRUE, checkpointed |-> FALSE, evicted |-> file[k].evicted,
                       done |-> TRUE, at |-> file[k].at, result |-> file[k].result]
                 ELSE NoReceipt]
  <2>1. table \in [Keys -> Calls \cup {None}]
    BY DEF TypeOK, Files, Persisted
  <2>2. ASSUME NEW k \in Keys
        PROVE  [complete |-> TRUE, checkpointed |-> FALSE, evicted |-> file[k].evicted,
                done |-> TRUE, at |-> file[k].at, result |-> file[k].result] \in Receipt
    <3>1. file[k] \in Persisted
      BY DEF TypeOK, Files
    <3>2. QED
      BY <3>1 DEF Persisted, Receipt
  <2>3. NoReceipt \in Receipt
    BY DEF NoReceipt, Receipt, Results
  <2>4. recs \in [Calls -> Receipt]
    BY <2>2, <2>3
  <2>5. \A k \in Keys : table[k] \in Calls => recs[table[k]].done
    OBVIOUS
  <2>6. receipt' = CappedReceipts(table, recs) /\ replays' = CappedTable(table, recs)
    BY <1>2 DEF Restart
  <2> HIDE DEF table, recs
  <2>7. TableRuns'
    BY <2>1, <2>4, <2>5, <2>6, CapsDone, CallsAssumption DEF TableRuns, Runs
  <2>8. ASSUME NEW d \in Calls PROVE call'[d].pc # "wait"
    <3>1. call[d] \in CallRecord
      BY DEF TypeOK
    <3>2. call'[d] = IF call[d].pc \in {"new", "done"} THEN call[d]
                     ELSE [call[d] EXCEPT !.pc = "lost", !.snap = NoFile]
      BY <1>2 DEF Restart
    <3>3. CASE call[d].pc \in {"new", "done"}
      BY <3>2, <3>3
    <3>4. CASE call[d].pc \notin {"new", "done"}
      <4>1. call'[d] = [call[d] EXCEPT !.pc = "lost", !.snap = NoFile]
        BY <3>2, <3>4
      <4>2. QED
        BY <3>1, <4>1 DEF CallRecord
    <3>5. QED
      BY <3>3, <3>4
  <2>9. QED
    BY <2>7, <2>8 DEF WaitRuns
<1>3. CASE UNCHANGED vars
  BY <1>3 DEF vars, TableRuns, WaitRuns, Runs, InFlight
<1>4. QED
  BY <1>1, <1>2, <1>3 DEF Next

(* A step of c, as the receipts of answered calls see it: what leaves the table is removed
   by the caps or was never promised, what enters the file or a copy comes from a copy or
   the table, and a promise is made only for a receipt in the table. *)
Keeps(c) ==
  /\ restarts' = restarts /\ dropped \subseteq dropped'
  /\ \A d \in Calls : call'[d].key = call[d].key
  /\ \A d \in Calls \ {c} : call'[d].snap = call[d].snap
  /\ \A k \in Keys : call'[c].snap[k].of \in {None, call[c].snap[k].of, replays[k]}
  /\ \A k \in Keys : file'[k].of \in {file[k].of, call[c].snap[k].of}
  /\ \A d \in Calls : reply'[d].kind = "created" =>
       reply[d].kind = "created" \/ replays'[call[d].key] = d
  /\ \A k \in Keys : replays[k] \in Calls =>
       \/ replays'[k] = replays[k]
       \/ replays[k] \in dropped'
       \/ reply'[replays[k]].kind # "created"

(* Such a step keeps the receipts that were promised. *)
LEMMA KeepsKept ==
  ASSUME TypeOK, Kept, NEW c \in Calls, Keeps(c)
  PROVE  Kept'
<1> SUFFICES ASSUME NEW d \in Calls, reply'[d].kind = "created", d \notin dropped',
                    Kind[call'[d].key] # "prepare", Durable(d)'
             PROVE  replays'[call'[d].key] = d
  BY DEF Kept
<1> DEFINE k == call[d].key
<1>1. k \in Keys /\ call'[d].key = k
  BY DEF TypeOK, CallRecord, Keeps
<1>2. CASE reply[d].kind # "created"
  BY <1>1, <1>2 DEF Keeps
<1>3. CASE reply[d].kind = "created"
  <2>1. Durable(d) \/ replays[k] = d
    <3>1. restarts' = 0 \/ file'[k].of = d \/ \E e \in Calls : call'[e].snap[k].of = d
      BY <1>1 DEF Durable
    <3>2. CASE restarts' = 0 \/ file'[k].of = d
      BY <1>1, <3>2 DEF Keeps, Durable
    <3>3. CASE \E e \in Calls : call'[e].snap[k].of = d
      <4>1. PICK e \in Calls : call'[e].snap[k].of = d
        BY <3>3
      <4>2. call[e].snap[k].of = d \/ replays[k] = d
        BY <1>1, <4>1, CallsAssumption DEF Keeps
      <4>3. QED
        BY <4>2 DEF Durable
    <3>4. QED
      BY <3>1, <3>2, <3>3
  <2>2. replays[k] = d
    BY <1>1, <1>3, <2>1 DEF Kept, Keeps
  <2>3. QED
    BY <1>1, <2>2 DEF Keeps
<1>4. QED
  BY <1>2, <1>3

(* A step of c answers only c, as it ends, and leaves no copy of the table behind. *)
Ends(c) ==
  /\ call[c].pc # "done"
  /\ \A d \in Calls \ {c} : call'[d] = call[d] /\ reply'[d] = reply[d]
  /\ reply'[c] = reply[c] \/ call'[c].pc = "done"
  /\ \/ call'[c].pc = "write"
     \/ \A k \in Keys : call'[c].snap[k].of = None

(* Such a step keeps the answers to calls that ended and the copies to writers. *)
LEMMA EndsAnswered ==
  ASSUME Answered, Copied, NEW c \in Calls, Ends(c)
  PROVE  Answered' /\ Copied'
<1>1. ASSUME NEW d \in Calls, reply'[d].kind # "none" PROVE call'[d].pc = "done"
  <2>1. CASE d = c
    BY <1>1, <2>1 DEF Ends, Answered
  <2>2. CASE d # c
    BY <1>1, <2>2 DEF Ends, Answered
  <2>3. QED
    BY <2>1, <2>2
<1>2. ASSUME NEW d \in Calls, NEW k \in Keys, call'[d].pc # "write" PROVE call'[d].snap[k].of = None
  BY <1>2 DEF Ends, Copied
<1>3. QED
  BY <1>1, <1>2 DEF Answered, Copied

(* A step that gives only c a new program counter, and touches neither the file nor what
   was dropped. *)
LEMMA GotoKeeps ==
  ASSUME TypeOK, Copied, NEW c \in Calls, NEW pc \in Pcs \ {"write"},
         call' = [call EXCEPT ![c].pc = pc], call[c].pc \notin {"write", "done"},
         UNCHANGED <<file, restarts>>
  PROVE  /\ call'[c].pc = pc /\ \A d \in Calls \ {c} : call'[d] = call[d]
         /\ \A d \in Calls : call'[d].key = call[d].key /\ call'[d].snap = call[d].snap
         /\ \A k \in Keys : file'[k].of = file[k].of /\ call'[c].snap[k].of = None
<1>1. call[c] \in CallRecord /\ call'[c] = [call[c] EXCEPT !.pc = pc]
  BY DEF TypeOK
<1>2. call'[c].pc = pc /\ call'[c].key = call[c].key /\ call'[c].snap = call[c].snap
  BY <1>1 DEF CallRecord
<1>3. \A d \in Calls \ {c} : call'[d] = call[d]
  BY DEF TypeOK
<1>4. QED
  BY <1>2, <1>3 DEF Copied

(* The steps of a call are such steps. *)
LEMMA StepKeeps ==
  ASSUME TypeOK, Owned, Copied, NEW c \in Calls, Step(c) \/ Cancel(c)
  PROVE  Keeps(c) /\ Ends(c)
<1>0. call[c] \in CallRecord /\ call[c].key \in Keys
  BY DEF TypeOK, CallRecord
<1>1. CASE Begin(c)
  <2>1. /\ call[c].pc = "new" /\ UNCHANGED <<file, reply, restarts, dropped>>
        /\ \A d \in Calls \ {c} : call'[d] = call[d]
    BY <1>1 DEF Begin, At, TypeOK
  <2>2. call'[c].pc \in {"wait", "execute"} /\ call'[c].key = call[c].key /\ call'[c].snap = call[c].snap
    BY <1>0, <1>1 DEF Begin, TypeOK, CallRecord
  <2>3. \A k \in Keys : replays[k] \in Calls => replays'[k] = replays[k]
    BY <1>0, <1>1, CallsAssumption DEF Begin, TypeOK
  <2>4. Keeps(c)
    BY <2>1, <2>2, <2>3 DEF Keeps
  <2>5. Ends(c)
    BY <2>1, <2>2 DEF Ends, Copied
  <2>6. QED
    BY <2>4, <2>5
<1>2. CASE Mutate(c) \/ Refuse(c)
  <2>1. /\ call[c].pc = "execute" /\ UNCHANGED <<file, reply, restarts, dropped, replays>>
        /\ \E pc \in {"store", "normalize"} : call' = [call EXCEPT ![c].pc = pc]
    BY <1>2 DEF Mutate, Refuse, At, Goto
  <2>2. PICK pc \in {"store", "normalize"} : call' = [call EXCEPT ![c].pc = pc]
    BY <2>1
  <2>3. pc \in Pcs \ {"write"}
    BY DEF Pcs
  <2>4. QED
    BY <2>1, <2>2, <2>3, GotoKeeps DEF Keeps, Ends
<1>3. CASE Store(c)
  <2> DEFINE recs == [receipt EXCEPT ![c].complete = TRUE, ![c].at = clock + 1,
                              ![c].result = IF call[c].final THEN "final" ELSE "checkpoint",
                              ![c].checkpointed = @ \/ ~call[c].final]
             table == [replays EXCEPT ![call[c].key] = c]
  <2>1. recs \in [Calls -> Receipt]
    <3>1. receipt[c] \in Receipt /\ clock + 1 \in Nat
      BY DEF TypeOK
    <3>2. call[c].final \in BOOLEAN /\ (receipt[c].checkpointed \/ ~call[c].final) \in BOOLEAN
      BY DEF TypeOK, CallRecord
    <3>3. QED
      BY <3>1, <3>2 DEF TypeOK, Receipt, Results
  <2>2. /\ call[c].pc = "store" /\ call' = [call EXCEPT ![c].pc = "snap"]
        /\ UNCHANGED <<file, reply, restarts>>
    BY <1>3 DEF Store, At, Goto
  <2>3. /\ replays' = CappedTable(table, recs)
        /\ dropped' = dropped \cup {table[j] : j \in Excess(table, recs)}
    BY <1>3 DEF Store
  <2>4. table = replays
    BY <2>2 DEF Owned, InFlight, TypeOK
  <2> HIDE DEF recs, table
  <2>5. \A k \in Keys : replays'[k] = replays[k] \/ replays[k] \in dropped'
    BY <2>1, <2>3, <2>4, ExcessOfCalls DEF TypeOK
  <2>6. dropped \subseteq dropped'
    BY <2>3
  <2>7. QED
    BY <2>2, <2>5, <2>6, GotoKeeps DEF Keeps, Ends, Pcs
<1>4. CASE Snap(c)
  <2>1. /\ call[c].pc = "snap" /\ UNCHANGED <<file, reply, restarts, dropped, replays>>
        /\ \A d \in Calls \ {c} : call'[d] = call[d]
    BY <1>4 DEF Snap, At, TypeOK
  <2>2. call'[c].pc = "write" /\ call'[c].key = call[c].key /\ call'[c].snap = Snapshot
    BY <1>0, <1>4 DEF Snap, TypeOK, CallRecord
  <2>3. \A k \in Keys : Snapshot[k].of \in {None, replays[k]}
    BY DEF Snapshot, NoRecord
  <2>4. Keeps(c)
    BY <2>1, <2>2, <2>3 DEF Keeps
  <2>5. Ends(c)
    BY <2>1, <2>2 DEF Ends
  <2>6. QED
    BY <2>4, <2>5
<1>5. CASE \E wrote, ok \in BOOLEAN : Write(c, wrote, ok)
  <2>1. /\ call[c].pc = "write" /\ UNCHANGED <<reply, restarts, dropped, replays>>
        /\ \A d \in Calls \ {c} : call'[d] = call[d]
        /\ file' = file \/ file' = call[c].snap
    BY <1>5 DEF Write, At, TypeOK
  <2>2. call'[c].pc \in {"finish", "normalize"} /\ call'[c].key = call[c].key /\ call'[c].snap = NoFile
    BY <1>0, <1>5 DEF Write, TypeOK, CallRecord
  <2>3. \A k \in Keys : NoFile[k].of = None
    BY DEF NoFile, NoRecord
  <2>4. Keeps(c)
    BY <2>1, <2>2, <2>3 DEF Keeps
  <2>5. Ends(c)
    BY <2>1, <2>2, <2>3 DEF Ends
  <2>6. QED
    BY <2>4, <2>5
<1>6. CASE \E late \in BOOLEAN : Normalize(c, late)
  <2>1. /\ call[c].pc = "normalize" /\ UNCHANGED <<file, reply, restarts, dropped, replays>>
        /\ \A d \in Calls \ {c} : call'[d] = call[d]
    BY <1>6 DEF Normalize, At, TypeOK
  <2>2. call'[c].pc = "store" /\ call'[c].key = call[c].key /\ call'[c].snap = call[c].snap
    BY <1>0, <1>6 DEF Normalize, TypeOK, CallRecord
  <2>3. Keeps(c)
    BY <2>1, <2>2 DEF Keeps
  <2>4. Ends(c)
    BY <2>1, <2>2 DEF Ends, Copied
  <2>5. QED
    BY <2>3, <2>4
<1>7. CASE Abandon(c)
  <2>1. /\ call[c].pc = "normalize" /\ call' = [call EXCEPT ![c].pc = "done"]
        /\ UNCHANGED <<file, restarts, dropped>>
        /\ replays' = [replays EXCEPT ![call[c].key] = None]
    BY <1>7 DEF Abandon, At, Goto
  <2>2. reply'[c].kind = "timeout" /\ \A d \in Calls \ {c} : reply'[d] = reply[d]
    BY <1>7 DEF Abandon, Answer, TypeOK
  <2>3. replays[call[c].key] = c
    BY <2>1 DEF Owned, InFlight
  <2>4. \A k \in Keys : replays'[k] = replays[k] \/ replays[k] = c
    BY <2>1, <2>3 DEF TypeOK
  <2>5. QED
    BY <2>1, <2>2, <2>4, GotoKeeps DEF Keeps, Ends, Pcs
<1>8. CASE Finish(c)
  <2>1. /\ call[c].pc = "finish" /\ call' = [call EXCEPT ![c].pc = "done"]
        /\ UNCHANGED <<file, restarts, dropped, replays>>
    BY <1>8 DEF Finish, At, Goto
  <2>2. \A d \in Calls \ {c} : reply'[d] = reply[d]
    BY <1>8 DEF Finish, Answer, TypeOK
  <2>3. replays[call[c].key] = c
    BY <2>1 DEF Owned, InFlight
  <2>4. QED
    BY <2>1, <2>2, <2>3, GotoKeeps DEF Keeps, Ends, Pcs
<1>9. CASE Replay(c) \/ Cancel(c)
  <2>1. /\ call[c].pc = "wait" /\ call' = [call EXCEPT ![c].pc = "done"]
        /\ UNCHANGED <<file, restarts, dropped, replays>>
    BY <1>9 DEF Replay, Cancel, At, Goto
  <2>2. reply'[c].kind # "created" /\ \A d \in Calls \ {c} : reply'[d] = reply[d]
    <3>1. CASE Cancel(c)
      BY <3>1 DEF Cancel, Answer, TypeOK
    <3>2. CASE Replay(c)
      BY <3>2 DEF Replay, Answer, TypeOK
    <3>3. QED
      BY <1>9, <3>1, <3>2
  <2>3. QED
    BY <2>1, <2>2, GotoKeeps DEF Keeps, Ends, Pcs
<1>10. QED
  BY <1>1, <1>2, <1>3, <1>4, <1>5, <1>6, <1>7, <1>8, <1>9 DEF Step

(* Every step keeps the receipts that were promised, or the caps dropped them. *)
LEMMA KeptStep ==
  ASSUME TypeOK, Owned, Answered, Copied, Kept, [Next]_vars
  PROVE  Answered' /\ Copied' /\ Kept'
<1>1. ASSUME NEW c \in Calls, Step(c) \/ Cancel(c) PROVE Answered' /\ Copied' /\ Kept'
  BY <1>1, StepKeeps, KeepsKept, EndsAnswered
<1>2. ASSUME Restart PROVE Answered' /\ Copied' /\ Kept'
  <2> DEFINE table == [k \in Keys |-> IF Adopted(k) THEN file[k].of ELSE None]
             recs == [o \in Calls |->
                 IF \E k \in Keys : table[k] = o
                 THEN LET k == CHOOSE k \in Keys : table[k] = o IN
                      [complete |-> TRUE, checkpointed |-> FALSE, evicted |-> file[k].evicted,
                       done |-> TRUE, at |-> file[k].at, result |-> file[k].result]
                 ELSE NoReceipt]
  <2>1. /\ replays' = CappedTable(table, recs)
        /\ dropped' = (dropped \ {table[k] : k \in Keys}) \cup {table[k] : k \in Excess(table, recs)}
        /\ restarts' = restarts + 1 /\ UNCHANGED <<file, reply>>
    BY <1>2 DEF Restart
  <2>2. ASSUME NEW k \in Keys, file[k].of \in Calls, Kind[k] # "prepare", file[k].of \notin dropped'
        PROVE  replays'[k] = file[k].of
    <3>1. table[k] = file[k].of
      BY <2>2, CallsAssumption DEF Adopted
    <3> HIDE DEF table, recs
    <3>2. k \notin Excess(table, recs)
      BY <2>1, <2>2, <3>1
    <3>3. QED
      BY <2>1, <3>1, <3>2 DEF CappedTable
  <2>3. ASSUME NEW c \in Calls
        PROVE  /\ call[c].pc = "done" => call'[c].pc = "done"
               /\ call'[c].pc # "write" /\ call'[c].key = call[c].key
               /\ \A k \in Keys : call'[c].snap[k].of = None
    <3>1. call[c] \in CallRecord
      BY DEF TypeOK
    <3>2. call'[c] = IF call[c].pc \in {"new", "done"} THEN call[c]
                     ELSE [call[c] EXCEPT !.pc = "lost", !.snap = NoFile]
      BY <1>2 DEF Restart
    <3>3. CASE call[c].pc \in {"new", "done"}
      BY <3>2, <3>3 DEF Copied
    <3>4. CASE call[c].pc \notin {"new", "done"}
      <4>1. call'[c] = [call[c] EXCEPT !.pc = "lost", !.snap = NoFile]
        BY <3>2, <3>4
      <4>2. call'[c].pc = "lost" /\ call'[c].key = call[c].key /\ call'[c].snap = NoFile
        BY <3>1, <4>1 DEF CallRecord
      <4>3. QED
        BY <3>4, <4>2 DEF NoFile, NoRecord
    <3>5. QED
      BY <3>3, <3>4
  <2>4. Answered' /\ Copied'
    BY <2>1, <2>3 DEF Answered, Copied
  <2>5. ASSUME NEW c \in Calls, c \notin dropped', Kind[call'[c].key] # "prepare", Durable(c)'
        PROVE  replays'[call'[c].key] = c
    <3>1. restarts' # 0
      BY <2>1 DEF TypeOK
    <3>2. call'[c].key \in Keys
      BY <2>3 DEF TypeOK, CallRecord
    <3>3. file[call'[c].key].of = c
      BY <2>1, <2>3, <2>5, <3>1, <3>2, CallsAssumption DEF Durable
    <3>4. QED
      BY <2>2, <2>5, <3>2, <3>3
  <2>6. QED
    BY <2>4, <2>5 DEF Kept
<1>3. CASE UNCHANGED vars
  BY <1>3 DEF vars, Answered, Copied, Kept, Durable
<1>4. QED
  BY <1>1, <1>2, <1>3 DEF Next

(* Initially no call has begun. *)
LEMMA InitInv == Init => IInv
<1> SUFFICES ASSUME Init PROVE IInv
  OBVIOUS
<1>1. NoRecord \in Persisted /\ NoReceipt \in Receipt /\ NoReply \in Reply
  BY DEF NoRecord, Persisted, NoReceipt, Receipt, NoReply, Reply, Results
<1>2. NoFile \in Files /\ \A k \in Keys : NoFile[k].of = None
  BY <1>1 DEF NoFile, Files, NoRecord
<1>3. \A c \in Calls : call[c] \in NewCalls
  BY DEF Init
<1>4. NewCalls \subseteq CallRecord
  <2>1. ASSUME NEW k \in Keys, NEW h \in Hashes
        PROVE  [pc |-> "new", key |-> k, hash |-> h, on |-> None, final |-> FALSE, stored |-> FALSE,
                snap |-> NoFile] \in CallRecord
    BY <1>2 DEF CallRecord, Pcs
  <2>2. QED
    BY <2>1 DEF NewCalls
<1>5. TypeOK
  BY <1>1, <1>2, <1>4, CapAssumption DEF Init, TypeOK
<1>6. \A c \in Calls : call[c].pc = "new" /\ call[c].snap = NoFile
  BY <1>3 DEF NewCalls
<1>7. Owned /\ WaitsOn
  BY <1>6 DEF Owned, InFlight, WaitsOn
<1>8. Unbegun
  BY <1>2, <1>6, CallsAssumption DEF Unbegun, Init, NoReceipt
<1>9. TableRuns /\ WaitRuns
  BY <1>6, CallsAssumption DEF TableRuns, WaitRuns, Init
<1>10. Answered /\ Copied /\ Kept
  BY <1>2, <1>6 DEF Answered, Copied, Kept, Init, NoReply
<1>11. QED
  BY <1>5, <1>7, <1>8, <1>9, <1>10 DEF IInv

(* IInv is inductive. *)
THEOREM Inductive == Spec => []IInv
<1>1. IInv /\ [Next]_vars => IInv'
  BY TypeStep, WaitStep, OwnedStep, ReleaseStep, KeptStep DEF IInv
<1>2. QED
  BY InitInv, <1>1, PTL DEF Spec

(* The receipt store's variables keep their types, across restarts. *)
THEOREM TypeCorrect == Spec => []TypeOK
<1>1. IInv => TypeOK
  BY DEF IInv
<1>2. QED
  BY Inductive, <1>1, PTL

(* For any caps, failures and restarts, at most one call of a key runs at a time:
   lookupOrBegin registers the first, and nothing removes its receipt before it ends. *)
THEOREM RunsAlone == Spec => []OneRunner
<1>1. IInv => OneRunner
  BY DEF IInv, Owned, OneRunner, SameKey
<1>2. QED
  BY Inductive, <1>1, PTL

(* For any caps, failures and restarts, nobody waits on a receipt that no running call
   will release: finish and abandon both close done, and no cap drops it before. *)
THEOREM WaitersReleased == Spec => []WaiterHasRunner
<1>1. IInv => WaiterHasRunner
  BY DEF IInv, WaitRuns, Runs, WaiterHasRunner
<1>2. QED
  BY Inductive, <1>1, PTL

(* For any calls, keys, caps, failures and restarts, a change that its client was told of
   is not made again under its key, as long as the receipt file has its receipt or the
   service has run on, and the caps have not removed even its tombstone: the receipt is
   in the table, and lookupOrBegin makes every retry wait on it. *)
THEOREM ChangesNotRemade == Spec => NotRemade
<1> DEFINE Refused == \A d \in mutated' \ mutated : \A c \in mutated :
                     SameKey(c, d) /\ Kind[call[c].key] # "prepare" => ~Told(c)
<1>1. ASSUME IInv, [Next]_vars PROVE [Refused]_vars
  <2> SUFFICES ASSUME NEW d \in mutated' \ mutated, NEW c \in mutated, SameKey(c, d),
                      Kind[call[c].key] # "prepare", Told(c)
               PROVE  FALSE
    OBVIOUS
  <2>1. c \in Calls
    BY <1>1 DEF IInv, TypeOK
  <2>2. PICK e \in Calls : Mutate(e)
    BY <1>1 DEF Next, Step, Begin, Refuse, Store, Snap, Write, Normalize, Abandon, Finish, Replay,
                Cancel, Restart, vars
  <2>3. d = e /\ call[d].pc = "execute"
    BY <2>2 DEF Mutate, At
  <2>4. replays[call[d].key] = d
    BY <1>1, <2>3 DEF IInv, Owned, InFlight
  <2>5. replays[call[c].key] = c
    BY <1>1, <2>1 DEF IInv, Kept, Told, Durable
  <2>6. QED
    BY <2>4, <2>5 DEF SameKey
<1>2. QED
  BY Inductive, <1>1, PTL DEF Spec, NotRemade
=============================================================================
