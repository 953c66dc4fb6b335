------------------------------- MODULE Service -------------------------------
(***************************************************************************)
(* The service process between one proxied client and the registry: it     *)
(* loads its state, sweeps, finishes pending work, listens, serves the     *)
(* calls the proxy forwards, and may be killed at any step and started     *)
(* again.  A request that was running when it died is resent by the proxy  *)
(* and runs again.                                                         *)
(***************************************************************************)
EXTENDS Registry, Proxy

CONSTANTS
  MaxRestarts,  \* bound: times the service process dies
  Asked         \* what the requests may ask for between them

Asks == [op : {"open"}, root : Roots, id : {0}] \cup [op : {"use"}, root : {"none"}, id : 1..MaxIds]

ASSUME ServiceAssumption ==
  /\ MaxRestarts \in Nat /\ Callers = Requests
  /\ Asked \subseteq [Requests -> Asks]

VARIABLES
  phase,     \* "down", "loading" (loadState's sweep), "listening"
  restarts,
  asks       \* what each request asks for: a root to open or a workspace to use

vars == <<registryVars, proxyVars, phase, restarts, asks>>

Init ==
  /\ RegistryInit /\ ProxyInit
  /\ phase = "listening" /\ restarts = 0
  /\ asks \in Asked

Listening == phase = "listening"

(* A frame that is a request begins its call in the dispatcher: workspace_open
   takes no lane, every other call does. *)
Dispatch(c) ==
  \/ asks[c].op = "open" /\ OpenFresh(c, asks[c].root)
  \/ asks[c].op = "use" /\ UseBegin(c, asks[c].id)

(* An open of a root that is not there, or a use of an ID never made, is refused. *)
DispatchRefuses(c) ==
  /\ call[c].pc = "idle"
  /\ \/ asks[c].op = "open" /\ (asks[c].root \in gone \/ issued = MaxIds)
     \/ asks[c].op = "use" /\ asks[c].id > issued
  /\ Becomes(c, [call[c] EXCEPT !.pc = "done"])
  /\ UNCHANGED <<records, items, file, copies, sweep, stores, work, gone, issued, faults,
                 told, mixed>>

Serve ==
  /\ Listening
  /\ ServeFrame
  /\ LET f == Head(link.up) IN
     IF f \in Requests THEN Dispatch(f) \/ DispatchRefuses(f) ELSE UNCHANGED registryVars
  /\ UNCHANGED <<phase, restarts, asks>>

Answer(c) ==
  /\ Listening /\ call[c].pc = "done"
  /\ ServeAnswer(c)
  /\ Becomes(c, IdleCall)
  /\ UNCHANGED <<records, items, file, copies, sweep, stores, work, gone, issued, faults,
                 told, mixed, phase, restarts, asks>>

Step(A) == A /\ UNCHANGED <<proxyVars, phase, restarts, asks>>

(* The process dies: memory goes, files stay, the socket stays behind. *)
Die ==
  /\ phase # "down" /\ restarts < MaxRestarts
  /\ phase' = "down" /\ restarts' = restarts + 1
  /\ LinkBreaks
  /\ UNCHANGED <<registryVars, asks>>

(* loadState up to the sweep of the registry, which runs to its end, *)
Start ==
  /\ phase = "down" /\ phase' = "loading"
  /\ Load
  /\ UNCHANGED <<proxyVars, restarts, asks>>

(* ... then the pending workspaces are opened and the socket is taken over. *)
Listen ==
  /\ phase = "loading" /\ SweepAt("idle")
  /\ phase' = "listening"
  /\ OpenPending
  /\ UNCHANGED <<proxyVars, restarts, asks>>

RunSweep == phase # "down" /\ Step(SweepStep)
Tick == Listening /\ Step(SweepBegins)
RunCall(c) == Listening /\ Step(CallStep(c))
RunProxy == ProxyStep(Listening) /\ UNCHANGED <<registryVars, phase, restarts, asks>>
ProxyGivesUp == ConnectTimesOut(Listening) /\ UNCHANGED <<registryVars, phase, restarts, asks>>

Next ==
  \/ Serve \/ Die \/ Start \/ Listen \/ RunSweep \/ Tick \/ RunProxy \/ ProxyGivesUp
  \/ \E c \in Callers : Answer(c) \/ RunCall(c)
  \/ Step(Age)
  \/ \E root \in Roots : Step(RootMoves(root))

Spec == Init /\ [][Next]_vars

-----------------------------------------------------------------------------
(* A definition is registered once, however many clients open it at the same
   time and whatever a sweep forgets meanwhile; the file never holds two records
   of it either (Adopt). *)
OneRecordPerDefinition ==
  \A rs \in {records, file} : \A i, j \in Ids :
    rs[i] # NoRecord /\ rs[j] # NoRecord /\ rs[i].root = rs[j].root => i = j

(* A workspace answered to the client that created it is registered while the
   service runs and is in the file, unless a sweep forgot it; a restart keeps it
   unless the last write of the file overlapped another persist. *)
CreatedIsKept ==
  /\ phase # "down" => told \subseteq RegisteredIds
  /\ ~mixed => \A id \in told : file[id] # NoRecord

(* The client does not notice the restarts between it and the service: no frame is
   answered twice, however often it was resent; the service runs a request only in
   a session whose handshake is complete; and while the proxy forwards over a live
   connection, every request not answered yet is on that connection, on its way,
   running, or answered, never left for nobody (forwardClient, forwardBackend,
   dial, reinitialize). *)
ProxyTransparent ==
  /\ \A f \in Frames : client.answers[f] <= 1
  /\ link.running # {} => link.session = "ready"
  /\ proxy.pc = "forward" /\ link.open =>
       \A f \in Frames \cap client.sent : client.answers[f] = 0 =>
         \/ f \in link.running
         \/ \E queue \in {link.up, link.down} : \E i \in DOMAIN queue : queue[i] = f

-----------------------------------------------------------------------------
(* Everything has its shape. *)
TypeOK ==
  /\ RegistryTypeOK /\ DiskTypeOK /\ ProxyTypeOK
  /\ phase \in {"down", "loading", "listening"} /\ restarts \in 0..MaxRestarts
  /\ asks \in [Requests -> Asks]

(* The inductive strengthening: nothing of a service that is down is open. *)
IInv == RegistryInv /\ ProxyInv /\ (phase # "listening" => ~link.open)
=============================================================================
