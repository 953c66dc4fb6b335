-------------------------------- MODULE Proxy --------------------------------
(***************************************************************************)
(* The stdio proxy behind `huyang mcp` (internal/service/service.go):      *)
(* it forwards frames between one client and the service socket and, when  *)
(* the service is replaced underneath it, connects again, repeats the      *)
(* client's initialize handshake and resends what is unanswered.           *)
(*                                                                         *)
(* `link` is the present connection with the service's end of it.  Frames  *)
(* of a superseded connection are ignored by forwardBackend whenever they  *)
(* are taken from the channel, so they are left out when the generation    *)
(* changes.                                                                *)
(***************************************************************************)
EXTENDS Naturals, Sequences, FiniteSets

CONSTANT Requests      \* the client's tool calls, one frame each

InitializeID == "initialize"
Initialized == "initialized"
Frames == Requests \cup {InitializeID}
Sendable == Frames \cup {Initialized}

ASSUME ProxyAssumption == Requests \cap {InitializeID, Initialized} = {}

VARIABLES
  client,   \* the frames the client has sent, and the answers it has got
  proxy,    \* mcpProxy: what it does, clientInitialized, the notification, outstanding
  link      \* the connection: service's end, both directions, its session, calls running

proxyVars == <<client, proxy, link>>

FreshLink == [open |-> TRUE, up |-> << >>, down |-> << >>, session |-> "new", running |-> {}]

Client == [sent : SUBSET Sendable, answers : [Frames -> Nat]]
McpProxy == [pc : {"forward", "dial", "reinitialize", "ended"}, initialized : BOOLEAN, note : BOOLEAN,
             outstanding : SUBSET Frames]
Link == [open : BOOLEAN, up : Seq(Sendable), down : Seq(Frames), session : {"new", "greeted", "ready"},
         running : SUBSET Requests]

(* Everything has its shape. *)
ProxyTypeOK == client \in Client /\ proxy \in McpProxy /\ link \in Link

(* proxyHuyangMCP: the first connection is made before anything is forwarded. *)
ProxyInit ==
  /\ client = [sent |-> {}, answers |-> [f \in Frames |-> 0]]
  /\ proxy = [pc |-> "forward", initialized |-> FALSE, note |-> FALSE, outstanding |-> {}]
  /\ link = FreshLink

(* The client waits for the answer to initialize before it sends anything else. *)
Ready(f) ==
  /\ f \notin client.sent
  /\ f = Initialized => client.answers[InitializeID] > 0
  /\ f \in Requests => Initialized \in client.sent

(* forwardClient: the frame is recorded, then written.  A write to a connection
   whose other end is gone fails, or is lost before the reader notices. *)
ForwardClient(f, outcome) ==
  /\ proxy.pc = "forward" /\ Ready(f)
  /\ outcome = "written" <=> link.open
  /\ client' = [client EXCEPT !.sent = client.sent \cup {f}]
  /\ proxy' = [proxy EXCEPT
       !.outstanding = proxy.outstanding \cup ({f} \ {Initialized}),
       !.note = proxy.note \/ f = Initialized,
       !.pc = IF outcome = "failed" THEN "dial" ELSE "forward"]
  /\ link' = IF outcome = "written" THEN [link EXCEPT !.up = Append(link.up, f)] ELSE link

ForwardUnsettled ==
  /\ proxy.pc = "forward" /\ link.down # << >>
  /\ LET f == Head(link.down) IN
     /\ proxy' = [proxy EXCEPT !.initialized = proxy.initialized \/ f = InitializeID]
     /\ client' = [client EXCEPT !.answers = [client.answers EXCEPT ![f] = client.answers[f] + 1]]
  /\ link' = [link EXCEPT !.down = Tail(link.down)]

(* forwardBackend: an answer settles its request and goes to the client, *)
ForwardAnswer ==
  /\ proxy.pc = "forward" /\ link.down # << >>
  /\ LET f == Head(link.down) IN
     /\ proxy' = [proxy EXCEPT !.outstanding = proxy.outstanding \ {f},
                             !.initialized = proxy.initialized \/ f = InitializeID]
     /\ client' = [client EXCEPT !.answers = [client.answers EXCEPT ![f] = client.answers[f] + 1]]
  /\ link' = [link EXCEPT !.down = Tail(link.down)]

(* ... and the end of the stream makes it connect again. *)
BackendLost ==
  /\ proxy.pc = "forward" /\ ~link.open /\ link.down = << >>
  /\ proxy' = [proxy EXCEPT !.pc = "dial"]
  /\ UNCHANGED <<client, link>>

(* The frames of a set, each once, in any order: the code ranges over a map. *)
Orders(S) ==
  {order \in [1..Cardinality(S) -> S] :
     /\ \A f \in S : \E i \in DOMAIN order : order[i] = f
     /\ \A i, j \in DOMAIN order : order[i] = order[j] => i = j}

(* dial: a client that was initialized has its handshake repeated first. *)
Dial(listening) ==
  /\ proxy.pc = "dial" /\ listening
  /\ IF proxy.initialized
       THEN /\ link' = [FreshLink EXCEPT !.up = <<InitializeID>>]
            /\ proxy' = [proxy EXCEPT !.pc = "reinitialize"]
       ELSE /\ \E order \in Orders(proxy.outstanding) : link' = [FreshLink EXCEPT !.up = order]
            /\ proxy' = [proxy EXCEPT !.pc = "forward"]
  /\ UNCHANGED client

(* reinitialize: its answer is awaited and not forwarded; the notification and
   then every outstanding request follow. *)
Reinitialize ==
  /\ proxy.pc = "reinitialize" /\ link.down # << >>
  /\ LET note == IF proxy.note THEN <<Initialized>> ELSE << >> IN
     IF Head(link.down) # InitializeID
       THEN link' = [link EXCEPT !.down = Tail(link.down)] /\ UNCHANGED proxy
       ELSE /\ \E order \in Orders(proxy.outstanding) :
                 link' = [link EXCEPT !.down = Tail(link.down), !.up = IF link.open THEN link.up \o note \o order ELSE link.up]
            /\ proxy' = [proxy EXCEPT !.pc = "forward"]
  /\ UNCHANGED client

(* A connection that ends, or stays silent for ten seconds, meanwhile is dialled
   again; *)
ReinitializeFails ==
  /\ proxy.pc = "reinitialize" /\ ~link.open
  /\ proxy' = [proxy EXCEPT !.pc = "dial"]
  /\ UNCHANGED <<client, link>>

(* connect gives up when no service listens for thirty seconds, and the proxy ends. *)
ConnectTimesOut(listening) ==
  /\ proxy.pc = "dial" /\ ~listening
  /\ proxy' = [proxy EXCEPT !.pc = "ended"]
  /\ UNCHANGED <<client, link>>

-----------------------------------------------------------------------------
(* serveUnixConnection and the SDK's session behind it: initialize is answered,
   the notification completes the handshake, a request starts a call. *)
ServeFrame ==
  /\ link.open /\ link.up # << >>
  /\ LET f == Head(link.up) IN
     link' = [link EXCEPT
       !.up = Tail(link.up),
       !.down = IF f = InitializeID THEN Append(link.down, f) ELSE link.down,
       !.session = IF f = InitializeID THEN "greeted" ELSE IF f = Initialized THEN "ready" ELSE link.session,
       !.running = link.running \cup ({f} \cap Requests)]
  /\ UNCHANGED <<client, proxy>>

(* The call has ended and its answer is written to the connection. *)
ServeAnswer(f) ==
  /\ link.open /\ f \in link.running
  /\ link' = [link EXCEPT !.running = link.running \ {f}, !.down = Append(link.down, f)]
  /\ UNCHANGED <<client, proxy>>

(* The service process ends: what it had answered can still be read. *)
LinkBreaks ==
  /\ link' = [link EXCEPT !.open = FALSE, !.up = << >>, !.running = {}]
  /\ UNCHANGED <<client, proxy>>

ProxyStep(listening) ==
  \/ \E f \in Frames \cup {Initialized}, o \in {"written", "failed", "lost"} : ForwardClient(f, o)
  \/ ForwardAnswer \/ BackendLost \/ Dial(listening)
  \/ Reinitialize \/ ReinitializeFails

-----------------------------------------------------------------------------
(* The inductive strengthening.  What the proxy remembers of the client. *)
ClientInv ==
  /\ \A f \in Frames : client.answers[f] <= 1 /\ (client.answers[f] = 1 => f \in client.sent)
  /\ proxy.outstanding = {f \in Frames : f \in client.sent /\ client.answers[f] = 0}
  /\ IsFiniteSet(proxy.outstanding)
  /\ proxy.initialized <=> client.answers[InitializeID] = 1
  /\ proxy.note <=> Initialized \in client.sent
  /\ Initialized \in client.sent => client.answers[InitializeID] = 1
  /\ Requests \cap client.sent # {} => Initialized \in client.sent

(* A frame is in one place of the connection, once. *)
In(f, queue) == \E i \in DOMAIN queue : queue[i] = f
Once(queue) == \A i, j \in DOMAIN queue : queue[i] = queue[j] => i = j
OnLink(f) == f \in link.running \/ In(f, link.up) \/ In(f, link.down)
OnceInv ==
  /\ Once(link.up) /\ Once(link.down)
  /\ \A f \in Sendable : /\ ~(In(f, link.up) /\ In(f, link.down))
                         /\ f \in link.running => ~In(f, link.up) /\ ~In(f, link.down)
  /\ link.session = "ready" \/ In(Initialized, link.up) => Initialized \in client.sent

(* While the proxy forwards, what is on the connection is unanswered, and all that is
   unanswered is on a living one.  A request is behind the handshake. *)
Greeted(n) == link.session = "ready" \/ \E i \in 1..n : link.up[i] = Initialized
ForwardInv ==
  proxy.pc = "forward" =>
    /\ \A f \in Frames : OnLink(f) => f \in proxy.outstanding
    /\ link.open => \A f \in proxy.outstanding : OnLink(f)
    /\ link.open /\ Initialized \in client.sent => Greeted(Len(link.up))
    /\ \A i \in 1..Len(link.up) : link.up[i] \in Requests => Greeted(i - 1)
    /\ link.running # {} => link.session = "ready"

(* A repeated handshake has the new connection to itself. *)
DialInv ==
  /\ ~link.open => link.running = {} /\ link.up = << >>
  /\ proxy.pc \in {"dial", "ended"} => ~link.open
  /\ proxy.pc = "reinitialize" =>
       /\ proxy.initialized /\ link.running = {}
       /\ \/ link.up = <<InitializeID>> /\ link.down = << >>
          \/ link.up = << >> /\ link.down = <<InitializeID>> /\ (link.open => link.session = "greeted")
          \/ link.up = << >> /\ link.down = << >> /\ ~link.open

ProxyInv == ClientInv /\ OnceInv /\ ForwardInv /\ DialInv
=============================================================================
