------------------------------ MODULE DataPlane ------------------------------
(***************************************************************************)
(* Clients of one Tailcat server over a DERP relay: rendezvous (MEOW /      *)
(* MEOWED), the WireGuard handshake and the packets carried afterwards.     *)
(*                                                                          *)
(* A client is TailcatClientDataPlane with WireGuardDerpPeer                *)
(* (src/data_plane.cpp, src/rendezvous.cpp, src/wireguard_derp.cpp); the    *)
(* server is TailcatServerDataPlane::Impl.  The relay may reorder, repeat   *)
(* and lose packets, and names the true source of each one.  A client       *)
(* process may give up or exit and be started again with the same key; the  *)
(* server process may be restarted and then knows no peer.                  *)
(***************************************************************************)
EXTENDS WireGuardEngine, FiniteSets

CONSTANTS
  Client,         \* node keys of the client processes
  Allowed,        \* those the --allow list accepts
  MaxStarts,      \* bound: starts of each client process
  MaxInitiations, \* bound: handshake initiations each client creates
  MaxPackets,     \* bound: IP packets each way, per client
  MaxLost,        \* bound: packets the relay loses
  MaxRestarts,    \* bound: restarts of the server process
  MaxExpiries,    \* bound: keypairs that reach REJECT_AFTER_TIME
  Repeats         \* whether the relay keeps, and so repeats, every packet

ASSUME AllowedAssumption == Allowed \subseteq Client
ASSUME BoundsAssumption ==
  /\ MaxStarts \in Nat /\ MaxInitiations \in Nat /\ MaxPackets \in Nat
  /\ MaxLost \in Nat /\ MaxRestarts \in Nat /\ MaxExpiries \in Nat
  /\ Repeats \in BOOLEAN

VARIABLES
  net,        \* packets inside the relay
  phase,      \* where each client process is in connect()
  client,     \* each client process's WireGuard engine
  known,      \* the clients in the server's peers map
  server,     \* the engine of each entry of that map
  created,    \* responses created so far: the last session number
  initiated,  \* initiations each client has created (its TAI64N clock)
  installed,  \* history: the sessions each client has installed
  responses,  \* history: every response the server has created
  epoch,      \* value of created when this server process started
  upSent, downSent, \* packets each client sent / was sent
  upGot, downGot,   \* how often each of those reached the far IP stack
  starts, lost, restarts, expiries \* counters for the bounds

clientVars == <<phase, client, initiated, installed>>
serverVars == <<known, server, created, responses, epoch>>
trafficVars == <<upSent, downSent, upGot, downGot>>
boundVars == <<starts, lost, restarts, expiries>>
vars == <<net, clientVars, serverVars, trafficVars, boundVars>>

(***************************************************************************)
(* Packets.  An "init", "resp" or data packet carries its client's key as   *)
(* DERP source or destination; up and down give the direction of data.      *)
(***************************************************************************)
Meow(c) == [type |-> "meow", client |-> c]
Meowed(c) == [type |-> "meowed", client |-> c]
Initiation(c, i) == [type |-> "init", client |-> c, init |-> i]
(* Mutant: a response that does not name the initiation it answers.         *)
ResponseUnnamed(c, i, s) == [type |-> "resp", client |-> c, session |-> s]

Response(c, i, s) ==
  [type |-> "resp", client |-> c, init |-> i, session |-> s]
Data(dir, c, k, p) ==
  [type |-> dir, client |-> c, session |-> k.session, counter |-> k.sent,
   packet |-> p]

Message ==
  [type: {"meow", "meowed"}, client: Client]
    \cup [type: {"init"}, client: Client, init: Nat]
    \cup [type: {"resp"}, client: Client, init: Nat, session: Nat]
    \cup [type: {"up", "down"}, client: Client, session: Nat, counter: Nat,
          packet: Nat]

(* The IP packets of one direction, numbered in the order they are sent.    *)
Packet == 1..MaxPackets

ToServer == {"meow", "init", "up"}
ToClient == {"meowed", "resp", "down"}

(* The relay hands over m and takes the packets out.                        *)
Exchange(m, out) ==
  net' = (IF Repeats THEN net ELSE net \ {m}) \cup out

Phases == {"off", "meow", "handshake", "up", "failed"}

(* A process that may be sent packets and reads them.                       *)
Running(c) == phase[c] \in {"meow", "handshake", "up"}

Init ==
  /\ net = {}
  /\ phase = [c \in Client |-> "off"]
  /\ client = [c \in Client |-> NewEngine]
  /\ known = {}
  /\ server = [c \in Client |-> NewEngine]
  /\ created = 0
  /\ initiated = [c \in Client |-> 0]
  /\ installed = [c \in Client |-> {}]
  /\ responses = {}
  /\ epoch = 0
  /\ upSent = [c \in Client |-> 0]
  /\ downSent = [c \in Client |-> 0]
  /\ upGot = [c \in Client |-> [p \in Packet |-> 0]]
  /\ downGot = [c \in Client |-> [p \in Packet |-> 0]]
  /\ starts = [c \in Client |-> 0]
  /\ lost = 0
  /\ restarts = 0
  /\ expiries = 0

(***************************************************************************)
(* The client.                                                              *)
(***************************************************************************)

(* A client process starts with a new engine and enters rendezvous_client.  *)
ClientStart(c) ==
  /\ phase[c] \in {"off", "failed"}
  /\ starts[c] < MaxStarts
  /\ starts' = [starts EXCEPT ![c] = @ + 1]
  /\ phase' = [phase EXCEPT ![c] = "meow"]
  /\ client' = [client EXCEPT ![c] = NewEngine]
  /\ UNCHANGED <<net, initiated, installed, serverVars, trafficVars, lost,
                 restarts, expiries>>

(* The MEOW of each second; one that could not be sent is a lost one.       *)
SendMeow(c) ==
  /\ phase[c] = "meow"
  /\ net' = net \cup {Meow(c)}
  /\ UNCHANGED <<clientVars, serverVars, trafficVars, boundVars>>

(* MEOWED from the server ends the rendezvous.                              *)
ReceiveMeowed(c) ==
  /\ phase[c] = "meow"
  /\ Meowed(c) \in net
  /\ phase' = [phase EXCEPT ![c] = "handshake"]
  /\ Exchange(Meowed(c), {})
  /\ UNCHANGED <<client, initiated, installed, serverVars, trafficVars,
                 boundVars>>

(* Mutant: the initiation is sent once and never again.                     *)
SendInitiationOnce(c) ==
  /\ phase[c] = "handshake"
  /\ client[c].pending = 0
  /\ initiated[c] < MaxInitiations
  /\ initiated' = [initiated EXCEPT ![c] = @ + 1]
  /\ client' = [client EXCEPT ![c] = Initiate(@, initiated'[c])]
  /\ net' = net \cup {Initiation(c, initiated'[c])}
  /\ UNCHANGED <<phase, installed, serverVars, trafficVars, boundVars>>

(* The initiation of each five seconds, replacing the one before.           *)
SendInitiation(c) ==
  /\ phase[c] = "handshake"
  /\ initiated[c] < MaxInitiations
  /\ initiated' = [initiated EXCEPT ![c] = @ + 1]
  /\ client' = [client EXCEPT ![c] = Initiate(@, initiated'[c])]
  /\ net' = net \cup {Initiation(c, initiated'[c])}
  /\ UNCHANGED <<phase, installed, serverVars, trafficVars, boundVars>>

(* The response to the pending initiation: connect() returns.               *)
ReceiveResponse(c) == \E m \in net :
  /\ m.type = "resp" /\ m.client = c
  /\ phase[c] \in {"handshake", "up"}
  /\ MatchesPending(client[c], m.init)
  /\ client' = [client EXCEPT ![c] = AcceptResponse(@, m.session)]
  /\ installed' = [installed EXCEPT ![c] = @ \cup {m.session}]
  /\ phase' = [phase EXCEPT ![c] = "up"]
  /\ Exchange(m, {})
  /\ UNCHANGED <<initiated, serverVars, trafficVars, boundVars>>

(* The deadline of rendezvous_client or of WireGuardDerpPeer::connect: the  *)
(* exception ends the process.                                              *)
Deadline(c) ==
  /\ phase[c] \in {"meow", "handshake"}
  /\ phase' = [phase EXCEPT ![c] = "failed"]
  /\ UNCHANGED <<net, client, initiated, installed, serverVars, trafficVars,
                 boundVars>>

(* A client process that is up exits.                                       *)
ClientExit(c) ==
  /\ phase[c] = "up"
  /\ phase' = [phase EXCEPT ![c] = "off"]
  /\ UNCHANGED <<net, client, initiated, installed, serverVars, trafficVars,
                 boundVars>>

(* Its IP stack sends a packet; while encryption throws, nothing leaves.    *)
ClientSend(c) ==
  /\ phase[c] = "up"
  /\ client[c].established
  /\ CanEncrypt(client[c])
  /\ upSent[c] < MaxPackets
  /\ upSent' = [upSent EXCEPT ![c] = @ + 1]
  /\ net' = net \cup {Data("up", c, SendKeypair(client[c]), upSent'[c])}
  /\ client' = [client EXCEPT ![c] = CountSent(@)]
  /\ UNCHANGED <<phase, initiated, installed, serverVars, downSent, upGot,
                 downGot, boundVars>>

ReceiveDown(c) == \E m \in net :
  /\ m.type = "down" /\ m.client = c
  /\ phase[c] \in {"handshake", "up"}
  /\ \E slot \in Receivers(client[c], m.session, m.counter) :
       client' = [client EXCEPT ![c] = AcceptData(@, slot, m.counter)]
  /\ downGot' = [downGot EXCEPT ![c][m.packet] = @ + 1]
  /\ Exchange(m, {})
  /\ UNCHANGED <<phase, initiated, installed, serverVars, upSent, downSent,
                 upGot, boundVars>>

(* Everything else sent to a client is read and dropped: what is not MEOWED *)
(* during the rendezvous, what no handshake or keypair matches later, and   *)
(* what the relay has for a process that is not there.                      *)
ClientIgnores(c) == \E m \in net :
  /\ m.type \in ToClient /\ m.client = c
  /\ \/ ~Running(c)
     \/ phase[c] = "meow" /\ m.type # "meowed"
     \/ phase[c] \in {"handshake", "up"} /\ m.type = "meowed"
     \/ /\ phase[c] \in {"handshake", "up"} /\ m.type = "resp"
        /\ ~MatchesPending(client[c], m.init)
     \/ /\ phase[c] \in {"handshake", "up"} /\ m.type = "down"
        /\ Receivers(client[c], m.session, m.counter) = {}
  /\ Exchange(m, {})
  /\ UNCHANGED <<clientVars, serverVars, trafficVars, boundVars>>

(***************************************************************************)
(* The server: handle_frame and send_ip.                                    *)
(***************************************************************************)

(* Mutant: the allow list is not asked.                                     *)
ServerMeowAnyone(c) ==
  /\ Meow(c) \in net
  /\ known' = known \cup {c}
  /\ Exchange(Meow(c), {Meowed(c)})
  /\ UNCHANGED <<clientVars, server, created, responses, epoch, trafficVars,
                 boundVars>>

(* MEOW from an allowed source: add_peer keeps an engine that exists.       *)
ServerMeow(c) ==
  /\ Meow(c) \in net
  /\ c \in Allowed
  /\ known' = known \cup {c}
  /\ Exchange(Meow(c), {Meowed(c)})
  /\ UNCHANGED <<clientVars, server, created, responses, epoch, trafficVars,
                 boundVars>>

ServerInitiation(c) == \E m \in net :
  /\ m.type = "init" /\ m.client = c
  /\ c \in known
  /\ FreshInitiation(server[c], m.init)
  /\ created' = created + 1
  /\ server' = [server EXCEPT ![c] = AcceptInitiation(@, m.init, created')]
  /\ responses' = responses \cup {Response(c, m.init, created')}
  /\ Exchange(m, {Response(c, m.init, created')})
  /\ UNCHANGED <<clientVars, known, epoch, trafficVars, boundVars>>

ServerUp(c) == \E m \in net :
  /\ m.type = "up" /\ m.client = c
  /\ c \in known
  /\ \E slot \in Receivers(server[c], m.session, m.counter) :
       server' = [server EXCEPT ![c] = AcceptData(@, slot, m.counter)]
  /\ upGot' = [upGot EXCEPT ![c][m.packet] = @ + 1]
  /\ Exchange(m, {})
  /\ UNCHANGED <<clientVars, known, created, responses, epoch, upSent, downSent,
                 downGot, boundVars>>

(* Everything else: a MEOW the allow list refuses, a packet of a source     *)
(* that is no peer, a stale initiation, data no keypair takes.              *)
ServerIgnores(c) == \E m \in net :
  /\ m.type \in ToServer /\ m.client = c
  /\ \/ m.type = "meow" /\ c \notin Allowed
     \/ m.type # "meow" /\ c \notin known
     \/ /\ m.type = "init" /\ c \in known
        /\ ~FreshInitiation(server[c], m.init)
     \/ /\ m.type = "up" /\ c \in known
        /\ Receivers(server[c], m.session, m.counter) = {}
  /\ Exchange(m, {})
  /\ UNCHANGED <<clientVars, serverVars, trafficVars, boundVars>>

(* The IP stack sends a packet to c's address; send_ip drops it unless c is *)
(* a peer whose engine can encrypt it.                                      *)
ServerSend(c) ==
  /\ c \in known
  /\ server[c].established
  /\ CanEncrypt(server[c])
  /\ downSent[c] < MaxPackets
  /\ downSent' = [downSent EXCEPT ![c] = @ + 1]
  /\ net' = net \cup {Data("down", c, SendKeypair(server[c]), downSent'[c])}
  /\ server' = [server EXCEPT ![c] = CountSent(@)]
  /\ UNCHANGED <<clientVars, known, created, responses, epoch, upSent, upGot,
                 downGot, boundVars>>

ServerRestart ==
  /\ restarts < MaxRestarts
  /\ restarts' = restarts + 1
  /\ known' = {}
  /\ server' = [c \in Client |-> NewEngine]
  /\ epoch' = created
  /\ UNCHANGED <<net, clientVars, created, responses, trafficVars, starts,
                 lost, expiries>>

(***************************************************************************)
(* The relay and the clock.                                                 *)
(***************************************************************************)
Lose == \E m \in net :
  /\ lost < MaxLost
  /\ lost' = lost + 1
  /\ net' = net \ {m}
  /\ UNCHANGED <<clientVars, serverVars, trafficVars, starts, restarts,
                 expiries>>

(* REJECT_AFTER_TIME passes for one keypair of one side.                    *)
ClientKeypairExpires(c) == \E slot \in Slots :
  /\ Valid(client[c].keys[slot]) /\ ~client[c].keys[slot].expired
  /\ expiries < MaxExpiries
  /\ expiries' = expiries + 1
  /\ client' = [client EXCEPT ![c].keys[slot].expired = TRUE]
  /\ UNCHANGED <<net, phase, initiated, installed, serverVars, trafficVars,
                 starts, lost, restarts>>

ServerKeypairExpires(c) == \E slot \in Slots :
  /\ Valid(server[c].keys[slot]) /\ ~server[c].keys[slot].expired
  /\ expiries < MaxExpiries
  /\ expiries' = expiries + 1
  /\ server' = [server EXCEPT ![c].keys[slot].expired = TRUE]
  /\ UNCHANGED <<net, clientVars, known, created, responses, epoch,
                 trafficVars, starts, lost, restarts>>

Next ==
  \/ \E c \in Client :
       \/ ClientStart(c) \/ SendMeow(c) \/ ReceiveMeowed(c)
       \/ SendInitiation(c) \/ ReceiveResponse(c) \/ Deadline(c)
       \/ ClientExit(c) \/ ClientSend(c) \/ ReceiveDown(c)
       \/ ClientIgnores(c) \/ ClientKeypairExpires(c)
       \/ ServerMeow(c) \/ ServerInitiation(c) \/ ServerUp(c)
       \/ ServerIgnores(c) \/ ServerSend(c) \/ ServerKeypairExpires(c)
  \/ ServerRestart
  \/ Lose

Spec == Init /\ [][Next]_vars

(* Liveness: retries are five seconds apart, longer than a round trip, so a *)
(* client creates a new initiation only when nothing of the last is in the  *)
(* relay any more.                                                          *)
Patient(c) ==
  ~\E m \in net : /\ m.type \in {"init", "resp"} /\ m.client = c
                  /\ m.init = client[c].pending

PatientNext == Next /\ \A c \in Client : SendInitiation(c) => Patient(c)

(* Both ends poll the relay without pause and retry by the clock; a packet  *)
(* the relay has not lost is eventually read.                               *)
FairSpec ==
  /\ Init /\ [][PatientNext]_vars
  /\ \A c \in Client :
       /\ WF_vars(SendMeow(c)) /\ WF_vars(SendInitiation(c) /\ Patient(c))
       /\ WF_vars(ReceiveMeowed(c)) /\ WF_vars(ReceiveResponse(c))
       /\ WF_vars(ServerMeow(c)) /\ WF_vars(ServerInitiation(c))

-----------------------------------------------------------------------------
(* Every variable keeps its type; the counters stay within their bounds.    *)
TypeOK ==
  /\ net \subseteq Message
  /\ phase \in [Client -> Phases]
  /\ client \in [Client -> Engine]
  /\ known \subseteq Client
  /\ server \in [Client -> Engine]
  /\ created \in Nat
  /\ initiated \in [Client -> Nat]
  /\ installed \in [Client -> SUBSET Nat]
  /\ responses \subseteq Message
  /\ epoch \in Nat
  /\ upSent \in [Client -> 0..MaxPackets]
  /\ downSent \in [Client -> 0..MaxPackets]
  /\ upGot \in [Client -> [Packet -> Nat]]
  /\ downGot \in [Client -> [Packet -> Nat]]
  /\ starts \in [Client -> 0..MaxStarts]
  /\ lost \in 0..MaxLost
  /\ restarts \in 0..MaxRestarts
  /\ expiries \in 0..MaxExpiries

Holds(e, slots, s) == \E slot \in slots : e.keys[slot].session = s

(* Two ends that hold the same session hold it for the same pair of keys    *)
(* and in opposite roles, whatever was delayed, repeated or answered twice  *)
(* (wireguard_engine.cpp handle()).                                         *)
SessionAgreement ==
  \A c, d \in Client : \A i, j \in Slots :
    LET mine == client[c].keys[i]
        theirs == server[d].keys[j]
    IN Valid(mine) /\ mine.session = theirs.session
         => c = d /\ mine.initiator /\ ~theirs.initiator

(* The server marks a peer established as soon as it answers an initiation, *)
(* yet it never sends data under a session before a process of that client  *)
(* has installed it (encrypt() and the order of keypair_update).            *)
NoUnconfirmedSession ==
  \A m \in net : m.type = "down" => m.session \in installed[m.client]

(* While a client is up, the server process that answered it still holds    *)
(* the client's session: neither a delayed initiation of its own earlier    *)
(* tries nor another client can displace it.                                *)
LiveSession ==
  \A c \in Client :
    LET s == client[c].keys["curr"].session
    IN phase[c] = "up" /\ s > epoch => Holds(server[c], {"curr", "next"}, s)

(* Seen from the IP stacks the whole exchange is a datagram service: each   *)
(* packet arrives at most once, only if its client sent it (or was sent     *)
(* it), and only clients on the allow list are heard at all.                *)
UpChannel == INSTANCE Datagrams WITH Sender <- Client, Trusted <- Allowed,
                                     sent <- upSent, got <- upGot
DownChannel == INSTANCE Datagrams WITH Sender <- Client, Trusted <- Allowed,
                                       sent <- downSent, got <- downGot
TrafficIsDatagrams == UpChannel!Spec /\ DownChannel!Spec

(* An allowed client that starts connecting gets through whatever the relay *)
(* loses, or runs into its deadline: MEOW and initiations are both retried  *)
(* (rendezvous_client, WireGuardDerpPeer::connect).                         *)
Connects ==
  \A c \in Allowed :
    phase[c] \in {"meow", "handshake"} ~> phase[c] \in {"up", "failed"}
=============================================================================
