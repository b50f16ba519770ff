----------------------------- MODULE DialledRelay -----------------------------
(***************************************************************************)
(* The relayed connection when it starts at this end: a local application   *)
(* connects to a listening socket of this host, a detached thread accepts   *)
(* it and queues it for the event loop, and the loop dials the port of the  *)
(* tailcat server.  LocalTcpForwarder (src/local_forward.cpp) and SocksProxy *)
(* (src/socks_command.cpp) share this part; here "host" is the local        *)
(* application and "peer" the service behind the tailcat server.            *)
(***************************************************************************)
EXTENDS HostRelay

VARIABLES
  acceptor, \* the accepting thread: "accepting", "failed", or "gone"
  accepted, \* where the application's connection is on its way to the loop
  dial      \* the tunnel connection: "none", "connecting", "connected"

dialVars == <<acceptor, accepted, dial>>
allVars == <<vars, dialVars>>

DialledInit ==
  /\ Init
  /\ acceptor = "accepting" /\ accepted = "none" /\ dial = "none"

(* The kernel completes the application's connect() before accept().        *)
HostConnects ==
  /\ accepted = "none" /\ acceptor # "gone"
  /\ accepted' = "backlog"
  /\ socket' = "open"
  /\ UNCHANGED <<peerVars, tunnelVars, loopVars, readerVars, fromHost, toHost,
                 hostVars, acceptor, dial>>

AcceptorAccepts ==
  /\ acceptor = "accepting" /\ accepted = "backlog"
  /\ accepted' = "queued"
  /\ UNCHANGED <<vars, acceptor, dial>>

(* accept() throws, and the thread leaves the error in the queue.           *)
AcceptorFails ==
  /\ acceptor = "accepting"
  /\ acceptor' = "failed"
  /\ UNCHANGED <<vars, accepted, dial>>

(* Mutant: the destructor closes the connections, but not the queue.        *)
ExitLeavesQueue ==
  /\ acceptor = "failed"
  /\ Pumping
  /\ acceptor' = "gone"
  /\ pc' = "killed"
  /\ socket' = IF accepted = "taken" THEN "closed" ELSE socket
  /\ reader' = "done"
  /\ pcb' = "gone" /\ downWire' = <<>> /\ downFin' = FALSE
  /\ UNCHANGED <<peerVars, upWire, received, tunnelEof, tunnelFailed, writing,
                 pending, tunnelShut, hostShut, chunk, chunks, hostEof,
                 hostError, fromHost, toHost, hostVars, accepted, dial>>

(* The next poll() throws the error and the program ends: the destructor    *)
(* closes every connection, the stack goes with the process, and what it    *)
(* had not sent goes with the stack.  Sockets still in the queue, or just   *)
(* swapped out of it, are closed too.                                       *)
Exit ==
  /\ acceptor = "failed"
  /\ Pumping
  /\ acceptor' = "gone"
  /\ pc' = "killed"
  /\ socket' = IF socket = "open" THEN "closed" ELSE socket
  /\ reader' = "done"
  /\ pcb' = "gone"
  /\ \E n \in 0..Len(downWire) :
       /\ downWire' = Front(downWire, n)
       /\ downFin' \in {FALSE, n = Len(downWire) /\ (downFin \/ pcb = "open")}
  /\ UNCHANGED <<peerVars, upWire, received, tunnelEof, tunnelFailed, writing,
                 pending, tunnelShut, hostShut, chunk, chunks, hostEof,
                 hostError, fromHost, toHost, hostVars, accepted, dial>>

(* The server's side accepts the connection, or refuses it (or never        *)
(* answers, and lwIP gives up).                                             *)
StreamConnected ==
  /\ dial = "connecting" /\ peerEnd = "open" /\ pcb = "open"
  /\ Pumping
  /\ dial' = "connected"
  /\ UNCHANGED <<vars, acceptor, accepted>>

Refused ==
  /\ dial = "connecting" /\ peerEnd = "open" /\ pcb = "open"
  /\ peerEnd' = "aborted"
  /\ UNCHANGED <<peerSent, peerFin, peerGot, tunnelVars, loopVars, readerVars,
                 socketVars, hostVars, dialVars>>

AcceptorNext == AcceptorAccepts \/ AcceptorFails
DialNext == StreamConnected \/ Refused
EnvironmentNext ==
  \/ HostConnects
  \/ dial = "connected" /\ PeerNext /\ UNCHANGED dialVars
  \/ HostNext /\ UNCHANGED dialVars
=============================================================================
