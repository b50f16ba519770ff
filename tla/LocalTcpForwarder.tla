--------------------------- MODULE LocalTcpForwarder ---------------------------
(***************************************************************************)
(* LocalTcpForwarder (src/local_forward.cpp): `tailcat forward` and         *)
(* `tailcat browse` listen on ports of this host and carry each accepted    *)
(* connection to a port of the tailcat server.  One connection.             *)
(***************************************************************************)
EXTENDS DialledRelay

Served == INSTANCE ServedTcpPorts

(* accept_new(): the reader thread starts before the tunnel is connected.   *)
Dial ==
  /\ pc = "new" /\ accepted = "queued" /\ acceptor = "accepting"
  /\ accepted' = "taken"
  /\ dial' = "connecting"
  /\ reader' = "next"
  /\ pc' = "idle"
  /\ UNCHANGED <<peerVars, tunnelVars, writing, pending, tunnelShut, hostShut,
                 chunk, chunks, hostEof, hostError, socketVars, hostVars,
                 acceptor>>

(* dial() throws (lwIP has no connection left): the socket is closed.       *)
DialFails ==
  /\ pc = "new" /\ accepted = "queued" /\ acceptor = "accepting"
  /\ accepted' = "taken"
  /\ pc' = "done"
  /\ pcb' = "gone" /\ peerEnd' = "aborted"
  /\ socket' = "closed"
  /\ UNCHANGED <<peerSent, peerFin, peerGot, upWire, received, tunnelEof,
                 tunnelFailed, downWire, downFin, writing, pending, tunnelShut,
                 hostShut, readerVars, fromHost, toHost, hostVars, acceptor,
                 dial>>

HostReader == ReaderNext /\ UNCHANGED dialVars

(* take_host_chunk() and service(): the served connection's, except that    *)
(* nothing but a failure is looked at until the tunnel is connected.        *)
Service ==
  /\ Served!ServiceFailed \/ (dial = "connected" /\ Served!ServiceNext)
  /\ UNCHANGED dialVars

Next ==
  \/ EnvironmentNext \/ AcceptorNext \/ DialNext \/ Exit
  \/ StreamNext /\ UNCHANGED dialVars
  \/ HostReader
  \/ Dial \/ DialFails \/ Service

ForwarderSpec == DialledInit /\ [][Next]_allVars

(* As for ServedTcpPorts; accept() does not have to fail, and the server's  *)
(* side answers the dial one way or the other.                              *)
FairSpec ==
  /\ ForwarderSpec
  /\ WF_allVars(AcceptorAccepts) /\ WF_allVars(Dial) /\ WF_allVars(Exit)
  /\ WF_allVars(DialNext)
  /\ SF_allVars(StreamNext /\ UNCHANGED dialVars)
  /\ WF_allVars(HostReader) /\ WF_allVars(Service)
  /\ WF_allVars(Release /\ UNCHANGED dialVars)
  /\ WF_allVars((PeerRead \/ PeerReadEof) /\ UNCHANGED dialVars)
  /\ WF_allVars(PeerGivesUp /\ UNCHANGED dialVars)
  /\ WF_allVars((HostRead \/ HostReadEof) /\ UNCHANGED dialVars)

-----------------------------------------------------------------------------
(* Each direction of a forwarded connection is a byte pipe (service() and   *)
(* take_host_chunk()): what the application wrote before the tunnel was     *)
(* connected arrives too, and only a broken-off counterpart or the end of   *)
(* the forwarder itself cuts a stream short.                                *)
Up == INSTANCE BytePipe WITH
        sent <- peerSent, closed <- peerFin,
        broken <- peerEnd = "aborted" \/ pc = "killed",
        got <- hostGot, end <- hostEnd
Down == INSTANCE BytePipe WITH
          sent <- hostSent, closed <- hostFin,
          broken <- hostEnd = "aborted" \/ pc = "killed",
          got <- peerGot, end <- peerEnd
BytesArePiped == Up!Spec /\ Down!Spec

(* Once both applications have shut down, both have read to the end and the *)
(* connection is removed, unless someone breaks off or the forwarder ends.  *)
Teardown ==
  peerFin /\ hostFin
    ~> \/ pc = "done" /\ peerEnd = "eof" /\ hostEnd = "eof"
       \/ peerEnd = "aborted" \/ hostEnd = "aborted" \/ pc = "killed"

(* An application whose dial is refused, or whose forwarder ends because    *)
(* its listener failed, learns it, also from the queue of accepted sockets  *)
(* (unless service() closes the socket under the reader's recv()).          *)
Answered ==
  accepted # "none" /\ (peerEnd = "aborted" \/ pc = "killed")
    ~> hostEnd # "open" \/ (socket = "closed" /\ reader = "recv")
=============================================================================
