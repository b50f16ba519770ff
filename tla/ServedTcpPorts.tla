---------------------------- MODULE ServedTcpPorts ----------------------------
(***************************************************************************)
(* ServedTcpPorts (src/port_forward.cpp): `tailcat serve` proxies a stream  *)
(* accepted inside the tunnel to a TCP port of this host.  One connection,  *)
(* from accept_new() to its removal by poll(); between the points where     *)
(* service() takes the reader's lock or may block in write_all(), the other *)
(* threads, the host application and the peer run freely.                   *)
(***************************************************************************)
EXTENDS HostRelay

(* tunnel->close() and host->close(); the connection is finished.           *)
CloseBoth ==
  /\ pc' = "done"
  /\ pcb' = IF pcb = "open" THEN "closed" ELSE pcb
  /\ downFin' = (downFin \/ pcb = "open")
  /\ socket' = "closed"

(***************************************************************************)
(* accept_new().                                                            *)
(***************************************************************************)
Accept ==
  /\ pc = "new"
  /\ pc' = "idle"
  /\ socket' = "open"
  /\ reader' = "next"
  /\ UNCHANGED <<peerVars, tunnelVars, writing, pending, tunnelShut, hostShut,
                 chunk, chunks, hostEof, hostError, fromHost, toHost, hostVars>>

(* Nobody serves the port: connect() throws and the tunnel is closed.       *)
AcceptFails ==
  /\ pc = "new"
  /\ pc' = "done"
  /\ pcb' = IF pcb = "open" THEN "closed" ELSE pcb
  /\ downFin' = (downFin \/ pcb = "open")
  /\ hostEnd' = "aborted"
  /\ UNCHANGED <<peerVars, upWire, received, tunnelEof, tunnelFailed, downWire,
                 writing, pending, tunnelShut, hostShut, readerVars, socketVars,
                 hostSent, hostFin, hostGot>>

(***************************************************************************)
(* service(), in the order of its code.                                     *)
(***************************************************************************)
(* Mutant: the failure of the tunnel is not looked at.                      *)
ServiceUnfailed ==
  /\ pc = "idle" /\ tunnelFailed
  /\ UNCHANGED vars

ServiceFailed ==
  /\ pc = "idle" /\ tunnelFailed
  /\ CloseBoth
  /\ UNCHANGED <<peerVars, upWire, received, tunnelEof, tunnelFailed, downWire,
                 writing, pending, tunnelShut, hostShut, readerVars, fromHost,
                 toHost, hostVars>>

(* read_available() takes all there is.                                     *)
ServiceRead ==
  /\ pc = "idle" /\ ~tunnelFailed
  /\ pc' = "write"
  /\ writing' = received
  /\ received' = <<>>
  /\ UNCHANGED <<peerVars, upWire, tunnelEof, tunnelFailed, pcb, downWire,
                 downFin, pending, tunnelShut, hostShut, readerVars, socketVars,
                 hostVars>>

(* Mutant: one send() without the loop around it.                           *)
HostWriteOnce ==
  /\ pc = "write" /\ writing # <<>>
  /\ hostEnd # "aborted"
  /\ Len(toHost) < SocketBuffer
  /\ toHost' = Append(toHost, Head(writing))
  /\ writing' = <<>>
  /\ UNCHANGED <<peerVars, tunnelVars, pc, pending, tunnelShut, hostShut,
                 readerVars, socket, fromHost, hostVars>>

(* write_all() blocks the whole event loop while the socket is full.        *)
HostWrite ==
  /\ pc = "write" /\ writing # <<>>
  /\ hostEnd # "aborted"
  /\ Len(toHost) < SocketBuffer
  /\ toHost' = Append(toHost, Head(writing))
  /\ writing' = Tail(writing)
  /\ UNCHANGED <<peerVars, tunnelVars, pc, pending, tunnelShut, hostShut,
                 readerVars, socket, fromHost, hostVars>>

(* send() on a socket that was reset: EPIPE, once the socket has seen the   *)
(* application's FIN or recv() has reported the reset, and ECONNRESET else. *)
Epipe == hostFin \/ hostError

(* The error is thrown and caught by service().                             *)
HostWriteFails ==
  /\ pc = "write" /\ writing # <<>>
  /\ hostEnd = "aborted"
  /\ ~(Posix /\ Epipe)
  /\ CloseBoth
  /\ UNCHANGED <<peerVars, upWire, received, tunnelEof, tunnelFailed, downWire,
                 writing, pending, tunnelShut, hostShut, readerVars, fromHost,
                 toHost, hostVars>>

(* EPIPE comes with SIGPIPE, which send() is not asked to suppress and the  *)
(* program does not ignore: the server process is gone, and its TCP stack   *)
(* with it.  (Some systems give EPIPE for any socket that was reset.)       *)
HostWriteKills ==
  /\ pc = "write" /\ writing # <<>>
  /\ hostEnd = "aborted"
  /\ Posix
  /\ pc' = "killed"
  /\ pcb' = "gone" /\ downWire' = <<>> /\ downFin' = FALSE
  /\ socket' = "released" /\ reader' = "done"
  /\ UNCHANGED <<peerVars, upWire, received, tunnelEof, tunnelFailed, writing,
                 pending, tunnelShut, hostShut, chunk, chunks, hostEof, hostError,
                 fromHost, toHost, hostVars>>

(* take_host_chunk() looks at the reader's state only when the last chunk   *)
(* has been written; an error discards whatever chunks are left.            *)
TakeFails ==
  /\ pc = "write" /\ writing = <<>>
  /\ pending = <<>> /\ hostError
  /\ CloseBoth
  /\ UNCHANGED <<peerVars, upWire, received, tunnelEof, tunnelFailed, downWire,
                 writing, pending, tunnelShut, hostShut, readerVars, fromHost,
                 toHost, hostVars>>

(* Mutant: tcp_sndbuf() is not asked.                                       *)
AcceptedAll(data) == IF pcb # "open" \/ downFin THEN 0 ELSE Len(data)

(* What fits the send buffer of a pcb that still takes data.                *)
Accepted(data) ==
  IF pcb # "open" \/ downFin THEN 0
  ELSE Smaller(Len(data), SendBuffer - Len(downWire))

(* Mutant: the tunnel is shut down as soon as the reader has seen the end.  *)
TakeShutsEarly ==
  /\ pc = "write" /\ writing = <<>>
  /\ pending # <<>> \/ ~hostError
  /\ \E n \in 0..Len(chunks) :
       LET data == IF pending = <<>> THEN Front(chunks, n) ELSE pending
           shut == pending = <<>> /\ hostEof
       IN /\ n = 0 <=> pending # <<>> \/ chunks = <<>>
          /\ chunks' = Rest(chunks, n)
          /\ downWire' = downWire \o Front(data, Accepted(data))
          /\ pending' = Rest(data, Accepted(data))
          /\ tunnelShut' = (tunnelShut \/ shut)
          /\ downFin' = (downFin \/ (shut /\ pcb = "open"))
  /\ pc' = "check"
  /\ UNCHANGED <<peerVars, upWire, received, tunnelEof, tunnelFailed, pcb,
                 writing, hostShut, reader, chunk, hostEof, hostError,
                 socketVars, hostVars>>

(* Otherwise it takes the next chunk, if it has none, or passes the end of  *)
(* the stream on; then service() writes what the tunnel accepts.  A chunk   *)
(* is any number of bytes.                                                  *)
Take ==
  /\ pc = "write" /\ writing = <<>>
  /\ pending # <<>> \/ ~hostError
  /\ \E n \in 0..Len(chunks) :
       LET data == IF pending = <<>> THEN Front(chunks, n) ELSE pending
           shut == data = <<>> /\ hostEof
       IN /\ n = 0 <=> pending # <<>> \/ chunks = <<>>
          /\ chunks' = Rest(chunks, n)
          /\ downWire' = downWire \o Front(data, Accepted(data))
          /\ pending' = Rest(data, Accepted(data))
          /\ tunnelShut' = (tunnelShut \/ shut)
          /\ downFin' = (downFin \/ (shut /\ pcb = "open"))
  /\ pc' = "check"
  /\ UNCHANGED <<peerVars, upWire, received, tunnelEof, tunnelFailed, pcb,
                 writing, hostShut, reader, chunk, hostEof, hostError,
                 socketVars, hostVars>>

(* Mutant: the end of the host's stream is not waited for.                  *)
DrainedUp == tunnelEof /\ chunks = <<>> /\ pending = <<>>

(* Both directions have ended and been passed on.                           *)
Drained == tunnelEof /\ hostEof /\ chunks = <<>> /\ pending = <<>>

(* shutdown() of a socket that was reset throws.                            *)
CheckFails ==
  /\ pc = "check"
  /\ tunnelEof /\ ~hostShut /\ hostEnd = "aborted"
  /\ CloseBoth
  /\ UNCHANGED <<peerVars, upWire, received, tunnelEof, tunnelFailed, downWire,
                 writing, pending, tunnelShut, hostShut, readerVars, fromHost,
                 toHost, hostVars>>

Check ==
  /\ pc = "check"
  /\ ~(tunnelEof /\ ~hostShut /\ hostEnd = "aborted")
  /\ hostShut' = (hostShut \/ tunnelEof)
  /\ IF Drained
     THEN CloseBoth
     ELSE /\ pc' = "idle"
          /\ UNCHANGED <<pcb, downFin, socket>>
  /\ UNCHANGED <<peerVars, upWire, received, tunnelEof, tunnelFailed, downWire,
                 writing, pending, tunnelShut, readerVars, fromHost, toHost,
                 hostVars>>

ServiceNext ==
  \/ ServiceFailed \/ ServiceRead \/ HostWrite \/ HostWriteFails
  \/ HostWriteKills \/ TakeFails \/ Take \/ CheckFails \/ Check

Next ==
  \/ PeerNext \/ StreamNext \/ ReaderNext \/ HostNext
  \/ Accept \/ AcceptFails
  \/ ServiceNext

Spec == Init /\ [][Next]_vars

(* The event loop polls without pause and lwIP handles what has come in at  *)
(* every pump_for() (so strongly fair: it has no turn during service());    *)
(* the kernel delivers, the reader thread runs, and both applications read  *)
(* what they are sent.  Nobody has to write, shut down or break off.        *)
FairSpec ==
  /\ Spec
  /\ SF_vars(StreamNext) /\ WF_vars(ReaderNext) /\ WF_vars(ServiceNext)
  /\ WF_vars(Release) /\ WF_vars(PeerRead \/ PeerReadEof)
  /\ WF_vars(PeerGivesUp)
  /\ WF_vars(HostRead \/ HostReadEof)

-----------------------------------------------------------------------------
(* Every variable keeps its type and its buffer's capacity.                 *)
TypeOK ==
  /\ peerSent \in 0..MaxUp /\ peerFin \in BOOLEAN
  /\ peerGot \in Seq(Nat) /\ peerEnd \in Ends
  /\ upWire \in Seq(Nat) /\ received \in Seq(Nat)
  /\ tunnelEof \in BOOLEAN /\ tunnelFailed \in BOOLEAN
  /\ pcb \in {"open", "closed", "gone"}
  /\ downWire \in Seq(Nat) /\ downFin \in BOOLEAN
  /\ Len(downWire) <= SendBuffer
  /\ pc \in {"new", "idle", "write", "check", "done", "killed"}
  /\ writing \in Seq(Nat) /\ pending \in Seq(Nat)
  /\ tunnelShut \in BOOLEAN /\ hostShut \in BOOLEAN
  /\ reader \in {"none", "next", "recv", "holding", "done"}
  /\ chunk \in Seq(Nat) /\ chunks \in Seq(Nat)
  /\ hostEof \in BOOLEAN /\ hostError \in BOOLEAN
  /\ socket \in {"none", "open", "closed", "released"}
  /\ fromHost \in Seq(Nat) /\ toHost \in Seq(Nat)
  /\ Len(toHost) <= SocketBuffer
  /\ hostSent \in 0..MaxDown /\ hostFin \in BOOLEAN
  /\ hostGot \in Seq(Nat) /\ hostEnd \in Ends

(* Whatever the threads do, each direction is a byte pipe: in order, no     *)
(* byte lost or repeated, half-closes passed on only behind the last byte,  *)
(* and cut short only for an application whose counterpart broke off.       *)
Up == INSTANCE BytePipe WITH
        sent <- peerSent, closed <- peerFin, broken <- peerEnd = "aborted",
        got <- hostGot, end <- hostEnd
Down == INSTANCE BytePipe WITH
          sent <- hostSent, closed <- hostFin, broken <- hostEnd = "aborted",
          got <- peerGot, end <- peerEnd
UpIsPipe == Up!Spec
DownIsPipe == Down!Spec

(* The thread of a connection that both applications ended in order has     *)
(* left recv() before the socket is closed under it (host_tcp.hpp has no    *)
(* lock around the socket).                                                 *)
NoCloseUnderReader ==
  pc = "done" /\ peerEnd # "aborted" /\ hostEnd # "aborted" => reader = "done"

(* Once both applications have shut down, the connection is removed and     *)
(* both have read to the end, unless one of them breaks off.                *)
Teardown ==
  peerFin /\ hostFin /\ pc # "new"
    ~> \/ pc = "done" /\ peerEnd = "eof" /\ hostEnd = "eof"
       \/ peerEnd = "aborted" \/ hostEnd = "aborted"

(* An application learns that its counterpart broke off (CHANGELOG.md:      *)
(* "Proxied TCP connections finish their teardown"): the peer unless a      *)
(* write of write_all() raises SIGPIPE and ends the server, the host unless *)
(* the reader thread sits in recv() and so keeps the socket that service()  *)
(* has closed from being released.                                          *)
PeerLearns ==
  hostEnd = "aborted" /\ pc # "new" ~> peerEnd # "open" \/ pc = "killed"
HostLearns ==
  peerEnd = "aborted" /\ pc # "new"
    ~> hostEnd # "open" \/ (socket = "closed" /\ reader = "recv")

(* CHANGELOG.md: "Proxied TCP connections finish their teardown instead of  *)
(* losing data queued at close."  A peer that reads an orderly end of the   *)
(* stream would then have read all that the host application wrote, also    *)
(* when that application closed with something left unread.                 *)
NothingQueuedIsLost == peerEnd = "eof" => Len(peerGot) = hostSent
=============================================================================
