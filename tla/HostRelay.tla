------------------------------ MODULE HostRelay ------------------------------
(***************************************************************************)
(* One proxied connection between a TCP stream inside the tunnel and a TCP  *)
(* socket of this host: everything but the proxy's own event loop, which    *)
(* ServedTcpPorts adds.                                                     *)
(*                                                                          *)
(*   peer -> upWire -> received -> writing -> toHost -> host application    *)
(*   peer <- downWire <- pending <- chunks <- chunk <- fromHost <- host     *)
(*                                                                          *)
(* The peer is the application at the far end of the tunnel, with its TCP.  *)
(* LwipTcpStream (src/lwip_stack.cpp) is this end of the tunnel connection, *)
(* HostTcpStream (src/host_tcp.cpp) the socket, and a detached thread reads *)
(* the socket (start_host_reader, src/port_forward.cpp).  The bytes of each *)
(* direction are numbered 1, 2, ... in the order they are written.          *)
(***************************************************************************)
EXTENDS Naturals, Sequences

CONSTANTS
  MaxUp,        \* bound: bytes the peer writes
  MaxDown,      \* bound: bytes the host application writes
  SendBuffer,   \* lwIP's send buffer for the tunnel connection (tcp_sndbuf)
  SocketBuffer, \* the kernel's send buffer for the host socket
  Posix         \* whether the system raises SIGPIPE (not on Windows)

ASSUME BoundsAssumption == MaxUp \in Nat /\ MaxDown \in Nat
ASSUME BufferAssumption ==
  SendBuffer \in Nat \ {0} /\ SocketBuffer \in Nat \ {0}
ASSUME PosixAssumption == Posix \in BOOLEAN

VARIABLES
  \* the peer
  peerSent, peerFin, \* bytes written, write side shut down
  peerGot, peerEnd,  \* bytes read, how its read side ended
  \* LwipTcpStream and the tunnel below it
  upWire,            \* from the peer, not yet given to stream_recv
  received,          \* Impl::received
  tunnelEof, tunnelFailed, \* Impl::is_eof, Impl::is_failed
  pcb,               \* "open", "closed" by close(), or "gone" with the peer
  downWire, downFin, \* written but not read by the peer, FIN behind it
  \* the event loop's Connection
  pc,                \* where the loop is with this connection
  writing,           \* what write_all has still to write
  pending,           \* pending_to_tunnel from pending_offset on
  tunnelShut, hostShut, \* tunnel_write_shutdown, host_write_shutdown
  \* HostReadState and its thread
  reader, chunk,     \* where the thread is, what recv gave it
  chunks, hostEof, hostError,
  \* the socket and the host application behind it
  socket,            \* "open", "closed" by close(), "released" by the kernel
  fromHost, toHost,  \* inside the kernel
  hostSent, hostFin, hostGot, hostEnd

peerVars == <<peerSent, peerFin, peerGot, peerEnd>>
tunnelVars == <<upWire, received, tunnelEof, tunnelFailed, pcb, downWire,
                downFin>>
loopVars == <<pc, writing, pending, tunnelShut, hostShut>>
readerVars == <<reader, chunk, chunks, hostEof, hostError>>
socketVars == <<socket, fromHost, toHost>>
hostVars == <<hostSent, hostFin, hostGot, hostEnd>>
vars == <<peerVars, tunnelVars, loopVars, readerVars, socketVars, hostVars>>

(* How a stream ends for the application reading it: "aborted" is its own   *)
(* doing (a crash, or a close with data unread).                            *)
Ends == {"open", "eof", "reset", "aborted"}

(* The event loop is inside pump_for(): only there do lwIP's callbacks run. *)
Pumping == pc \in {"new", "idle", "done"}

(* The first n elements of s, and the rest.                                 *)
Front(s, n) == SubSeq(s, 1, n)
Rest(s, n) == SubSeq(s, n + 1, Len(s))

Smaller(m, n) == IF m < n THEN m ELSE n

(* A connection that lwIP has accepted and the proxy has not.               *)
Init ==
  /\ peerSent = 0 /\ peerFin = FALSE /\ peerGot = <<>> /\ peerEnd = "open"
  /\ upWire = <<>> /\ received = <<>>
  /\ tunnelEof = FALSE /\ tunnelFailed = FALSE /\ pcb = "open"
  /\ downWire = <<>> /\ downFin = FALSE
  /\ pc = "new" /\ writing = <<>> /\ pending = <<>>
  /\ tunnelShut = FALSE /\ hostShut = FALSE
  /\ reader = "none" /\ chunk = <<>> /\ chunks = <<>>
  /\ hostEof = FALSE /\ hostError = FALSE
  /\ socket = "none" /\ fromHost = <<>> /\ toHost = <<>>
  /\ hostSent = 0 /\ hostFin = FALSE /\ hostGot = <<>> /\ hostEnd = "open"

(***************************************************************************)
(* The peer and its TCP.                                                    *)
(***************************************************************************)
PeerSend ==
  /\ peerEnd \in {"open", "eof"} /\ ~peerFin
  /\ peerSent < MaxUp
  /\ peerSent' = peerSent + 1
  /\ upWire' = IF pcb = "gone" /\ pc # "killed"
               THEN upWire ELSE Append(upWire, peerSent')
  /\ UNCHANGED <<peerFin, peerGot, peerEnd, received, tunnelEof, tunnelFailed,
                 pcb, downWire, downFin, loopVars, readerVars, socketVars,
                 hostVars>>

PeerShut ==
  /\ peerEnd \in {"open", "eof"} /\ ~peerFin
  /\ peerFin' = TRUE
  /\ UNCHANGED <<peerSent, peerGot, peerEnd, tunnelVars, loopVars, readerVars,
                 socketVars, hostVars>>

PeerRead ==
  /\ peerEnd = "open"
  /\ downWire # <<>>
  /\ peerGot' = Append(peerGot, Head(downWire))
  /\ downWire' = Tail(downWire)
  /\ UNCHANGED <<peerSent, peerFin, peerEnd, upWire, received, tunnelEof,
                 tunnelFailed, pcb, downFin, loopVars, readerVars, socketVars,
                 hostVars>>

PeerReadEof ==
  /\ peerEnd = "open"
  /\ downWire = <<>> /\ downFin
  /\ peerEnd' = "eof"
  /\ UNCHANGED <<peerSent, peerFin, peerGot, tunnelVars, loopVars, readerVars,
                 socketVars, hostVars>>

(* The peer resets the connection, or is gone for so long that lwIP gives   *)
(* the connection up.                                                       *)
PeerAbort ==
  /\ peerEnd \in {"open", "eof"}
  /\ peerEnd' = "aborted"
  /\ UNCHANGED <<peerSent, peerFin, peerGot, tunnelVars, loopVars, readerVars,
                 socketVars, hostVars>>

(* With the process at this end killed nobody answers: the peer's TCP gives *)
(* up if a byte or its FIN is not acknowledged, and waits for ever if all   *)
(* were.                                                                    *)
PeerGivesUp ==
  /\ pc = "killed"
  /\ peerEnd = "open"
  /\ upWire # <<>> \/ (peerFin /\ ~tunnelEof)
  /\ peerEnd' = "reset"
  /\ UNCHANGED <<peerSent, peerFin, peerGot, tunnelVars, loopVars, readerVars,
                 socketVars, hostVars>>

(***************************************************************************)
(* LwipTcpStream.                                                           *)
(***************************************************************************)

(* stream_recv() takes a segment, and opens the window again at once.       *)
StreamRecv ==
  /\ Pumping /\ pcb = "open"
  /\ upWire # <<>>
  /\ received' = Append(received, Head(upWire))
  /\ upWire' = Tail(upWire)
  /\ UNCHANGED <<peerVars, tunnelEof, tunnelFailed, pcb, downWire, downFin,
                 loopVars, readerVars, socketVars, hostVars>>

(* Mutant: the end is taken for seen before the last data.                  *)
StreamRecvEofEarly ==
  /\ Pumping /\ pcb = "open"
  /\ peerFin /\ ~tunnelEof
  /\ tunnelEof' = TRUE
  /\ UNCHANGED <<peerVars, upWire, received, tunnelFailed, pcb, downWire,
                 downFin, loopVars, readerVars, socketVars, hostVars>>

(* stream_recv() without data: the peer's FIN.                              *)
StreamRecvEof ==
  /\ Pumping /\ pcb = "open"
  /\ upWire = <<>> /\ peerFin /\ ~tunnelEof
  /\ tunnelEof' = TRUE
  /\ UNCHANGED <<peerVars, upWire, received, tunnelFailed, pcb, downWire,
                 downFin, loopVars, readerVars, socketVars, hostVars>>

(* stream_error(): no callback is left once close() has been called.        *)
StreamError ==
  /\ Pumping /\ pcb # "gone"
  /\ peerEnd = "aborted"
  /\ tunnelFailed' = (pcb = "open")
  /\ pcb' = "gone"
  /\ upWire' = <<>> /\ downWire' = <<>>
  /\ UNCHANGED <<peerVars, received, tunnelEof, downFin, loopVars, readerVars,
                 socketVars, hostVars>>

(* After close() lwIP answers data with a reset.                            *)
ClosedPcbRecv ==
  /\ Pumping /\ pcb = "closed"
  /\ upWire # <<>>
  /\ pcb' = "gone"
  /\ upWire' = <<>> /\ downWire' = <<>>
  /\ peerEnd' = IF peerEnd = "open" THEN "reset" ELSE peerEnd
  /\ UNCHANGED <<peerSent, peerFin, peerGot, received, tunnelEof, tunnelFailed,
                 downFin, loopVars, readerVars, socketVars, hostVars>>

(***************************************************************************)
(* The thread of start_host_reader().                                       *)
(***************************************************************************)

(* read_some() on a socket that close() has invalidated throws.             *)
ReaderCalls ==
  /\ reader = "next"
  /\ reader' = IF socket = "open" THEN "recv" ELSE "done"
  /\ hostEof' = (hostEof \/ socket # "open")
  /\ hostError' = (hostError \/ socket # "open")
  /\ UNCHANGED <<peerVars, tunnelVars, loopVars, chunk, chunks, socketVars,
                 hostVars>>

ReaderReceives ==
  /\ reader = "recv"
  /\ \E n \in 1..Len(fromHost) :
       /\ chunk' = Front(fromHost, n)
       /\ fromHost' = Rest(fromHost, n)
  /\ reader' = "holding"
  /\ UNCHANGED <<peerVars, tunnelVars, loopVars, chunks, hostEof, hostError,
                 socket, toHost, hostVars>>

ReaderPublishes ==
  /\ reader = "holding"
  /\ chunks' = chunks \o chunk
  /\ chunk' = <<>>
  /\ reader' = "next"
  /\ UNCHANGED <<peerVars, tunnelVars, loopVars, hostEof, hostError,
                 socketVars, hostVars>>

(* Mutant: the thread ends without saying so.                               *)
ReaderEofSilent ==
  /\ reader = "recv"
  /\ fromHost = <<>> /\ hostFin
  /\ reader' = "done"
  /\ UNCHANGED <<peerVars, tunnelVars, loopVars, chunk, chunks, hostEof,
                 hostError, socketVars, hostVars>>

ReaderEof ==
  /\ reader = "recv"
  /\ fromHost = <<>> /\ hostFin
  /\ reader' = "done"
  /\ hostEof' = TRUE
  /\ UNCHANGED <<peerVars, tunnelVars, loopVars, chunk, chunks, hostError,
                 socketVars, hostVars>>

(* Mutant: the exception ends the thread without being reported.            *)
ReaderFailsSilent ==
  /\ reader = "recv"
  /\ fromHost = <<>> /\ ~hostFin /\ hostEnd = "aborted"
  /\ reader' = "done"
  /\ UNCHANGED <<peerVars, tunnelVars, loopVars, chunk, chunks, hostEof,
                 hostError, socketVars, hostVars>>

ReaderFails ==
  /\ reader = "recv"
  /\ fromHost = <<>> /\ ~hostFin /\ hostEnd = "aborted"
  /\ reader' = "done"
  /\ hostEof' = TRUE /\ hostError' = TRUE
  /\ UNCHANGED <<peerVars, tunnelVars, loopVars, chunk, chunks, socketVars,
                 hostVars>>

(***************************************************************************)
(* The kernel and the host application.                                     *)
(***************************************************************************)

(* A closed socket lives on while a thread is inside recv() on it.          *)
Release ==
  /\ socket = "closed" /\ reader # "recv"
  /\ socket' = "released"
  /\ fromHost' = <<>>
  /\ toHost' = IF fromHost = <<>> THEN toHost ELSE <<>>
  /\ hostEnd' = IF fromHost # <<>> /\ hostEnd = "open" THEN "reset"
                ELSE hostEnd
  /\ UNCHANGED <<peerVars, tunnelVars, loopVars, readerVars, hostSent, hostFin,
                 hostGot>>

HostSend ==
  /\ socket # "none"
  /\ hostEnd \in {"open", "eof"} /\ ~hostFin
  /\ hostSent < MaxDown
  /\ hostSent' = hostSent + 1
  /\ IF socket = "released"
     THEN /\ hostEnd' = IF hostEnd = "open" THEN "reset" ELSE hostEnd
          /\ UNCHANGED fromHost
     ELSE /\ fromHost' = Append(fromHost, hostSent')
          /\ UNCHANGED hostEnd
  /\ UNCHANGED <<peerVars, tunnelVars, loopVars, readerVars, socket, toHost,
                 hostFin, hostGot>>

HostShut ==
  /\ socket # "none"
  /\ hostEnd \in {"open", "eof"} /\ ~hostFin
  /\ hostFin' = TRUE
  /\ UNCHANGED <<peerVars, tunnelVars, loopVars, readerVars, socketVars,
                 hostSent, hostGot, hostEnd>>

HostRead ==
  /\ hostEnd = "open"
  /\ toHost # <<>>
  /\ hostGot' = Append(hostGot, Head(toHost))
  /\ toHost' = Tail(toHost)
  /\ UNCHANGED <<peerVars, tunnelVars, loopVars, readerVars, socket, fromHost,
                 hostSent, hostFin, hostEnd>>

HostReadEof ==
  /\ hostEnd = "open"
  /\ toHost = <<>> /\ (hostShut \/ socket = "released")
  /\ hostEnd' = "eof"
  /\ UNCHANGED <<peerVars, tunnelVars, loopVars, readerVars, socketVars,
                 hostSent, hostFin, hostGot>>

(* What it had written before stays readable.                               *)
HostAbort ==
  /\ socket # "none"
  /\ hostEnd \in {"open", "eof"}
  /\ hostEnd' = "aborted"
  /\ toHost' = <<>>
  /\ UNCHANGED <<peerVars, tunnelVars, loopVars, readerVars, socket, fromHost,
                 hostSent, hostFin, hostGot>>

PeerNext ==
  \/ PeerSend \/ PeerShut \/ PeerRead \/ PeerReadEof \/ PeerAbort
  \/ PeerGivesUp
StreamNext == StreamRecv \/ StreamRecvEof \/ StreamError \/ ClosedPcbRecv
ReaderNext ==
  ReaderCalls \/ ReaderReceives \/ ReaderPublishes \/ ReaderEof \/ ReaderFails
HostNext ==
  Release \/ HostSend \/ HostShut \/ HostRead \/ HostReadEof \/ HostAbort
=============================================================================
