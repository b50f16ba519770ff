------------------------------ MODULE SocksProxy ------------------------------
(***************************************************************************)
(* SocksProxy (src/socks_command.cpp): `tailcat socks`.  A detached thread  *)
(* per accepted connection reads the SOCKS5 request and queues it; the event *)
(* loop dials, replies, and relays as LocalTcpForwarder does.  On the same  *)
(* socket the request comes before the application's numbered bytes, and    *)
(* the proxy's replies before the service's.                                *)
(***************************************************************************)
EXTENDS DialledRelay

CONSTANT Requests \* the sets of faults an application's request may have

(* The checks of begin_handshake(), in its order: the part of the request   *)
(* after which each is made, and what the thread replies if it fails.       *)
Checks == <<
  [part |-> 1, fault |-> "version", reply |-> "none"],
  [part |-> 2, fault |-> "methods", reply |-> "no method"],
  [part |-> 3, fault |-> "header", reply |-> "none"],
  [part |-> 3, fault |-> "command", reply |-> "bad command"],
  [part |-> 3, fault |-> "address type", reply |-> "bad address type"],
  [part |-> 5, fault |-> "port", reply |-> "failure"],
  [part |-> 5, fault |-> "host", reply |-> "unreachable"]>>

(* Greeting, methods, header, address, port.                                *)
Parts == 5

ASSUME RequestsAssumption ==
  Requests \subseteq SUBSET {Checks[i].fault : i \in DOMAIN Checks}

VARIABLES
  faults,    \* what is wrong with this request
  asked,     \* parts of the request that the application has written
  parsed,    \* parts the handshake thread has read
  handshake, \* "none", "reading", "ready", "adopted", "over"
  replied,   \* Connection::replied
  replies,   \* written to the socket, not yet read by the application
  answers    \* read by the application

socksVars == <<faults, asked, parsed, handshake, replied, replies, answers>>
proxyVars == <<allVars, socksVars>>

SocksInit ==
  /\ DialledInit
  /\ faults \in Requests
  /\ asked = 0 /\ parsed = 0 /\ handshake = "none" /\ replied = FALSE
  /\ replies = <<>> /\ answers = <<>>

Served == INSTANCE ServedTcpPorts

(***************************************************************************)
(* The application: its request before its data, the replies before the     *)
(* service's data.                                                          *)
(***************************************************************************)
Ask ==
  /\ socket # "none" /\ hostEnd \in {"open", "eof"} /\ ~hostFin
  /\ asked < Parts
  /\ asked' = asked + 1
  /\ UNCHANGED <<allVars, faults, parsed, handshake, replied, replies, answers>>

HostReadReply ==
  /\ hostEnd = "open" /\ replies # <<>>
  /\ answers' = Append(answers, Head(replies))
  /\ replies' = Tail(replies)
  /\ UNCHANGED <<allVars, faults, asked, parsed, handshake, replied>>

(* A socket closed with input unread is reset, also when part of the        *)
(* request is what is unread; the reset may overtake the reply.             *)
SocksRelease ==
  /\ socket = "closed" /\ reader # "recv"
  /\ socket' = "released" /\ fromHost' = <<>>
  /\ IF fromHost # <<>> \/ asked > parsed
     THEN /\ toHost' = <<>> /\ replies' \in {<<>>, replies}
          /\ hostEnd' = IF hostEnd = "open" /\ replies' = <<>> THEN "reset"
                        ELSE hostEnd
     ELSE UNCHANGED <<toHost, replies, hostEnd>>
  /\ UNCHANGED <<peerVars, tunnelVars, loopVars, readerVars, hostSent, hostFin,
                 hostGot, dialVars, faults, asked, parsed, handshake, replied,
                 answers>>

ApplicationReads ==
  \/ HostReadReply
  \/ /\ replies = <<>> /\ (HostRead \/ HostReadEof)
     /\ UNCHANGED <<dialVars, socksVars>>

Application ==
  \/ Ask \/ ApplicationReads
  \/ HostConnects /\ UNCHANGED socksVars
  \/ /\ (asked = Parts /\ HostSend) \/ HostShut \/ HostAbort
     /\ UNCHANGED <<dialVars, socksVars>>

(***************************************************************************)
(* The handshake thread.                                                    *)
(***************************************************************************)
(* accept_new() starts it.                                                  *)
BeginHandshake ==
  /\ pc = "new" /\ accepted = "queued" /\ acceptor = "accepting"
  /\ accepted' = "taken"
  /\ handshake' = "reading"
  /\ UNCHANGED <<vars, acceptor, dial, faults, asked, parsed, replied, replies,
                 answers>>

Reading == handshake = "reading" /\ pc # "killed"

(* The checks that fail once so many parts are read, and the first of them. *)
Failed(part) ==
  {i \in DOMAIN Checks : Checks[i].part = part /\ Checks[i].fault \in faults}
FirstFailed(part) ==
  CHOOSE i \in Failed(part) : \A j \in Failed(part) : i <= j

(* What is written after so many parts: the first failure, or the method.   *)
Response(part) ==
  LET reply == IF Failed(part) # {} THEN Checks[FirstFailed(part)].reply
               ELSE IF part = 2 THEN "method" ELSE "none"
  IN IF reply = "none" THEN <<>> ELSE <<reply>>

(* One read_exact() and the checks after it.                                *)
HandshakeStep ==
  /\ Reading /\ asked > parsed
  /\ hostEnd # "aborted" \/ Response(parsed + 1) = <<>>
  /\ parsed' = parsed + 1
  /\ replies' = replies \o Response(parsed')
  /\ IF Failed(parsed') # {}
     THEN handshake' = "over" /\ socket' = "closed"
     ELSE /\ handshake' = IF parsed' = Parts THEN "ready" ELSE "reading"
          /\ UNCHANGED socket
  /\ UNCHANGED <<peerVars, tunnelVars, loopVars, readerVars, fromHost, toHost,
                 hostVars, dialVars, faults, asked, replied, answers>>

(* The application ends or breaks off first: read_exact() or write_all()    *)
(* throws, and the thread closes the socket.                                *)
HandshakeFails ==
  /\ Reading
  /\ (asked = parsed /\ hostFin) \/ hostEnd = "aborted"
  /\ handshake' = "over" /\ socket' = "closed"
  /\ UNCHANGED <<peerVars, tunnelVars, loopVars, readerVars, fromHost, toHost,
                 hostVars, dialVars, faults, asked, parsed, replied, replies,
                 answers>>

(***************************************************************************)
(* The event loop: adopt_handshakes() and service().                        *)
(***************************************************************************)
Adopt ==
  /\ handshake = "ready" /\ pc = "new"
  /\ handshake' = "adopted"
  /\ dial' = "connecting" /\ pc' = "idle"
  /\ UNCHANGED <<peerVars, tunnelVars, writing, pending, tunnelShut, hostShut,
                 readerVars, socketVars, hostVars, acceptor, accepted, faults,
                 asked, parsed, replied, replies, answers>>

(* Mutant: the socket is dropped from the queue, but never closed.          *)
AdoptFailsOpen ==
  /\ handshake = "ready" /\ pc = "new"
  /\ handshake' = "over"
  /\ UNCHANGED <<allVars, faults, asked, parsed, replied, replies, answers>>

(* dial() throws.  Whether the reply can be written does not matter.        *)
AdoptFails ==
  /\ handshake = "ready" /\ pc = "new"
  /\ handshake' = "over" /\ socket' = "closed"
  /\ replies' = IF hostEnd = "aborted" THEN replies
                ELSE Append(replies, "failure")
  /\ UNCHANGED <<peerVars, tunnelVars, loopVars, readerVars, fromHost, toHost,
                 hostVars, dialVars, faults, asked, parsed, replied, answers>>

(* The first service() of a connected tunnel; it goes on to relay.          *)
ReplySuccess ==
  /\ pc = "idle" /\ ~tunnelFailed /\ dial = "connected" /\ ~replied
  /\ hostEnd # "aborted"
  /\ replies' = Append(replies, "success")
  /\ replied' = TRUE
  /\ reader' = "next"
  /\ pc' = "write"
  /\ writing' = received /\ received' = <<>>
  /\ UNCHANGED <<peerVars, upWire, tunnelEof, tunnelFailed, pcb, downWire,
                 downFin, pending, tunnelShut, hostShut, chunk, chunks, hostEof,
                 hostError, socketVars, hostVars, dialVars, faults, asked,
                 parsed, handshake, answers>>

(* Mutant: a tunnel that fails later is reported as a refused one.          *)
TunnelFailedTwice ==
  /\ Served!ServiceFailed /\ UNCHANGED dialVars
  /\ replies' = IF hostEnd = "aborted" THEN replies ELSE Append(replies, "refused")
  /\ UNCHANGED <<faults, asked, parsed, handshake, replied, answers>>

(* A failed tunnel: "refused" unless the application has its reply.         *)
TunnelFailed ==
  /\ Served!ServiceFailed /\ UNCHANGED dialVars
  /\ replies' = IF replied \/ hostEnd = "aborted" THEN replies
                ELSE Append(replies, "refused")
  /\ UNCHANGED <<faults, asked, parsed, handshake, replied, answers>>

(* A reply to an application that has broken off throws, or raises SIGPIPE. *)
ReplyFails ==
  /\ pc = "idle" /\ ~tunnelFailed /\ dial = "connected" /\ ~replied
  /\ hostEnd = "aborted" /\ ~(Posix /\ hostFin)
  /\ Served!CloseBoth
  /\ UNCHANGED <<peerVars, upWire, received, tunnelEof, tunnelFailed, downWire,
                 writing, pending, tunnelShut, hostShut, readerVars, fromHost,
                 toHost, hostVars, dialVars, socksVars>>

Replying ==
  \/ Reading /\ asked > parsed /\ Response(parsed + 1) # <<>>
  \/ handshake = "ready" /\ pc = "new"
  \/ pc = "idle" /\ ~replied /\ (tunnelFailed \/ dial = "connected")

ReplyKills ==
  /\ Replying /\ hostEnd = "aborted" /\ Posix
  /\ pc' = "killed" /\ acceptor' = "gone"
  /\ pcb' = "gone" /\ downWire' = <<>> /\ downFin' = FALSE
  /\ socket' = "released"
  /\ UNCHANGED <<peerVars, upWire, received, tunnelEof, tunnelFailed, writing,
                 pending, tunnelShut, hostShut, readerVars, fromHost, toHost,
                 hostVars, accepted, dial, socksVars>>

(* Once the application has its reply the connection is relayed as          *)
(* ServedTcpPorts and LocalTcpForwarder do it.                              *)
Relay ==
  /\ replied /\ ~(pc = "idle" /\ tunnelFailed)
  /\ Served!ServiceNext
  /\ UNCHANGED <<dialVars, socksVars>>

HostReader == ReaderNext /\ UNCHANGED <<dialVars, socksVars>>
Stream == StreamNext /\ UNCHANGED <<dialVars, socksVars>>
Service ==
  ReplySuccess \/ ReplyFails \/ ReplyKills \/ TunnelFailed \/ Relay

Next ==
  \/ Application
  \/ SocksRelease
  \/ dial = "connected" /\ PeerNext /\ UNCHANGED <<dialVars, socksVars>>
  \/ (AcceptorNext \/ DialNext \/ Exit) /\ UNCHANGED socksVars
  \/ BeginHandshake \/ HandshakeStep \/ HandshakeFails
  \/ Adopt \/ AdoptFails \/ Service
  \/ HostReader \/ Stream

SocksSpec == SocksInit /\ [][Next]_proxyVars

(* As for LocalTcpForwarder, with the handshake thread.                     *)
FairSpec ==
  /\ SocksSpec
  /\ WF_proxyVars(AcceptorAccepts /\ UNCHANGED socksVars)
  /\ WF_proxyVars((DialNext \/ Exit) /\ UNCHANGED socksVars)
  /\ WF_proxyVars(BeginHandshake \/ HandshakeStep \/ HandshakeFails)
  /\ WF_proxyVars(Adopt \/ AdoptFails)
  /\ SF_proxyVars(Stream)
  /\ WF_proxyVars(Service) /\ WF_proxyVars(HostReader)
  /\ WF_proxyVars(SocksRelease) /\ WF_proxyVars(ApplicationReads)
  /\ WF_proxyVars((PeerRead \/ PeerReadEof \/ PeerGivesUp)
                    /\ UNCHANGED <<dialVars, socksVars>>)

-----------------------------------------------------------------------------
(* What the application sees, in order, before any byte of the service.     *)
Replies == answers \o replies
Refusals == {"failure", "bad command", "bad address type", "unreachable",
             "refused"}

(* Whichever of the handshake thread, dial(), the tunnel's failure and its  *)
(* connection comes first, there is one reply to the request, behind the    *)
(* reply to the greeting; no byte of the service comes before "success",    *)
(* and "success" means a connected tunnel and a request without a fault.  A *)
(* refused request is told the first thing that is wrong with it, in the    *)
(* order of begin_handshake(), whatever else is wrong.                      *)
OneReply ==
  LET told == {Replies[i] : i \in DOMAIN Replies}
  IN /\ \/ Replies \in {<<>>, <<"method">>, <<"no method">>}
        \/ \E r \in Refusals \cup {"success"} : Replies = <<"method", r>>
     /\ toHost \o hostGot # <<>> => "success" \in told
     /\ "success" \in told => faults = {} /\ dial = "connected"
     /\ \A c \in {Checks[j] : j \in DOMAIN Checks} :
          faults # {} /\ c.reply \in told =>
            c.fault \in faults /\ \A j \in DOMAIN Checks :
              Checks[j].fault \in faults => \E k \in 1..j : Checks[k] = c

(* What an application writes behind its request reaches the service, and   *)
(* the service's bytes the application, as through a pipe, although three   *)
(* threads take turns at the socket.                                        *)
Up == INSTANCE BytePipe WITH
        sent <- peerSent, closed <- peerFin,
        broken <- peerEnd = "aborted" \/ pc = "killed" \/ handshake = "over",
        got <- hostGot, end <- hostEnd
Down == INSTANCE BytePipe WITH
          sent <- hostSent, closed <- hostFin,
          broken <- hostEnd = "aborted" \/ pc = "killed",
          got <- peerGot, end <- peerEnd
BytesArePiped == Up!Spec /\ Down!Spec

(* An application that has written its request gets a reply to it, or its   *)
(* connection ends (adopt_handshakes(), service()).                         *)
Answered ==
  asked = Parts /\ ~hostFin
    ~> Len(answers) = 2 \/ answers = <<"no method">> \/ hostEnd # "open"

(* A proxied connection that both sides have shut down is removed with both *)
(* streams read to the end, unless someone breaks off or the proxy ends.    *)
Teardown ==
  peerFin /\ hostFin
    ~> \/ pc = "done" /\ peerEnd = "eof" /\ hostEnd = "eof"
       \/ peerEnd = "aborted" \/ hostEnd = "aborted" \/ pc = "killed"
=============================================================================
