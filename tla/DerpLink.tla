------------------------------- MODULE DerpLink -------------------------------
(***************************************************************************)
(* DerpHttpClient (src/derp_http.cpp, src/derp.cpp): one connection to a    *)
(* DERP relay, its framing and its handshake, and the loops that call it    *)
(* (receive_packet_for, receive_one_for, handle_frame), which answer pings  *)
(* and pass packets on.  The relay is external.                             *)
(*                                                                          *)
(* A frame is <<type, id, size>>.  On the wire it is a sequence of pieces   *)
(* <<frame, i>>: HeaderSize pieces that tell its size, then its payload.    *)
(***************************************************************************)
EXTENDS Naturals, Sequences, FiniteSets

CONSTANTS
  Relays,     \* what relays may send, each a sequence of frames
  HeaderSize, \* pieces of a header (5 bytes)
  MaxFrame,   \* the safety limit for a payload (10 MiB)
  MaxSent,    \* bound: packets the caller sends
  WireRoom,   \* pieces the connection holds in one direction
  Faults      \* whether connections break

(* DerpFrameType, the HTTP request, and a frame that cannot be parsed.      *)
FrameType ==
  {"ServerKey", "ClientInfo", "ServerInfo", "SendPacket", "RecvPacket",
   "KeepAlive", "NotePreferred", "PeerGone", "PeerPresent", "ForwardPacket",
   "WatchConns", "ClosePeer", "Ping", "Pong", "Health", "Restarting",
   "Request", "malformed"}
Frame == FrameType \X Nat \X Nat

ASSUME DerpAssumption ==
  /\ Relays \subseteq Seq(Frame)
  /\ {HeaderSize, WireRoom} \subseteq Nat \ {0}
  /\ {MaxFrame, MaxSent} \subseteq Nat /\ Faults \in BOOLEAN

VARIABLES
  relay,       \* the relay's frames, ServerKey and ServerInfo among them
  relaySent,   \* those it has begun to send
  relayOut,    \* pieces it still has to write
  toClient,    \* pieces on the wire
  buffer,      \* receive_buffer
  got,         \* frames that take_buffered_frame() has returned
  phase,       \* the client: "new", "greeting", "info", "connected", "closed"
  receiving,   \* the caller is in receive_for()
  out,         \* send_all(): pieces still to be sent
  clientSent,  \* frames that the client has begun to send
  toRelay,     \* pieces on the wire
  relayBuffer, \* pieces the relay has read
  relayGot,    \* frames the relay has decoded, the HTTP request among them
  wire         \* "up" or "cut"

relayVars == <<relay, relaySent, relayOut, relayBuffer, relayGot>>
wireVars == <<toClient, toRelay, wire>>
clientVars == <<buffer, got, phase, receiving, out, clientSent>>
vars == <<relayVars, wireVars, clientVars>>

Init ==
  /\ relay \in Relays /\ relaySent = <<>> /\ relayOut = <<>>
  /\ relayBuffer = <<>> /\ relayGot = <<>>
  /\ toClient = <<>> /\ toRelay = <<>> /\ wire = "up"
  /\ buffer = <<>> /\ got = <<>> /\ phase = "new" /\ receiving = FALSE
  /\ out = <<>> /\ clientSent = <<>>

(* encode_derp_frame().                                                     *)
Encode(f) == [i \in 1..HeaderSize + f[3] |-> <<f, i>>]

(* The size that the first pieces tell, if they are a header's.             *)
IsHeader(pieces) ==
  \A i \in 1..HeaderSize : pieces[i] = <<pieces[1][1], i>>
SizeTold(pieces) == pieces[1][1][3]

HasFrame(pieces) ==
  /\ Len(pieces) >= HeaderSize
  /\ IsHeader(pieces) /\ SizeTold(pieces) <= MaxFrame
  /\ Len(pieces) >= HeaderSize + SizeTold(pieces)

(* A size over the limit, or no size at all.                                *)
Unreasonable(pieces) ==
  Len(pieces) >= HeaderSize /\ ~(IsHeader(pieces) /\ SizeTold(pieces) <= MaxFrame)

FirstFrame(pieces) == pieces[1][1]
AfterFrame(pieces) ==
  SubSeq(pieces, HeaderSize + SizeTold(pieces) + 1, Len(pieces))

(***************************************************************************)
(* The relay: it reads the request, sends its key, reads who the client is, *)
(* and sends what else it has; it answers nothing later.                    *)
(***************************************************************************)
(* How many of its frames it may send by now.                               *)
Due ==
  IF relayGot = <<>> THEN 0 ELSE IF Len(relayGot) = 1 THEN 1 ELSE Len(relay)

RelaySends ==
  /\ relayOut = <<>> /\ Len(relaySent) < Due /\ Len(relaySent) < Len(relay)
  /\ relaySent' = Append(relaySent, relay[Len(relaySent) + 1])
  /\ relayOut' = Encode(relay[Len(relaySent) + 1])
  /\ UNCHANGED <<relay, relayBuffer, relayGot, wireVars, clientVars>>

RelayWrites ==
  /\ wire = "up" /\ relayOut # <<>> /\ Len(toClient) < WireRoom
  /\ toClient' = Append(toClient, Head(relayOut))
  /\ relayOut' = Tail(relayOut)
  /\ UNCHANGED <<relay, relaySent, relayBuffer, relayGot, toRelay, wire,
                 clientVars>>

RelayReads ==
  /\ toRelay # <<>>
  /\ LET pieces == Append(relayBuffer, Head(toRelay))
     IN IF HasFrame(pieces)
        THEN /\ relayGot' = Append(relayGot, FirstFrame(pieces))
             /\ relayBuffer' = AfterFrame(pieces)
        ELSE relayBuffer' = pieces /\ UNCHANGED relayGot
  /\ toRelay' = Tail(toRelay)
  /\ UNCHANGED <<relay, relaySent, relayOut, toClient, wire, clientVars>>

WireBreaks ==
  /\ Faults /\ wire = "up" /\ phase # "new"
  /\ wire' = "cut"
  /\ toClient' \in {SubSeq(toClient, 1, n) : n \in 0..Len(toClient)}
  /\ toRelay' \in {SubSeq(toRelay, 1, n) : n \in 0..Len(toRelay)}
  /\ UNCHANGED <<relayVars, clientVars>>

(***************************************************************************)
(* send_all() and receive_some().                                           *)
(***************************************************************************)
Begin(f) == clientSent' = Append(clientSent, f) /\ out' = Encode(f)

(* Part of it, as much as the connection takes.                             *)
SendSome ==
  /\ wire = "up" /\ phase # "closed" /\ out # <<>>
  /\ \E n \in 1..Len(out) :
       /\ Len(toRelay) + n <= WireRoom
       /\ toRelay' = toRelay \o SubSeq(out, 1, n)
       /\ out' = SubSeq(out, n + 1, Len(out))
  /\ UNCHANGED <<relayVars, toClient, wire, buffer, got, phase, receiving,
                 clientSent>>

(* An exception in the middle of a frame.  rendezvous_client() takes it for *)
(* a lost packet and goes on; everybody else gives up.                      *)
SendFails ==
  /\ wire = "cut" /\ phase # "closed" /\ out # <<>>
  /\ out' = <<>>
  /\ phase' \in IF phase = "connected" THEN {phase, "closed"} ELSE {"closed"}
  /\ buffer' = IF phase' = "closed" THEN <<>> ELSE buffer
  /\ receiving' = FALSE
  /\ UNCHANGED <<relayVars, wireVars, got, clientSent>>

Reading ==
  out = <<>> /\ (phase \in {"greeting", "info"} \/ (phase = "connected" /\ receiving))

(* take_buffered_frame() comes first.                                       *)
ReceiveSome ==
  /\ Reading /\ ~HasFrame(buffer) /\ ~Unreasonable(buffer)
  /\ \E n \in 1..Len(toClient) :
       /\ buffer' = buffer \o SubSeq(toClient, 1, n)
       /\ toClient' = SubSeq(toClient, n + 1, Len(toClient))
  /\ UNCHANGED <<relayVars, toRelay, wire, got, phase, receiving, out, clientSent>>

(* The end of the connection, a frame over the limit: the caller gives up.  *)
ReceiveFails ==
  /\ Reading /\ ~HasFrame(buffer)
  /\ Unreasonable(buffer) \/ (wire = "cut" /\ toClient = <<>>)
  /\ phase' = "closed" /\ receiving' = FALSE /\ buffer' = <<>>
  /\ UNCHANGED <<relayVars, wireVars, got, out, clientSent>>

(***************************************************************************)
(* connect().                                                               *)
(***************************************************************************)
Request == <<"Request", 0, 1>>
ClientInfo == <<"ClientInfo", 0, 1>>

Connect ==
  /\ phase = "new"
  /\ phase' = "greeting" /\ Begin(Request)
  /\ UNCHANGED <<relayVars, wireVars, buffer, got, receiving>>

ConnectFails ==
  /\ Faults /\ phase = "new"
  /\ phase' = "closed"
  /\ UNCHANGED <<relayVars, wireVars, buffer, got, receiving, out, clientSent>>

(* Mutant: a frame is taken only once something follows it.                 *)
TakeBufferedFrameLate ==
  /\ HasFrame(buffer) /\ AfterFrame(buffer) # <<>>
  /\ got' = Append(got, FirstFrame(buffer))
  /\ buffer' = AfterFrame(buffer)

(* take_buffered_frame().                                                   *)
TakeBufferedFrame ==
  /\ HasFrame(buffer)
  /\ got' = Append(got, FirstFrame(buffer))
  /\ buffer' = AfterFrame(buffer)

Type == FirstFrame(buffer)[1]

ReadServerKey ==
  /\ Reading /\ phase = "greeting" /\ TakeBufferedFrame /\ Type = "ServerKey"
  /\ phase' = "info" /\ Begin(ClientInfo)
  /\ UNCHANGED <<relayVars, wireVars, receiving>>

ReadServerInfo ==
  /\ Reading /\ phase = "info" /\ TakeBufferedFrame /\ Type = "ServerInfo"
  /\ phase' = "connected"
  /\ UNCHANGED <<relayVars, wireVars, receiving, out, clientSent>>

(* Mutant: another frame is passed over.                                    *)
GreetingIgnored ==
  /\ Reading
  /\ \/ phase = "greeting" /\ TakeBufferedFrame /\ Type # "ServerKey"
     \/ phase = "info" /\ TakeBufferedFrame /\ Type # "ServerInfo"
  /\ UNCHANGED <<relayVars, wireVars, phase, receiving, out, clientSent>>

(* Another frame, or one that cannot be decoded: close().                   *)
GreetingRejected ==
  /\ Reading /\ HasFrame(buffer)
  /\ \/ phase = "greeting" /\ Type # "ServerKey"
     \/ phase = "info" /\ Type # "ServerInfo"
  /\ phase' = "closed" /\ buffer' = <<>>
  /\ UNCHANGED <<relayVars, wireVars, got, receiving, out, clientSent>>

(***************************************************************************)
(* The callers' loops.                                                      *)
(***************************************************************************)
Idle == phase = "connected" /\ out = <<>> /\ ~receiving

ReceiveFor ==
  /\ Idle
  /\ receiving' = TRUE
  /\ UNCHANGED <<relayVars, wireVars, buffer, got, phase, out, clientSent>>

(* Mutant: a frame that has not arrived in full is given up.                *)
TimesOutEmpty ==
  /\ Reading /\ phase = "connected" /\ ~HasFrame(buffer)
  /\ receiving' = FALSE /\ buffer' = <<>>
  /\ UNCHANGED <<relayVars, wireVars, got, phase, out, clientSent>>

(* The deadline passes, perhaps with data to read; part of a frame stays in *)
(* the buffer.                                                              *)
TimesOut ==
  /\ Reading /\ phase = "connected" /\ ~HasFrame(buffer) /\ ~Unreasonable(buffer)
  /\ receiving' = FALSE
  /\ UNCHANGED <<relayVars, wireVars, buffer, got, phase, out, clientSent>>

PingSize == 1
Pong(id) == <<"Pong", id, PingSize>>

(* A frame of the relay: a ping of eight bytes is answered at once; what    *)
(* is not a packet is ignored.                                              *)
Handle ==
  /\ Reading /\ phase = "connected" /\ TakeBufferedFrame
  /\ receiving' = FALSE
  /\ Type # "malformed"
  /\ IF Type = "Ping" /\ SizeTold(buffer) = PingSize
     THEN Begin(Pong(FirstFrame(buffer)[2]))
     ELSE UNCHANGED <<out, clientSent>>
  /\ UNCHANGED <<relayVars, wireVars, phase>>

(* A RecvPacket without a sender: the exception ends the caller.            *)
HandleThrows ==
  /\ Reading /\ phase = "connected" /\ HasFrame(buffer)
  /\ Type = "malformed"
  /\ phase' = "closed" /\ buffer' = <<>> /\ receiving' = FALSE
  /\ UNCHANGED <<relayVars, wireVars, got, out, clientSent>>

Packets ==
  Cardinality({i \in 1..Len(clientSent) : clientSent[i][1] = "SendPacket"})

SendPacket ==
  /\ Idle /\ Packets < MaxSent
  /\ Begin(<<"SendPacket", Packets + 1, 2>>)
  /\ UNCHANGED <<relayVars, wireVars, buffer, got, phase, receiving>>

Relaying == RelaySends \/ RelayWrites \/ RelayReads
Connecting ==
  Connect \/ ConnectFails \/ ReadServerKey \/ ReadServerInfo \/ GreetingRejected
Receiving == ReceiveFor \/ ReceiveSome \/ ReceiveFails \/ Handle \/ HandleThrows

Next ==
  \/ Relaying \/ WireBreaks
  \/ Connecting \/ Receiving \/ TimesOut \/ SendPacket
  \/ SendSome \/ SendFails

Spec == Init /\ [][Next]_vars

(* The relay reads and writes; the caller calls receive_for() again and     *)
(* again, and now and then data arrive before it times out.                 *)
FairSpec ==
  /\ Spec
  /\ WF_vars(RelaySends) /\ WF_vars(RelayWrites) /\ WF_vars(RelayReads)
  /\ WF_vars(Connecting) /\ WF_vars(ReceiveFor)
  /\ SF_vars(ReceiveSome) /\ SF_vars(Handle \/ HandleThrows)
  /\ WF_vars(ReceiveFails) /\ WF_vars(SendSome) /\ WF_vars(SendFails)

-----------------------------------------------------------------------------
(* Whatever pieces the connection delivers at a time, and wherever a        *)
(* deadline falls, the client's frames are the relay's, whole, in order,    *)
(* each once (receive_buffer, take_buffered_frame()).  And the relay's are  *)
(* the client's: a frame is followed by the next only once it is on the     *)
(* wire to its last byte, or the connection is dead (send_all(), which      *)
(* rendezvous_client() may see fail).                                       *)
FromRelay == INSTANCE FrameChannel WITH sent <- relaySent
FromClient == INSTANCE FrameChannel WITH sent <- clientSent, got <- relayGot
FramesArriveWhole == FromRelay!Spec /\ FromClient!Spec

(* A frame that the relay has sent is handed to a caller that goes on       *)
(* calling, also when nothing follows it, unless the connection ends; and   *)
(* every ping of eight bytes comes back to the relay as a pong, whatever is *)
(* sent and received around it.                                             *)
Over == wire = "cut" \/ phase = "closed"
Arrives ==
  /\ \A n \in 1..4 : Len(relaySent) = n ~> Len(got) >= n \/ Over
  /\ \A id \in 1..3 :
       (\E i \in DOMAIN relaySent : relaySent[i] = <<"Ping", id, PingSize>>)
         ~> (\E i \in DOMAIN relayGot : relayGot[i] = Pong(id)) \/ Over

(* connect() comes to an end, one way or the other, with a relay that       *)
(* answers or closes; it has no deadline of its own.                        *)
Connects == phase = "greeting" ~> phase \in {"connected", "closed"}
=============================================================================
