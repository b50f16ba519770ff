-------------------------- MODULE EmbeddedSsh_proof --------------------------
(***************************************************************************)
(* Proofs about EmbeddedSsh: whatever clients send, for any sizes of the    *)
(* socket pair, the pipes and the stream's buffer, and any output.          *)
(***************************************************************************)
EXTENDS EmbeddedSsh, StreamLemmas, FiniteSetTheorems

(* What the process and the worker say, and what clients write to it.       *)
Said == {<<"out", n>> : n \in Nat} \cup {ExitStatus}
Data == {m[2] : m \in {x \in Message : x[1] = "data"}}
(* What SessionContext can be.                                              *)
Context == [authorized: BOOLEAN, channel: {"none", "open", "closed"},
            environment: SUBSET Accepted, pty: BOOLEAN, started: BOOLEAN,
            motd: BOOLEAN, error: BOOLEAN]

(* The type invariant, in the groups of variables that steps leave alone.   *)
SocketTypes ==
  /\ connected \in BOOLEAN /\ bridge \in {"open", "shut", "closed"}
  /\ toSsh \in Seq(Message) /\ Len(toSsh) <= SocketRoom
  /\ fromSsh \in Seq(Said)
StdinTypes ==
  /\ held \in Seq(Data) /\ inputDone \in BOOLEAN
  /\ input \in Seq(Data) /\ Len(input) <= PipeRoom
ProcessTypes ==
  /\ child \in {"none", "running", "exited", "reaped"} /\ signalled \in BOOLEAN
  /\ output \in Seq(Said) /\ taken \in Seq(Data) /\ wrote \in Nat
WorkerTypes ==
  worker \in {"none", "kex", "poll", "pump", "check", "last", "exit", "stop",
              "reap", "free", "freed", "done"}
ContextTypes == context \in Context
ServerTypes ==
  server \in {"running", "stopping", "stopped", "terminated", "killed"}
ClientTypes ==
  /\ script \in Seq(Message) /\ asked \in 0..Len(script)
  /\ client \in {"open", "ended", "reset"} /\ told \in Seq(Said)
TunnelTypes ==
  /\ arrived \in Seq(Message) /\ tunnel \in {"open", "failed", "closed"}
  /\ sending \in Seq(Said)
ConnTypes ==
  /\ conn \in {"none", "serving", "finished", "removed"} /\ joined \in BOOLEAN
  /\ pc \in {"idle", "down", "end", "catch", "caught"}
  /\ upPending \in Seq(Message) /\ downPending \in Seq(Said)
  /\ bridgeEof \in BOOLEAN
  /\ cause \in {"none", "failed tunnel", "bridge error"}

SessionTypes ==
  /\ SocketTypes /\ StdinTypes /\ ProcessTypes
  /\ WorkerTypes /\ ContextTypes /\ ServerTypes
TypeOK == SessionTypes /\ ClientTypes /\ TunnelTypes /\ ConnTypes

(* What is said is of that type.                                            *)
LEMMA Sayings ==
  /\ Motd \in Said /\ ExitStatus \in Said
  /\ \A n \in Nat : <<"out", n>> \in Said
  /\ <<Motd>> \in Seq(Said) /\ <<ExitStatus>> \in Seq(Said)
  /\ <<>> \in Seq(Said) /\ <<>> \in Seq(Message) /\ <<>> \in Seq(Data)
BY DEF Said, Motd

(* Write() keeps the types of the socket.                                   *)
LEMMA WriteTypes ==
  ASSUME SocketTypes, NEW ms \in Seq(Said), Write(ms)
  PROVE  fromSsh' \in Seq(Said) /\ connected' \in BOOLEAN
BY DEF SocketTypes, Write

(* A callback takes a message that a client can send off the socket.        *)
LEMMA NextMessage ==
  ASSUME SocketTypes, NEW type, Next1(type)
  PROVE  /\ toSsh' \in Seq(Message) /\ Head(toSsh) \in Message
         /\ Len(toSsh') <= SocketRoom /\ toSsh # <<>> /\ toSsh' = Tail(toSsh)
         /\ type = "data" => Head(toSsh)[2] \in Data
<1>1. Head(toSsh) \in Message /\ Tail(toSsh) \in Seq(Message)
      /\ Len(Tail(toSsh)) = Len(toSsh) - 1 /\ Len(toSsh) \in Nat
  BY HeadTailProperties DEF SocketTypes, Next1
<1>2. /\ toSsh' = Tail(toSsh) /\ Head(toSsh)[1] = type /\ toSsh # <<>>
      /\ Len(toSsh) <= SocketRoom /\ SocketRoom \in Nat
  BY SshAssumption DEF Next1, SocketTypes
<1>3. QED
  BY <1>1, <1>2 DEF Data

(* Each group of the type invariant holds on where its variables do not     *)
(* change.                                                                  *)
LEMMA Frames ==
  ASSUME TypeOK
  PROVE  /\ UNCHANGED socketVars => SocketTypes'
         /\ UNCHANGED stdinVars => StdinTypes'
         /\ UNCHANGED processVars => ProcessTypes'
         /\ UNCHANGED worker => WorkerTypes'
         /\ UNCHANGED context => ContextTypes'
         /\ UNCHANGED server => ServerTypes'
         /\ UNCHANGED sessionVars => SessionTypes'
         /\ UNCHANGED clientVars => ClientTypes'
         /\ UNCHANGED tunnelVars => TunnelTypes'
         /\ UNCHANGED connVars => ConnTypes'
<1> USE DEF TypeOK, SessionTypes
<1>1. UNCHANGED socketVars => SocketTypes'
  BY DEF socketVars, SocketTypes
<1>2. UNCHANGED stdinVars => StdinTypes'
  BY DEF stdinVars, StdinTypes
<1>3. UNCHANGED processVars => ProcessTypes'
  BY DEF processVars, ProcessTypes
<1>4. UNCHANGED worker => WorkerTypes'
  BY DEF WorkerTypes
<1>5. UNCHANGED context => ContextTypes'
  BY DEF ContextTypes
<1>6. UNCHANGED server => ServerTypes'
  BY DEF ServerTypes
<1>7. UNCHANGED clientVars => ClientTypes'
  BY DEF clientVars, ClientTypes
<1>8. UNCHANGED tunnelVars => TunnelTypes'
  BY DEF tunnelVars, TunnelTypes
<1>9. UNCHANGED connVars => ConnTypes'
  BY DEF connVars, ConnTypes
<1>10. UNCHANGED sessionVars => SessionTypes'
  BY <1>1, <1>2, <1>3, <1>4, <1>5, <1>6 DEF sessionVars
<1>11. QED
  BY <1>1, <1>2, <1>3, <1>4, <1>5, <1>6, <1>7, <1>8, <1>9, <1>10

(* The initial states have their types.                                     *)
LEMMA InitTypes == Init => TypeOK
<1> SUFFICES ASSUME Init PROVE TypeOK
  OBVIOUS
<1> USE DEF Init, SessionInit
<1>r. Len(<<>>) <= SocketRoom /\ Len(<<>>) <= PipeRoom
  BY SshAssumption
<1>1. SocketTypes /\ StdinTypes /\ ProcessTypes
  BY <1>r, Sayings DEF SocketTypes, StdinTypes, ProcessTypes
<1>2. ContextTypes
  BY DEF NoContext, ContextTypes, Context
<1>3. WorkerTypes /\ ServerTypes
  BY DEF WorkerTypes, ServerTypes
<1>4. ConnTypes /\ TunnelTypes
  BY Sayings DEF ConnTypes, TunnelTypes
<1>5. script \in Seq(Message)
  BY BridgeAssumption
<1>6. ClientTypes
  BY <1>5, Sayings DEF ClientTypes
<1>7. QED
  BY <1>1, <1>2, <1>3, <1>4, <1>6 DEF TypeOK, SessionTypes

(* The client's steps keep the types.                                       *)
LEMMA ClientStepTypes ==
  ASSUME TypeOK, Client \/ ClientReads
  PROVE  TypeOK'
<1> USE DEF Client
<1>1. UNCHANGED <<sessionVars, connVars>>
  BY DEF ClientSends, ClientEnds, ClientResets, ClientReads
<1>2. CASE ClientSends
  <2>1. arrived' = <<script[asked']>> \/ UNCHANGED arrived
    BY <1>2 DEF ClientSends
  <2>2. asked' \in 1..Len(script) /\ script \in Seq(Message)
    BY <1>2 DEF ClientSends, TypeOK, ClientTypes
  <2>3. <<script[asked']>> \in Seq(Message)
    BY <2>2
  <2>4. ClientTypes'
    BY <1>2, <2>2 DEF ClientSends, TypeOK, ClientTypes
  <2>5. TunnelTypes'
    BY <1>2, <2>1, <2>3, Sayings DEF ClientSends, TypeOK, TunnelTypes
  <2>6. QED
    BY <1>1, <2>4, <2>5, Frames DEF TypeOK
<1>3. CASE ClientEnds
  <2>1. ClientTypes' /\ UNCHANGED tunnelVars
    BY <1>3 DEF ClientEnds, TypeOK, ClientTypes
  <2>2. QED
    BY <1>1, <2>1, Frames DEF TypeOK
<1>4. CASE ClientResets
  <2>1. ClientTypes'
    BY <1>4 DEF ClientResets, TypeOK, ClientTypes
  <2>2. TunnelTypes'
    BY <1>4, Sayings DEF ClientResets, TypeOK, TunnelTypes
  <2>3. QED
    BY <1>1, <2>1, <2>2, Frames DEF TypeOK
<1>5. CASE ClientReads
  <2>1. told \in Seq(Said) /\ sending \in Seq(Said) /\ sending # <<>>
    BY <1>5 DEF ClientReads, TypeOK, ClientTypes, TunnelTypes
  <2>2. told' \in Seq(Said) /\ sending' \in Seq(Said)
    BY <1>5, <2>1, HeadMoved DEF ClientReads
  <2>3. ClientTypes'
    BY <1>5, <2>2 DEF ClientReads, TypeOK, ClientTypes
  <2>4. TunnelTypes'
    BY <1>5, <2>2 DEF ClientReads, TypeOK, TunnelTypes
  <2>5. QED
    BY <1>1, <2>3, <2>4, Frames DEF TypeOK
<1>6. QED
  BY <1>2, <1>3, <1>4, <1>5

(* What service() sends to the worker is a cut of what it has, and fits the *)
(* socket.                                                                  *)
LEMMA SendToSshTypes ==
  ASSUME TypeOK, SendToSsh
  PROVE  /\ TypeOK' /\ ToSend \in Seq(Message) /\ Sendable \in 0..Len(ToSend)
<1>0. /\ toSsh \in Seq(Message) /\ upPending \in Seq(Message)
      /\ arrived \in Seq(Message) /\ Len(toSsh) <= SocketRoom
  BY DEF TypeOK, SessionTypes, SocketTypes, ConnTypes, TunnelTypes
<1>1. ToSend \in Seq(Message)
  BY <1>0 DEF ToSend
<1>2. /\ Len(toSsh) \in Nat /\ Len(ToSend) \in Nat /\ SocketRoom \in Nat
      /\ Len(toSsh) <= SocketRoom
  BY <1>0, <1>1, SshAssumption
<1>3. Sendable \in 0..Len(ToSend) /\ Len(toSsh) + Sendable <= SocketRoom
  BY <1>2 DEF Sendable
<1>4. /\ SubSeq(ToSend, 1, Sendable) \in Seq(Message)
      /\ SubSeq(ToSend, Sendable + 1, Len(ToSend)) \in Seq(Message)
      /\ Len(SubSeq(ToSend, 1, Sendable)) = Sendable
  BY <1>1, <1>3, Cut
<1>5. toSsh' \in Seq(Message) /\ Len(toSsh') <= SocketRoom
  <2>1. toSsh' = toSsh \o SubSeq(ToSend, 1, Sendable)
    BY DEF SendToSsh
  <2>2. QED
    BY <1>0, <1>3, <1>4, <2>1, Joined
<1>6. SocketTypes'
  BY <1>5 DEF SendToSsh, TypeOK, SessionTypes, SocketTypes
<1>7. TunnelTypes'
  BY Sayings DEF SendToSsh, TypeOK, TunnelTypes
<1>8. ConnTypes'
  BY <1>4 DEF SendToSsh, TypeOK, ConnTypes
<1>9. UNCHANGED <<stdinVars, processVars, worker, context, server, clientVars>>
  BY DEF SendToSsh
<1>10. QED
  BY <1>1, <1>3, <1>6, <1>7, <1>8, <1>9, Frames DEF TypeOK, SessionTypes

(* What service() sends to the stream is made of what was said.             *)
LEMMA SendToTunnelTypes ==
  ASSUME TypeOK, SendToTunnel
  PROVE  TypeOK' /\ Readable \in Seq(Said)
<1>0. /\ fromSsh \in Seq(Said) /\ downPending \in Seq(Said)
      /\ sending \in Seq(Said) /\ bridgeEof \in BOOLEAN
  BY DEF TypeOK, SessionTypes, SocketTypes, ConnTypes, TunnelTypes
<1>1. Readable \in Seq(Said)
  BY <1>0, Sayings, HeadMoved DEF Readable
<1>2. fromSsh' \in Seq(Said)
  <2>1. fromSsh' = fromSsh \/ (fromSsh # <<>> /\ fromSsh' = Tail(fromSsh))
    BY DEF SendToTunnel, Readable
  <2>2. QED
    BY <1>0, <2>1, HeadTailProperties
<1> DEFINE data == downPending \o Readable
           sent == IF Len(sending) < TunnelRoom /\ client # "reset" THEN data
                   ELSE <<>>
<1>3. data \in Seq(Said)
  BY <1>0, <1>1, Joined
<1>4. /\ sending' = sending \o sent
      /\ downPending' = IF sent = <<>> THEN data ELSE <<>>
      /\ bridgeEof' \in BOOLEAN
  BY DEF SendToTunnel
<1>5. sent \in Seq(Said)
  BY <1>3, Sayings
<1> HIDE DEF data, sent
<1>6. sending' \in Seq(Said) /\ downPending' \in Seq(Said)
  BY <1>0, <1>3, <1>4, <1>5, Sayings, Joined
<1>7. SocketTypes'
  BY <1>2 DEF SendToTunnel, TypeOK, SessionTypes, SocketTypes
<1>8. TunnelTypes'
  BY <1>6 DEF SendToTunnel, TypeOK, TunnelTypes
<1>9. ConnTypes'
  BY <1>4, <1>6 DEF SendToTunnel, TypeOK, ConnTypes
<1>10. UNCHANGED <<stdinVars, processVars, worker, context, server, clientVars>>
  BY DEF SendToTunnel
<1>11. QED
  BY <1>1, <1>7, <1>8, <1>9, <1>10, Frames DEF TypeOK, SessionTypes

(* The steps of service(), accept_new() and poll() keep the types.          *)
LEMMA ServiceStepTypes ==
  ASSUME TypeOK, AcceptNew \/ AcceptFails \/ Service \/ StopServer
  PROVE  TypeOK'
<1>1. ASSUME AcceptNew \/ AcceptFails PROVE TypeOK'
  <2>1. UNCHANGED <<stdinVars, processVars, context, clientVars>>
    BY <1>1 DEF AcceptNew, AcceptFails
  <2>2. SocketTypes' /\ WorkerTypes' /\ ServerTypes'
    BY <1>1 DEF AcceptNew, AcceptFails, SocketPair, TypeOK, SessionTypes,
       SocketTypes, WorkerTypes, ServerTypes, socketVars
  <2>3. TunnelTypes' /\ ConnTypes'
    BY <1>1 DEF AcceptNew, AcceptFails, TypeOK, TunnelTypes, ConnTypes,
       tunnelVars
  <2>4. QED
    BY <2>1, <2>2, <2>3, Frames DEF TypeOK, SessionTypes
<1>2. ASSUME TunnelFailed \/ Finish \/ Catch \/ StopServer PROVE TypeOK'
  <2>1. /\ UNCHANGED <<worker, stdinVars, processVars, context, clientVars>>
        /\ UNCHANGED <<connected, toSsh, fromSsh, upPending, downPending,
                       bridgeEof, arrived, sending>>
    BY <1>2 DEF TunnelFailed, Finish, Catch, StopServer, tunnelVars, connVars
  <2>2. SocketTypes' /\ ServerTypes'
    BY <1>2, <2>1 DEF TunnelFailed, Finish, Catch, StopServer, TypeOK,
       SessionTypes, SocketTypes, ServerTypes
  <2>3. TunnelTypes'
    BY <1>2, <2>1 DEF TunnelFailed, Finish, Catch, StopServer, TypeOK,
       TunnelTypes, tunnelVars
  <2>4. ConnTypes'
    BY <1>2, <2>1 DEF TunnelFailed, Finish, Catch, StopServer, TypeOK,
       ConnTypes, connVars
  <2>5. QED
    BY <2>1, <2>2, <2>3, <2>4, Frames DEF TypeOK, SessionTypes
<1>3. ASSUME SendThrows \/ ReceiveThrows \/ NotDone \/ Caught PROVE TypeOK'
  <2>1. UNCHANGED <<sessionVars, clientVars, tunnelVars>>
    BY <1>3 DEF SendThrows, ReceiveThrows, NotDone, Caught
  <2>2. ConnTypes'
    BY <1>3 DEF SendThrows, ReceiveThrows, NotDone, Caught, TypeOK, ConnTypes
  <2>3. QED
    BY <2>1, <2>2, Frames DEF TypeOK
<1>4. ASSUME Erase \/ Join PROVE TypeOK'
  <2>1. UNCHANGED <<worker, socketVars, context, stdinVars, processVars,
                    clientVars, tunnelVars>>
    BY <1>4 DEF Erase, Join
  <2>2. ServerTypes'
    BY <1>4 DEF Erase, Join, TypeOK, SessionTypes, ServerTypes
  <2>3. ConnTypes'
    BY <1>4 DEF Erase, Join, TypeOK, ConnTypes
  <2>4. QED
    BY <2>1, <2>2, <2>3, Frames DEF TypeOK, SessionTypes
<1>5. QED
  BY <1>1, <1>2, <1>3, <1>4, SendToSshTypes, SendToTunnelTypes DEF Service

(* The same of NextMessage for whatever message is next.                    *)
LEMMA Messages ==
  ASSUME TypeOK
  PROVE  /\ \A type : Next1(type) =>
              /\ toSsh # <<>> /\ toSsh' = Tail(toSsh)
              /\ Head(toSsh) \in Message
              /\ type = "data" => Head(toSsh)[2] \in Data
         /\ toSsh # <<>> => Tail(toSsh) \in Seq(Message)
                            /\ Len(Tail(toSsh)) <= SocketRoom
<1>1. SocketTypes
  BY DEF TypeOK, SessionTypes
<1>2. ASSUME toSsh # <<>> PROVE Tail(toSsh) \in Seq(Message)
                                /\ Len(Tail(toSsh)) <= SocketRoom
  BY <1>1, <1>2, SshAssumption, HeadTailProperties DEF SocketTypes
<1>3. QED
  BY <1>1, <1>2, NextMessage DEF Next1

(* write_stdin() takes no more than there is, and no more than fits the     *)
(* pipe.                                                                    *)
LEMMA WriteStdin ==
  ASSUME TypeOK, ChannelData
  PROVE  LET data == Append(held, Head(toSsh)[2])
             n == Room(Len(data))
         IN /\ data \in Seq(Data) /\ n \in 0..Len(data)
            /\ Head(toSsh)[2] \in Data /\ Len(input) + n <= PipeRoom
            /\ input' \in Seq(Data) /\ held' \in Seq(Data)
            /\ Len(input') <= PipeRoom
<1> DEFINE data == Append(held, Head(toSsh)[2])
           n == Room(Len(data))
<1>1. Next1("data")
  BY DEF ChannelData
<1>2. /\ Head(toSsh)[2] \in Data /\ held \in Seq(Data) /\ input \in Seq(Data)
      /\ Len(input) <= PipeRoom
  BY <1>1, Messages DEF TypeOK, SessionTypes, StdinTypes
<1>3. data \in Seq(Data)
  BY <1>2, AppendProperties
<1>4. /\ input' = input \o SubSeq(data, 1, n)
      /\ held' = SubSeq(data, n + 1, Len(data))
  BY DEF ChannelData
<1> HIDE DEF data
<1>5. Len(data) \in Nat /\ Len(input) \in Nat /\ PipeRoom \in Nat
  BY <1>2, <1>3, SshAssumption
<1>6. n \in 0..Len(data) /\ Len(input) + n <= PipeRoom
  BY <1>2, <1>5 DEF Room
<1> HIDE DEF n
<1>7. /\ SubSeq(data, 1, n) \in Seq(Data) /\ Len(SubSeq(data, 1, n)) = n
      /\ held' \in Seq(Data)
  BY <1>3, <1>4, <1>6, Cut
<1>8. input' \in Seq(Data) /\ Len(input') <= PipeRoom
  BY <1>2, <1>4, <1>6, <1>7, Joined
<1>9. QED
  BY <1>2, <1>3, <1>6, <1>7, <1>8 DEF data, n

(* libssh's callbacks keep the types.                                       *)
LEMMA CallbackTypes ==
  ASSUME TypeOK, Dispatch
  PROVE  SessionTypes'
<1>1. UNCHANGED <<bridge, server>> /\ WorkerTypes'
  BY DEF Dispatch, Polled, TypeOK, SessionTypes, WorkerTypes
<1>c. context \in Context
  BY DEF TypeOK, SessionTypes, ContextTypes
<1>t. toSsh' = toSsh \/ (toSsh # <<>> /\ toSsh' = Tail(toSsh))
  BY DEF Dispatch, Next1, Auth, ChannelOpen, ChannelEnv, ChannelPty,
     StartSessionProcess, StartFails, StartRefused, ChannelData, ChannelEof,
     ChannelClose, Disconnect, Ignore
<1>f. fromSsh' \in Seq(Said) /\ connected' \in BOOLEAN
  <2>1. SocketTypes
    BY DEF TypeOK, SessionTypes
  <2>2. \/ UNCHANGED <<fromSsh, connected>>
        \/ UNCHANGED fromSsh /\ connected' = FALSE
        \/ Write(<<Motd>>)
    BY DEF Dispatch, Auth, ChannelOpen, ChannelEnv, ChannelPty,
       StartSessionProcess, StartFails, StartRefused, ChannelData, ChannelEof,
       ChannelClose, Disconnect, Ignore
  <2>3. Write(<<Motd>>) => fromSsh' \in Seq(Said) /\ connected' \in BOOLEAN
    BY <2>1, WriteTypes, Sayings
  <2>4. QED
    BY <2>1, <2>2, <2>3 DEF SocketTypes
<1>s. SocketTypes'
  BY <1>1, <1>t, <1>f, Messages DEF TypeOK, SessionTypes, SocketTypes
<1>2. ContextTypes'
  <2>1. CASE Auth
    BY <1>c, <2>1 DEF Auth, ContextTypes, Context
  <2>2. CASE ChannelOpen \/ ChannelClose
    BY <1>c, <2>2 DEF ChannelOpen, ChannelClose, ContextTypes, Context
  <2>3. CASE ChannelEnv
    BY <1>c, <2>3 DEF ChannelEnv, ContextTypes, Context
  <2>4. CASE ChannelPty
    <3>1. "TERM" \in Accepted
      BY DEF Accepted
    <3>2. QED
      BY <1>c, <2>4, <3>1 DEF ChannelPty, ContextTypes, Context
  <2>5. CASE StartSessionProcess
    BY <1>c, <2>5 DEF StartSessionProcess, ContextTypes, Context
  <2>6. CASE StartFails
    BY <1>c, <2>6 DEF StartFails, ContextTypes, Context
  <2>7. CASE UNCHANGED context
    BY <2>7, Frames
  <2>8. QED
    BY <2>1, <2>2, <2>3, <2>4, <2>5, <2>6, <2>7
       DEF Dispatch, StartRefused, ChannelData, ChannelEof, Disconnect, Ignore
<1>3. StdinTypes'
  <2>1. CASE ChannelData
    BY <2>1, WriteStdin DEF ChannelData, TypeOK, SessionTypes, StdinTypes
  <2>2. CASE ChannelEof
    BY <2>2, <1>c DEF ChannelEof, CloseStdin, TypeOK, SessionTypes, StdinTypes,
       Context
  <2>3. CASE UNCHANGED stdinVars
    BY <2>3, Frames
  <2>4. QED
    BY <2>1, <2>2, <2>3
       DEF Dispatch, Auth, ChannelOpen, ChannelEnv, ChannelPty,
           StartSessionProcess, ProcessStarts, StartFails, StartRefused,
           ChannelClose, Disconnect, Ignore
<1>4. ProcessTypes'
  <2>1. CASE StartSessionProcess
    BY <2>1 DEF StartSessionProcess, ProcessStarts, TypeOK, SessionTypes,
       ProcessTypes
  <2>2. CASE UNCHANGED processVars
    BY <2>2, Frames
  <2>3. QED
    BY <2>1, <2>2
       DEF Dispatch, Auth, ChannelOpen, ChannelEnv, ChannelPty, StartFails,
           StartRefused, ChannelData, ChannelEof, ChannelClose, Disconnect,
           Ignore
<1>5. QED
  BY <1>1, <1>s, <1>2, <1>3, <1>4, Frames DEF SessionTypes

(* The steps of the worker and of the process keep the types.               *)
LEMMA WorkerStepTypes ==
  ASSUME TypeOK, WorkerNext \/ ChildNext
  PROVE  SessionTypes'
<1> USE DEF SessionTypes
<1>1. CASE WriteKills
  <2>1. UNCHANGED <<worker, socketVars, context, stdinVars, processVars>>
        /\ ServerTypes'
    BY <1>1 DEF WriteKills, ServerTypes
  <2>2. QED
    BY <2>1, Frames
<1>2. CASE KeyExchange
  <2>1. UNCHANGED <<context, stdinVars, processVars, server>> /\ WorkerTypes'
    BY <1>2 DEF KeyExchange, WorkerTypes
  <2>2. SocketTypes'
    BY <1>2, Messages DEF KeyExchange, TypeOK, SocketTypes
  <2>3. QED
    BY <2>1, <2>2, Frames
<1>3. CASE KeyExchangeFails \/ PollTimeout \/ PumpedOutput \/ Check
  <2>1. UNCHANGED <<socketVars, context, stdinVars, processVars, server>>
        /\ WorkerTypes'
    BY <1>3 DEF KeyExchangeFails, PollTimeout, PumpedOutput, Check, WorkerTypes
  <2>2. QED
    BY <2>1, Frames
<1>4. CASE PumpOutput
  <2>1. UNCHANGED <<context, stdinVars, server>> /\ WorkerTypes'
    BY <1>4 DEF PumpOutput, TypeOK, WorkerTypes
  <2>2. output \in Seq(Said) /\ output # <<>> /\ SocketTypes
    BY <1>4 DEF PumpOutput, TypeOK, ProcessTypes
  <2>3. <<Head(output)>> \in Seq(Said) /\ Tail(output) \in Seq(Said)
    BY <2>2, HeadMoved
  <2>4. ProcessTypes'
    BY <1>4, <2>3 DEF PumpOutput, TypeOK, ProcessTypes
  <2>5. fromSsh' \in Seq(Said) /\ connected' \in BOOLEAN
    BY <1>4, <2>2, <2>3, WriteTypes DEF PumpOutput, SocketTypes
  <2>6. SocketTypes'
    BY <1>4, <2>2, <2>5 DEF PumpOutput, SocketTypes
  <2>7. QED
    BY <2>1, <2>4, <2>6, Frames
<1>5. CASE PollExit \/ Reap
  <2>1. UNCHANGED <<socketVars, context, stdinVars, server>> /\ WorkerTypes'
    BY <1>5 DEF PollExit, Reap, WorkerTypes
  <2>2. ProcessTypes'
    BY <1>5 DEF PollExit, Reap, TypeOK, ProcessTypes
  <2>3. QED
    BY <2>1, <2>2, Frames
<1>6. CASE SendExit
  <2>1. UNCHANGED <<context, stdinVars, processVars, server>> /\ WorkerTypes'
    BY <1>6 DEF SendExit, WorkerTypes
  <2>2. SocketTypes /\ <<ExitStatus>> \in Seq(Said)
    BY Sayings DEF TypeOK
  <2>3. fromSsh' \in Seq(Said) /\ connected' \in BOOLEAN
    BY <1>6, <2>2, WriteTypes DEF SendExit
  <2>4. SocketTypes'
    BY <1>6, <2>2, <2>3 DEF SendExit, SocketTypes
  <2>5. QED
    BY <2>1, <2>4, Frames
<1>7. CASE Stop
  <2>1. UNCHANGED <<socketVars, context, server>> /\ WorkerTypes'
    BY <1>7 DEF Stop, WorkerTypes
  <2>2. ProcessTypes'
    BY <1>7 DEF Stop, TypeOK, ProcessTypes
  <2>3. context \in Context
    BY DEF TypeOK, ContextTypes
  <2>4. StdinTypes'
    BY <1>7, <2>3 DEF Stop, CloseStdin, TypeOK, StdinTypes, Context
  <2>5. QED
    BY <2>1, <2>2, <2>4, Frames
<1>8. CASE Free \/ Done
  <2>1. UNCHANGED <<context, stdinVars, processVars, server>> /\ WorkerTypes'
    BY <1>8 DEF Free, Done, WorkerTypes
  <2>2. SocketTypes'
    BY <1>8 DEF Free, Done, TypeOK, SocketTypes, socketVars
  <2>3. QED
    BY <2>1, <2>2, Frames
<1>9. CASE ChildReads
  <2>1. UNCHANGED <<worker, socketVars, context, server>>
    BY <1>9 DEF ChildReads
  <2>2. /\ input \in Seq(Data) /\ taken \in Seq(Data) /\ input # <<>>
        /\ Len(input) <= PipeRoom /\ Len(input) \in Nat /\ PipeRoom \in Nat
    BY <1>9, SshAssumption DEF ChildReads, TypeOK, StdinTypes, ProcessTypes
  <2>3. taken' \in Seq(Data) /\ input' \in Seq(Data)
    BY <1>9, <2>2, HeadMoved DEF ChildReads
  <2>4. Len(input') <= PipeRoom
    <3>1. Len(Tail(input)) = Len(input) - 1
      BY <2>2, HeadTailProperties
    <3>2. QED
      BY <1>9, <2>2, <3>1 DEF ChildReads
  <2>5. StdinTypes' /\ ProcessTypes'
    BY <1>9, <2>3, <2>4 DEF ChildReads, TypeOK, StdinTypes, ProcessTypes
  <2>6. QED
    BY <2>1, <2>5, Frames
<1>10. CASE ChildWrites \/ ChildExits
  <2>1. UNCHANGED <<worker, socketVars, context, stdinVars, server>>
    BY <1>10 DEF ChildWrites, ChildExits
  <2>2. wrote + 1 \in Nat /\ output \in Seq(Said) /\ <<"out",
      wrote + 1>> \in Said
    BY Sayings DEF TypeOK, ProcessTypes
  <2>3. Append(output, <<"out", wrote + 1>>) \in Seq(Said)
    BY <2>2, AppendProperties
  <2>4. ProcessTypes'
    BY <1>10, <2>2, <2>3 DEF ChildWrites, ChildExits, TypeOK, ProcessTypes
  <2>5. QED
    BY <2>1, <2>4, Frames
<1>11. QED
  BY <1>1, <1>2, <1>3, <1>4, <1>5, <1>6, <1>7, <1>8, <1>9, <1>10, CallbackTypes
     DEF WorkerNext, ChildNext

(* Every step keeps the types.                                              *)
LEMMA StepTypes ==
  TypeOK /\ [Next]_vars => TypeOK'
<1> SUFFICES ASSUME TypeOK, [Next]_vars PROVE TypeOK'
  OBVIOUS
<1>1. CASE Session
  <2>1. UNCHANGED <<clientVars, tunnelVars, connVars>>
        /\ (WorkerNext \/ ChildNext)
    BY <1>1 DEF Session
  <2>2. QED
    BY <2>1, WorkerStepTypes, Frames DEF TypeOK
<1>2. CASE UNCHANGED vars
  BY <1>2, Frames DEF vars, TypeOK
<1>3. QED
  BY <1>1, <1>2, ClientStepTypes, ServiceStepTypes DEF Next

(* The type invariant of a session and its bridge: neither the socket pair  *)
(* towards the worker nor the pipe to the process ever holds more than its  *)
(* size, whatever is sent (service(), write_stdin()).                       *)
THEOREM TypeCorrect == Spec => []TypeOK
<1>1. QED
  BY InitTypes, StepTypes, PTL DEF Spec

(* The inductive invariant: a connection that is finished without its thread*)
(* joined has one of the two causes on record, before poll() erases it.     *)
Excused ==
  /\ conn = "finished" => joined \/ cause # "none"
  /\ server = "terminated" => cause # "none"

(* A session that is over never takes the server down, for all clients and  *)
(* sizes: only a thread that service() left unjoined for a cause does.      *)
THEOREM ServerSurvivesHolds == Spec => []ServerSurvives
<1>1. Init => Excused
  BY DEF Init, SessionInit, Excused
<1>2. Excused /\ [Next]_vars => Excused'
  <2> SUFFICES ASSUME Excused, [Next]_vars PROVE Excused'
    OBVIOUS
  <2> USE DEF Excused
  <2>1. CASE UNCHANGED <<conn, joined, cause, server>>
    BY <2>1
  <2>2. CASE Client \/ ClientReads
    BY <2>2 DEF Client, ClientSends, ClientEnds, ClientResets, ClientReads,
       sessionVars, connVars
  <2>3. CASE AcceptNew \/ AcceptFails \/ StopServer
    BY <2>3 DEF AcceptNew, AcceptFails, StopServer, connVars
  <2>4. CASE TunnelFailed \/ SendToSsh \/ SendThrows \/ ReceiveThrows
               \/ SendToTunnel \/ NotDone
    BY <2>4 DEF TunnelFailed, SendToSsh, SendThrows, ReceiveThrows,
       SendToTunnel, NotDone, sessionVars
  <2>5. CASE Finish \/ Catch \/ Erase \/ Join
    BY <2>5 DEF Finish, Catch, Erase, Join, Serving
  <2>6. CASE Caught
    <3>1. joined' \/ cause' # "none"
      BY <2>6 DEF Caught
    <3>2. UNCHANGED server /\ server = "running"
      BY <2>6 DEF Caught, Serving, sessionVars
    <3>3. QED
      BY <3>1, <3>2
  <2>7. CASE Session
    <3>1. UNCHANGED <<conn, joined, cause>>
      BY <2>7 DEF Session, connVars
    <3>2. server' \in {server, "killed"}
      BY <2>7 DEF Session, WorkerNext, ChildNext, Dispatch, WriteKills,
         KeyExchange, KeyExchangeFails, PollTimeout, PumpOutput, PumpedOutput,
         PollExit, Check, SendExit, Stop, Reap, Free, Done, ChildReads,
         ChildWrites, ChildExits
    <3>3. QED
      BY <3>1, <3>2
  <2>8. QED
    BY <2>1, <2>2, <2>3, <2>4, <2>5, <2>6, <2>7
       DEF Next, Service, vars, sessionVars, connVars
<1>3. Excused => ServerSurvives
  BY DEF Excused, ServerSurvives
<1>4. QED
  BY <1>1, <1>2, <1>3, PTL DEF Spec

(* What is on its way from the client to the worker: in the socket pair,    *)
(* pending in service(), and with the stream.                               *)
Pending == (toSsh \o upPending) \o arrived

(* The worker has been given the first d messages; those up to a, which are *)
(* all unless the connection was reset, are on their way, in order.         *)
Flow(d, a) ==
  /\ d <= a /\ a <= asked
  /\ client # "reset" => a = asked
  /\ Len(Pending) = a - d
  /\ \A i \in 1..a - d : Pending[i] = script[d + i]

(* What is on its way are messages.                                         *)
LEMMA PendingTypes ==
  ASSUME TypeOK
  PROVE  /\ toSsh \in Seq(Message) /\ upPending \in Seq(Message)
         /\ arrived \in Seq(Message) /\ Pending \in Seq(Message)
         /\ script \in Seq(Message) /\ asked \in 0..Len(script)
         /\ asked \in Nat
<1>1. /\ toSsh \in Seq(Message) /\ upPending \in Seq(Message)
      /\ arrived \in Seq(Message)
  BY DEF TypeOK, SessionTypes, SocketTypes, ConnTypes, TunnelTypes
<1>2. script \in Seq(Message) /\ asked \in 0..Len(script)
  BY DEF TypeOK, ClientTypes
<1>3. QED
  BY <1>1, <1>2, Joined DEF Pending

(* A step that changes nothing of what is on its way.                       *)
LEMMA FlowSame ==
  ASSUME TypeOK, NEW d \in Nat, NEW a \in Nat, Flow(d, a),
         UNCHANGED <<Pending, script, asked>>,
         client' # "reset" => client # "reset"
  PROVE  Flow(d, a)'
BY DEF Flow

(* The worker takes a message off the socket: it is message d + 1.          *)
LEMMA FlowTaken ==
  ASSUME TypeOK, NEW d \in Nat, NEW a \in Nat, Flow(d, a),
         toSsh # <<>>, toSsh' = Tail(toSsh),
         UNCHANGED <<upPending, arrived, script, asked, client>>
  PROVE  /\ Flow(d + 1, a)'
         /\ Head(toSsh) = script[d + 1] /\ d + 1 <= asked
<1>1. /\ Pending \in Seq(Message) /\ Pending # <<>>
      /\ Pending' = Tail(Pending) /\ Head(Pending) = Head(toSsh)
  <2> DEFINE u == toSsh \o upPending
  <2>1. /\ u \in Seq(Message) /\ u # <<>> /\ Head(u) = Head(toSsh)
        /\ Tail(u) = Tail(toSsh) \o upPending
    BY PendingTypes, HeadTaken, SMTT(20)
  <2>2. Pending' = (Tail(toSsh) \o upPending) \o arrived
      /\ Pending = u \o arrived
    BY DEF Pending
  <2> HIDE DEF u
  <2>a. arrived \in Seq(Message)
    BY PendingTypes
  <2>b. u \in Seq(Message) /\ u # <<>>
    BY <2>1
  <2>3. /\ u \o arrived \in Seq(Message) /\ u \o arrived # <<>>
        /\ Head(u \o arrived) = Head(u)
             /\ Tail(u \o arrived) = Tail(u) \o arrived
    BY <2>a, <2>b, HeadTaken
  <2>4. QED
    BY <2>1, <2>2, <2>3
<1>2. /\ Len(Pending) \in Nat /\ Len(Pending) # 0
           /\ Len(Pending') = Len(Pending) - 1
      /\ Head(Pending) = Pending[1]
      /\ \A i \in 1..Len(Pending') : Pending'[i] = Pending[i + 1]
  BY <1>1, HeadTailProperties, EmptySeq
<1>3. /\ d <= a /\ a <= asked /\ (client # "reset" => a = asked)
      /\ Len(Pending) = a - d
      /\ \A i \in 1..a - d : Pending[i] = script[d + i]
  BY DEF Flow
<1>4. asked \in Nat /\ d + 1 <= a
  BY <1>2, <1>3, PendingTypes
<1>5. Len(Pending') = a - (d + 1)
  BY <1>2, <1>3
<1>6. ASSUME NEW i \in 1..a - (d + 1) PROVE Pending'[i] = script[(d + 1) + i]
  <2>1. i \in 1..Len(Pending') /\ i + 1 \in 1..a - d
      /\ d + (i + 1) = (d + 1) + i
    BY <1>4, <1>5
  <2>2. Pending'[i] = Pending[i + 1] /\ Pending[i + 1] = script[d + (i + 1)]
    BY <1>2, <1>3, <2>1
  <2>3. QED
    BY <2>1, <2>2
<1>7. Head(toSsh) = script[d + 1] /\ d + 1 <= asked
  BY <1>1, <1>2, <1>3, <1>4
<1>8. Flow(d + 1, a)'
  BY <1>3, <1>4, <1>5, <1>6 DEF Flow
<1>9. QED
  BY <1>7, <1>8

(* The client sends another, or is told that the stream is gone.            *)
LEMMA FlowSent ==
  ASSUME TypeOK, NEW d \in Nat, NEW a \in Nat, Flow(d, a), ClientSends
  PROVE  \E b \in Nat : Flow(d, b)'
<1>1. /\ client = "open" /\ asked < Len(script) /\ asked' = asked + 1
      /\ UNCHANGED <<script, toSsh, upPending>>
  BY DEF ClientSends, sessionVars, socketVars, connVars
<1>2. /\ d <= asked /\ a = asked /\ Len(Pending) = asked - d
      /\ \A i \in 1..asked - d : Pending[i] = script[d + i]
  BY <1>1 DEF Flow
<1>3. asked \in Nat /\ script \in Seq(Message) /\ Len(script) \in Nat
  BY PendingTypes
<1>4. CASE tunnel = "open"
  <2> DEFINE m == script[asked + 1]
             u == toSsh \o upPending
  <2>1. m \in Message
    BY <1>1, <1>3
  <2>2. arrived = <<>> /\ arrived' = <<m>>
    BY <1>1, <1>4 DEF ClientSends
  <2>3. u \in Seq(Message)
    BY PendingTypes, Joined
  <2>4. Pending = u /\ Pending' = u \o <<m>>
    BY <1>1, <2>2, <2>3, NoneQueued DEF Pending
  <2> HIDE DEF m, u
  <2>5. Pending' = Append(Pending, m) /\ Pending \in Seq(Message)
    BY <2>1, <2>3, <2>4, LastAppended
  <2>6. /\ Len(Pending') = Len(Pending) + 1
        /\ \A i \in 1..Len(Pending) : Pending'[i] = Pending[i]
        /\ Pending'[Len(Pending) + 1] = m
    BY <2>1, <2>5, AppendProperties
  <2>7. ASSUME NEW i \in 1..(asked + 1) - d PROVE Pending'[i] = script[d + i]
    <3>1. CASE i \in 1..asked - d
      BY <1>2, <2>6, <3>1
    <3>2. CASE i = asked - d + 1
      <4>1. d + i = asked + 1 /\ i = Len(Pending) + 1
        BY <1>2, <1>3, <3>2
      <4>2. QED
        BY <2>6, <4>1 DEF m
    <3>3. QED
      BY <1>2, <1>3, <3>1, <3>2, SMTT(20)
  <2>8. Len(Pending') = (asked + 1) - d /\ d <= asked + 1
    BY <1>2, <1>3, <2>6
  <2>9. PICK b \in Nat : b = asked + 1
    BY <1>3
  <2>10. Flow(d, b)'
    BY <1>1, <1>3, <2>7, <2>8, <2>9 DEF Flow
  <2>11. QED
    BY <2>10
<1>5. CASE tunnel # "open"
  <2>1. client' = "reset" /\ UNCHANGED arrived
    BY <1>5 DEF ClientSends
  <2>2. UNCHANGED Pending
    BY <1>1, <2>1 DEF Pending
  <2>3. Flow(d, a)'
    BY <1>1, <1>2, <1>3, <2>1, <2>2 DEF Flow
  <2>4. QED
    BY <2>3
<1>6. QED
  BY <1>4, <1>5

(* service() only moves what is on its way, also when the socket takes a    *)
(* part of it.                                                              *)
LEMMA SendToSshPending ==
  ASSUME TypeOK, SendToSsh
  PROVE  UNCHANGED Pending
<1> DEFINE x == SubSeq(ToSend, 1, Sendable)
           y == SubSeq(ToSend, Sendable + 1, Len(ToSend))
<1>1. x \in Seq(Message) /\ y \in Seq(Message) /\ x \o y = ToSend
  BY SendToSshTypes, Cut
<1>2. /\ toSsh' = toSsh \o x /\ upPending' = y
      /\ arrived' = IF upPending = <<>> THEN <<>> ELSE arrived
  BY DEF SendToSsh
<1> HIDE DEF x, y
<1>t. toSsh \in Seq(Message)
  BY PendingTypes
<1>3. (toSsh \o x) \o y = toSsh \o ToSend
  <2>1. x \in Seq(Message) /\ y \in Seq(Message)
    BY <1>1
  <2>2. (toSsh \o x) \o y = toSsh \o (x \o y)
    BY <1>t, <2>1, Joined, SMTT(20)
  <2>3. QED
    BY <1>1, <2>2
<1>4. CASE upPending = <<>>
  <2>1. ToSend = arrived /\ arrived' = <<>> /\ toSsh \o upPending = toSsh
    BY <1>2, <1>4, PendingTypes, NoneQueued DEF ToSend
  <2>2. toSsh \o arrived \in Seq(Message)
    BY PendingTypes, Joined
  <2>3. (toSsh \o arrived) \o <<>> = toSsh \o arrived
    BY <2>2, NoneQueued
  <2>4. Pending' = ((toSsh \o x) \o y) \o <<>>
    BY <1>2, <2>1 DEF Pending
  <2>5. Pending = toSsh \o arrived
    BY <2>1 DEF Pending
  <2>6. QED
    BY <1>3, <2>1, <2>3, <2>4, <2>5
<1>5. CASE upPending # <<>>
  BY <1>2, <1>3, <1>5 DEF Pending, ToSend
<1>6. QED
  BY <1>4, <1>5


(* The session can still dispatch messages and send output.                 *)
Live == connected /\ worker \in {"poll", "pump", "check", "last", "exit"}

(* A channel has been asked for, and a known key proved, in the first d.    *)
OpenBy(d) == \E i \in 1..d : script[i][1] = "open"
KnownBy(d) == \E i \in 1..d : script[i][1] = "known"

(* What the first d messages have earned the client.                        *)
Admitted(d) ==
  /\ worker \in {"none", "kex"} => d = 0
  /\ context.authorized => AllowNone \/ KnownBy(d)
  /\ context.started => context.authorized
  /\ child # "none" => context.started

(* What of the first d messages is with the process, on its way to it, or   *)
(* still with libssh: all the data, each once and in order, until the       *)
(* channel is closed or the connection lost, and from then on what there    *)
(* was.                                                                     *)
Read(d) ==
  /\ Live /\ context.channel = "none" => ~OpenBy(d)
  /\ context.channel # "none" => OpenBy(d)
  /\ context.channel = "none" => Stdin = <<>>
  /\ Live /\ context.channel = "open" => Len(Stdin) = Cardinality(DataUpTo(d))
  /\ \A k \in 1..Len(Stdin) :
       \E i \in DataUpTo(d) :
         Stdin[k] = script[i][2] /\ Cardinality(DataUpTo(i)) = k

(* The inductive invariant of the direction up.                             *)
UpInv ==
  /\ conn = "none" => worker = "none"
  /\ \E d, a \in Nat : Flow(d, a) /\ Admitted(d) /\ Read(d)

(* Counting data messages: one more, or none more.                          *)
LEMMA DataCount ==
  ASSUME NEW n \in Nat
  PROVE  /\ Cardinality(DataUpTo(n)) \in Nat
         /\ DataUpTo(n) \subseteq DataUpTo(n + 1)
         /\ IsData(n + 1) <=> script[n + 1][1] = "data" /\ OpenBy(n)
         /\ IsData(n + 1) => /\ n + 1 \in DataUpTo(n + 1)
                             /\ Cardinality(DataUpTo(n + 1))
                                  = Cardinality(DataUpTo(n)) + 1
         /\ ~IsData(n + 1) => DataUpTo(n + 1) = DataUpTo(n)
         /\ ~OpenBy(n) => Cardinality(DataUpTo(n)) = 0
<1>1. IsFiniteSet(DataUpTo(n)) /\ Cardinality(DataUpTo(n)) \in Nat
  <2>1. IsFiniteSet(1..n)
    BY FS_Interval
  <2>2. DataUpTo(n) \subseteq 1..n
    BY DEF DataUpTo
  <2>3. QED
    BY <2>1, <2>2, FS_Subset, FS_CardinalityType
<1>2. DataUpTo(n) \subseteq DataUpTo(n + 1) /\ n + 1 \notin DataUpTo(n)
  BY DEF DataUpTo
<1>3. IsData(n + 1) <=> script[n + 1][1] = "data" /\ OpenBy(n)
  <2>1. (n + 1) - 1 = n
    OBVIOUS
  <2>2. QED
    BY <2>1 DEF IsData, OpenBy
<1>4. IsData(n + 1) => DataUpTo(n + 1) = DataUpTo(n) \cup {n + 1}
  BY DEF DataUpTo
<1>5. ~IsData(n + 1) => DataUpTo(n + 1) = DataUpTo(n)
  <2>1. SUFFICES ASSUME ~IsData(n + 1) PROVE DataUpTo(n + 1) = DataUpTo(n)
    OBVIOUS
  <2>2. ASSUME NEW i \in DataUpTo(n + 1) PROVE i \in DataUpTo(n)
    <3>1. i \in 1..n + 1 /\ IsData(i)
      BY DEF DataUpTo
    <3>2. i # n + 1
      BY <2>1, <3>1
    <3>3. QED
      BY <3>1, <3>2 DEF DataUpTo
  <2>3. QED
    BY <1>2, <2>2
<1>6. ~OpenBy(n) => DataUpTo(n) = {}
  BY DEF DataUpTo, OpenBy, IsData
<1>7. Cardinality(DataUpTo(n) \cup {n + 1}) = Cardinality(DataUpTo(n)) + 1
  BY <1>1, <1>2, FS_AddElement
<1>8. Cardinality({}) = 0
  BY FS_EmptySet
<1>9. QED
  BY <1>1, <1>2, <1>3, <1>4, <1>5, <1>6, <1>7, <1>8

(* One message more may open a channel or prove a key.                      *)
LEMMA Later ==
  ASSUME NEW d \in Nat
  PROVE  /\ OpenBy(d + 1) <=> OpenBy(d) \/ script[d + 1][1] = "open"
         /\ KnownBy(d + 1) <=> KnownBy(d) \/ script[d + 1][1] = "known"
         /\ ~OpenBy(0)
<1>1. \A i : i \in 1..d + 1 <=> i \in 1..d \/ i = d + 1
  OBVIOUS
<1>2. 1..0 = {}
  OBVIOUS
<1>3. QED
  BY <1>1, <1>2 DEF OpenBy, KnownBy

(* Standard input is made of data.                                          *)
LEMMA StdinTyped ==
  TypeOK => /\ taken \in Seq(Data) /\ input \in Seq(Data) /\ held \in Seq(Data)
            /\ Stdin \in Seq(Data) /\ Len(Stdin) \in Nat
<1>1. SUFFICES ASSUME TypeOK PROVE /\ taken \in Seq(Data)
                                   /\ input \in Seq(Data) /\ held \in Seq(Data)
                                   /\ Stdin \in Seq(Data) /\ Len(Stdin) \in Nat
  OBVIOUS
<1>2. taken \in Seq(Data) /\ input \in Seq(Data) /\ held \in Seq(Data)
  BY <1>1 DEF TypeOK, SessionTypes, StdinTypes, ProcessTypes
<1>3. Stdin \in Seq(Data)
  BY <1>2, Joined DEF Stdin
<1>4. Len(Stdin) \in Nat
  BY <1>3
<1>5. QED
  BY <1>2, <1>3, <1>4

(* A step that takes no message and moves none.                             *)
LEMMA ReadSame ==
  ASSUME NEW d \in Nat, Read(d),
         UNCHANGED <<script, Stdin, context>>, Live' => Live
  PROVE  Read(d)'
<1>1. UNCHANGED <<OpenBy(d), DataUpTo(d), context.channel>>
  BY DEF OpenBy, DataUpTo, IsData
<1>2. \A i \in DataUpTo(d) : DataUpTo(i)' = DataUpTo(i)
  BY DEF DataUpTo, IsData
<1>3. QED
  BY <1>1, <1>2 DEF Read

(* A message that is not data for an open channel.                          *)
LEMMA ReadOn ==
  ASSUME NEW d \in Nat, Read(d), UNCHANGED <<script, Stdin>>, Live' => Live,
         \/ context.channel' = context.channel
         \/ context.channel = "open" /\ context.channel' = "closed"
         \/ /\ context.channel = "none" /\ context.channel' = "open"
            /\ OpenBy(d + 1),
         Live' /\ context.channel' = "none" => script[d + 1][1] # "open",
         Live' /\ context.channel' = "open" => script[d + 1][1] # "data"
  PROVE  Read(d + 1)'
<1>1. UNCHANGED <<OpenBy(d + 1), DataUpTo(d + 1)>>
  BY DEF OpenBy, DataUpTo, IsData
<1>2. \A i \in DataUpTo(d + 1) : DataUpTo(i)' = DataUpTo(i)
  BY DEF DataUpTo, IsData
<1>3. Live' /\ context.channel' = "none" => ~OpenBy(d + 1)
  BY Later DEF Read
<1>4. context.channel' # "none" => OpenBy(d + 1)
  BY Later DEF Read
<1>5. context.channel' = "none" => Stdin' = <<>>
  BY DEF Read
<1>6. Live' /\ context.channel' = "open" =>
        Len(Stdin') = Cardinality(DataUpTo(d + 1))
  <2> SUFFICES ASSUME Live', context.channel' = "open"
               PROVE  Len(Stdin) = Cardinality(DataUpTo(d + 1))
    OBVIOUS
  <2>1. DataUpTo(d + 1) = DataUpTo(d)
    BY DataCount
  <2>2. CASE context.channel = "open"
    BY <2>1, <2>2 DEF Read
  <2>3. CASE context.channel = "none"
    BY <2>1, <2>3, DataCount, EmptySeq DEF Read
  <2>4. QED
    BY <2>2, <2>3
<1>7. \A k \in 1..Len(Stdin) :
        \E i \in DataUpTo(d + 1) :
          Stdin[k] = script[i][2] /\ Cardinality(DataUpTo(i)) = k
  BY DataCount DEF Read
<1>8. QED
  BY <1>1, <1>2, <1>3, <1>4, <1>5, <1>6, <1>7 DEF Read

(* Data for the open channel are appended to the standard input.            *)
LEMMA ReadData ==
  ASSUME TypeOK, NEW d \in Nat, Read(d), Live, context.channel = "open",
         UNCHANGED <<script, context>>,
         script[d + 1][1] = "data", script[d + 1][2] \in Data,
         Stdin' = Append(Stdin, script[d + 1][2])
  PROVE  Read(d + 1)'
<1>1. UNCHANGED <<OpenBy(d + 1), DataUpTo(d + 1)>>
  BY DEF OpenBy, DataUpTo, IsData
<1>2. \A i \in DataUpTo(d + 1) : DataUpTo(i)' = DataUpTo(i)
  BY DEF DataUpTo, IsData
<1>3. OpenBy(d) /\ OpenBy(d + 1) /\ IsData(d + 1)
  BY Later, DataCount DEF Read
<1>4. /\ Len(Stdin') = Len(Stdin) + 1
      /\ \A k \in 1..Len(Stdin) : Stdin'[k] = Stdin[k]
      /\ Stdin'[Len(Stdin) + 1] = script[d + 1][2]
  BY StdinTyped, AppendProperties
<1>5. Len(Stdin') = Cardinality(DataUpTo(d + 1))
  BY <1>3, <1>4, DataCount DEF Read
<1>6. ASSUME NEW k \in 1..Len(Stdin')
      PROVE  \E i \in DataUpTo(d + 1) :
               Stdin'[k] = script[i][2] /\ Cardinality(DataUpTo(i)) = k
  <2>1. CASE k \in 1..Len(Stdin)
    <3>1. PICK i \in DataUpTo(d) :
            Stdin[k] = script[i][2] /\ Cardinality(DataUpTo(i)) = k
      BY <2>1 DEF Read
    <3>2. i \in DataUpTo(d + 1) /\ Stdin'[k] = Stdin[k]
      BY <1>4, <2>1, DataCount
    <3>3. QED
      BY <3>1, <3>2
  <2>2. CASE k = Len(Stdin')
    <3>1. d + 1 \in DataUpTo(d + 1)
      BY <1>3, DataCount
    <3>2. Stdin'[k] = script[d + 1][2]
      BY <1>4, <2>2
    <3>3. QED
      BY <1>5, <2>2, <3>1, <3>2
  <2>3. k \in 1..Len(Stdin) \/ k = Len(Stdin')
    BY <1>4, StdinTyped
  <2>4. QED
    BY <2>1, <2>2, <2>3
<1>7. context.channel' = "open"
  OBVIOUS
<1>8. QED
  BY <1>1, <1>2, <1>3, <1>5, <1>6, <1>7 DEF Read

(* A step that takes no message, and starts no process.                     *)
LEMMA AdmittedSame ==
  ASSUME NEW d \in Nat, Admitted(d), UNCHANGED <<script, context>>,
         child' # "none" => child # "none",
         worker' \in {"none", "kex"} => worker \in {"none", "kex"}
  PROVE  Admitted(d)'
BY DEF Admitted, KnownBy

(* A message may authorize only with a signature or where none is needed; a *)
(* process starts only for the authorized.                                  *)
LEMMA AdmittedOn ==
  ASSUME NEW d \in Nat, Admitted(d), UNCHANGED script,
         worker' \notin {"none", "kex"},
         context.authorized' =>
           context.authorized \/ AllowNone \/ script[d + 1][1] = "known",
         context.authorized => context.authorized',
         context.started' => context.started \/ context.authorized',
         child' # "none" => child # "none" \/ context.started',
         context.started => context.started'
  PROVE  Admitted(d + 1)'
<1>1. KnownBy(d + 1)' = KnownBy(d + 1)
  BY DEF KnownBy
<1>2. QED
  BY <1>1, Later DEF Admitted

(* A step that takes no message and moves no data.                          *)
LEMMA UpSame ==
  ASSUME TypeOK, UpInv,
         UNCHANGED <<Pending, script, asked, Stdin, context>>,
         client' # "reset" => client # "reset",
         child' # "none" => child # "none", Live' => Live,
         worker' \in {"none", "kex"} => worker \in {"none", "kex"},
         conn' = "none" => conn = "none" /\ worker' = worker
  PROVE  UpInv'
<1>1. PICK d \in Nat, a \in Nat : Flow(d, a) /\ Admitted(d) /\ Read(d)
  BY DEF UpInv
<1>2. Flow(d, a)' /\ Admitted(d)' /\ Read(d)'
  BY <1>1, FlowSame, AdmittedSame, ReadSame
<1>3. conn' = "none" => worker' = "none"
  BY DEF UpInv
<1>4. QED
  BY <1>2, <1>3 DEF UpInv

(* A step that takes a message other than data for the open channel.        *)
LEMMA UpTaken ==
  ASSUME TypeOK, UpInv, toSsh # <<>>, toSsh' = Tail(toSsh),
         UNCHANGED <<upPending, arrived, script, asked, client, conn, Stdin>>,
         Live' => Live, worker # "none", worker' \notin {"none", "kex"},
         \/ context.channel' = context.channel
         \/ context.channel = "open" /\ context.channel' = "closed"
         \/ /\ context.channel = "none" /\ context.channel' = "open"
            /\ Head(toSsh)[1] = "open",
         Live' /\ context.channel' = "none" => Head(toSsh)[1] # "open",
         Live' /\ context.channel' = "open" => Head(toSsh)[1] # "data",
         context.authorized' =>
           context.authorized \/ AllowNone \/ Head(toSsh)[1] = "known",
         context.authorized => context.authorized',
         context.started' => context.started \/ context.authorized',
         child' # "none" => child # "none" \/ context.started',
         context.started => context.started'
  PROVE  UpInv'
<1>1. PICK d \in Nat, a \in Nat : Flow(d, a) /\ Admitted(d) /\ Read(d)
  BY DEF UpInv
<1>2. PICK b \in Nat : b = d + 1
  OBVIOUS
<1>3. Flow(b, a)' /\ Head(toSsh) = script[d + 1]
  BY <1>1, <1>2, FlowTaken
<1>4. Admitted(d + 1)'
  BY <1>1, <1>3, AdmittedOn
<1>5. Head(toSsh)[1] = "open" => OpenBy(d + 1)
  BY <1>3, Later
<1>6. Read(d + 1)'
  BY <1>1, <1>3, <1>5, ReadOn
<1>7. conn' # "none"
  BY DEF UpInv
<1>8. Admitted(b)' /\ Read(b)'
  BY <1>2, <1>4, <1>6
<1>9. QED
  BY <1>3, <1>7, <1>8 DEF UpInv

(* channel_data(): the part that write_stdin() takes and the part that stays*)
(* with libssh make what was there, and the new.                            *)
LEMMA UpTakenData ==
  ASSUME TypeOK, UpInv, ChannelData, Polling, Polled,
         UNCHANGED <<clientVars, tunnelVars, connVars>>
  PROVE  UpInv'
<1>1. PICK d \in Nat, a \in Nat : Flow(d, a) /\ Admitted(d) /\ Read(d)
  BY DEF UpInv
<1>2. /\ toSsh # <<>> /\ toSsh' = Tail(toSsh) /\ Head(toSsh)[1] = "data"
      /\ context.channel = "open"
      /\ UNCHANGED <<context, taken, child, connected>>
  BY DEF ChannelData, Next1, OnChannel, processVars
<1>3. /\ UNCHANGED <<upPending, arrived, script, asked, client, conn>>
      /\ Live /\ worker # "none" /\ worker' \notin {"none", "kex"}
  BY DEF clientVars, tunnelVars, connVars, Polling, Polled, Live, Blocked
<1>4. PICK b \in Nat : b = d + 1
  OBVIOUS
<1>5. Flow(b, a)' /\ Head(toSsh) = script[d + 1]
  BY <1>1, <1>2, <1>3, <1>4, FlowTaken
<1>6. Admitted(d + 1)'
  BY <1>1, <1>2, <1>3, AdmittedOn
<1>7. Stdin' = Append(Stdin, Head(toSsh)[2]) /\ Head(toSsh)[2] \in Data
  <2> DEFINE data == Append(held, Head(toSsh)[2])
             x == SubSeq(data, 1, Room(Len(data)))
             y == SubSeq(data, Room(Len(data)) + 1, Len(data))
  <2>1. Head(toSsh)[2] \in Data
    BY NextMessage DEF ChannelData, TypeOK, SessionTypes
  <2>2. taken \in Seq(Data) /\ input \in Seq(Data) /\ held \in Seq(Data)
    BY StdinTyped
  <2>3. data \in Seq(Data) /\ Room(Len(data)) \in 0..Len(data)
    BY WriteStdin
  <2>5. x \in Seq(Data) /\ y \in Seq(Data) /\ x \o y = data
    <3> HIDE DEF data
    <3>1. PICK n \in 0..Len(data) : n = Room(Len(data))
      BY <2>3
    <3>2. /\ SubSeq(data, 1, n) \in Seq(Data)
          /\ SubSeq(data, n + 1, Len(data)) \in Seq(Data)
          /\ SubSeq(data, 1, n) \o SubSeq(data, n + 1, Len(data)) = data
      BY <2>3, Cut
    <3>3. QED
      BY <3>1, <3>2
  <2>6. input' = input \o x /\ held' = y
    BY DEF ChannelData
  <2> DEFINE s == taken \o input
  <2>7. s \in Seq(Data) /\ Stdin = s \o held
    BY <2>2, Joined DEF Stdin
  <2>8. s \o data = Append(Stdin, Head(toSsh)[2])
    BY <2>1, <2>2, <2>7, LastAppended
  <2> HIDE DEF x, y, data
  <2>a. x \in Seq(Data) /\ y \in Seq(Data)
    BY <2>5
  <2>b. s \in Seq(Data)
    BY <2>7
  <2>9. taken \o (input \o x) = s \o x
    <3>1. taken \in Seq(Data) /\ input \in Seq(Data) /\ x \in Seq(Data)
      BY <2>2, <2>a
    <3>2. (taken \o input) \o x = taken \o (input \o x)
      BY <3>1, Joined, SMTT(20)
    <3>3. QED
      BY <3>2
  <2>10. Stdin' = (taken \o (input \o x)) \o y
    BY <1>2, <2>6 DEF Stdin
  <2> HIDE DEF s
  <2>11. (s \o x) \o y = s \o (x \o y)
    BY <2>a, <2>b, Joined, SMTT(20)
  <2>12. QED
    BY <2>1, <2>5, <2>8, <2>9, <2>10, <2>11
<1>8. Read(d + 1)'
  BY <1>1, <1>2, <1>3, <1>5, <1>7, ReadData
<1>9. conn' # "none"
  BY <1>3 DEF UpInv
<1>10. Admitted(b)' /\ Read(b)'
  BY <1>4, <1>6, <1>8
<1>11. QED
  BY <1>5, <1>9, <1>10 DEF UpInv

(* All of libssh's callbacks.                                               *)
LEMMA UpDispatch ==
  ASSUME TypeOK, UpInv, Dispatch, UNCHANGED <<clientVars, tunnelVars, connVars>>
  PROVE  UpInv'
<1>1. /\ UNCHANGED <<upPending, arrived, script, asked, client, conn>>
      /\ Live /\ worker # "none" /\ worker' \notin {"none", "kex"}
      /\ Polling /\ Polled
  BY DEF Dispatch, clientVars, tunnelVars, connVars, Polling, Polled, Live,
     Blocked
<1>n. conn # "none"
  BY <1>1 DEF UpInv
<1>2. CASE ChannelData
  BY <1>1, <1>2, UpTakenData
<1>3. CASE Auth \/ ChannelOpen \/ ChannelEnv \/ ChannelPty
             \/ StartSessionProcess \/ StartFails \/ StartRefused
             \/ ChannelEof \/ ChannelClose \/ Ignore
  <2>1. toSsh # <<>> /\ toSsh' = Tail(toSsh)
    BY <1>3 DEF Auth, ChannelOpen, ChannelEnv, ChannelPty, StartSessionProcess,
       StartFails, StartRefused, ChannelEof, ChannelClose, Ignore, Next1
  <2>2. UNCHANGED Stdin
    BY <1>3 DEF Auth, ChannelOpen, ChannelEnv, ChannelPty, StartSessionProcess,
       ProcessStarts, StartFails, StartRefused, ChannelEof, ChannelClose,
       Ignore, stdinVars, processVars, Stdin
  <2>c. context \in Context
    BY DEF TypeOK, SessionTypes, ContextTypes
  <2>3. \/ context.channel' = context.channel
        \/ context.channel = "open" /\ context.channel' = "closed"
        \/ /\ context.channel = "none" /\ context.channel' = "open"
           /\ Head(toSsh)[1] = "open"
    BY <1>3, <2>c DEF Auth, ChannelOpen, ChannelEnv, ChannelPty,
       StartSessionProcess, StartFails, StartRefused, ChannelEof, ChannelClose,
       Ignore, Next1, OnChannel, Context
  <2>m. /\ "open" \notin AuthMessage /\ "data" \notin AuthMessage
        /\ \A m : AuthSuccess(m) /\ m # "probe" => AllowNone \/ m = "known"
    BY DEF AuthMessage, AuthSuccess
  <2>4. /\ context.channel' = "none" => Head(toSsh)[1] # "open"
        /\ context.channel' = "open" => Head(toSsh)[1] # "data"
    BY <1>3, <2>c, <2>m DEF Auth, ChannelOpen, ChannelEnv, ChannelPty,
       StartSessionProcess, StartFails, StartRefused, ChannelEof, ChannelClose,
       Ignore, Next1, OnChannel, Context
  <2>5. /\ context.authorized' =>
             context.authorized \/ AllowNone \/ Head(toSsh)[1] = "known"
        /\ context.authorized => context.authorized'
        /\ context.started' => context.started \/ context.authorized'
        /\ child' # "none" => child # "none" \/ context.started'
        /\ context.started => context.started'
    BY <1>3, <2>c, <2>m DEF Auth, ChannelOpen, ChannelEnv, ChannelPty,
       StartSessionProcess, StartFails, StartRefused, ChannelEof, ChannelClose,
       Ignore, Next1, OnChannel, Context, processVars
  <2>6. QED
    BY <1>1, <2>1, <2>2, <2>3, <2>4, <2>5, UpTaken
<1>4. CASE Disconnect
  <2>1. /\ ~Live' /\ UNCHANGED <<context, Stdin, child>>
        /\ UNCHANGED toSsh \/ (toSsh # <<>> /\ toSsh' = Tail(toSsh))
    BY <1>4 DEF Disconnect, Live, Stdin, stdinVars, processVars
  <2>2. CASE UNCHANGED toSsh
    <3>1. UNCHANGED Pending
      BY <1>1, <2>2 DEF Pending
    <3>2. QED
      BY <1>1, <1>n, <2>1, <3>1, UpSame
  <2>3. CASE toSsh # <<>> /\ toSsh' = Tail(toSsh)
    BY <1>1, <2>1, <2>3, UpTaken
  <2>4. QED
    BY <2>1, <2>2, <2>3
<1>5. QED
  BY <1>2, <1>3, <1>4 DEF Dispatch

(* The key exchange takes the first message, before any other is looked at. *)
LEMMA UpKeyExchange ==
  ASSUME TypeOK, UpInv, KeyExchange, UNCHANGED <<clientVars, tunnelVars,
      connVars>>
  PROVE  UpInv'
<1>1. PICK d \in Nat, a \in Nat : Flow(d, a) /\ Admitted(d) /\ Read(d)
  BY DEF UpInv
<1>2. /\ toSsh # <<>> /\ toSsh' = Tail(toSsh) /\ worker = "kex"
      /\ UNCHANGED <<context, Stdin, child>>
      /\ UNCHANGED <<upPending, arrived, script, asked, client, conn>>
      /\ worker' = IF Head(toSsh)[1] = "kex" THEN "poll" ELSE "stop"
  BY DEF KeyExchange, clientVars, tunnelVars, connVars, Stdin, stdinVars,
     processVars
<1>3. d = 0
  BY <1>1, <1>2 DEF Admitted
<1>4. PICK b \in Nat : b = d + 1
  OBVIOUS
<1>5. Flow(b, a)' /\ Head(toSsh) = script[d + 1]
  BY <1>1, <1>2, <1>4, FlowTaken
<1>6. Admitted(d + 1)'
  BY <1>1, <1>2, AdmittedOn
<1>7. ~OpenBy(d) /\ context.channel = "none" /\ Stdin = <<>>
  BY <1>1, <1>3, Later DEF Read
<1>8. Live' => ~OpenBy(d + 1)
  BY <1>2, <1>5, <1>7, Later DEF Live
<1>9. Len(Stdin) = 0 /\ 1..0 = {}
  BY <1>7
<1>10. Read(d + 1)'
  <2>1. OpenBy(d + 1)' = OpenBy(d + 1)
    BY <1>2 DEF OpenBy
  <2>2. UNCHANGED <<context, Stdin>>
    BY <1>2
  <2>3. QED
    BY <1>7, <1>8, <1>9, <2>1, <2>2 DEF Read
<1>11. conn' # "none"
  BY <1>2 DEF UpInv
<1>12. Admitted(b)' /\ Read(b)'
  BY <1>4, <1>6, <1>10
<1>13. QED
  BY <1>5, <1>11, <1>12 DEF UpInv

(* The steps of the worker and of the process.                              *)
LEMMA UpSession ==
  ASSUME TypeOK, UpInv, Session
  PROVE  UpInv'
<1>1. /\ UNCHANGED <<clientVars, tunnelVars, connVars>>
      /\ UNCHANGED <<upPending, arrived, script, asked, client, conn>>
  BY DEF Session, clientVars, tunnelVars, connVars
<1>2. conn = "none" => worker = "none"
  BY DEF UpInv
<1>3. CASE Dispatch
  BY <1>1, <1>3, UpDispatch
<1>4. CASE KeyExchange
  BY <1>1, <1>4, UpKeyExchange
<1>5. CASE WriteKills \/ KeyExchangeFails \/ PollTimeout \/ PumpOutput
             \/ PumpedOutput \/ PollExit \/ Check \/ SendExit \/ Stop \/ Reap
             \/ Free \/ Done \/ ChildWrites \/ ChildExits
  <2>1. UNCHANGED <<toSsh, taken, input, held, context>>
    BY <1>5 DEF WriteKills, KeyExchangeFails, PollTimeout, PumpOutput,
       PumpedOutput, PollExit, Check, SendExit, Stop, Reap, Free, Done,
       ChildWrites, ChildExits, socketVars, stdinVars, processVars
  <2>2. UNCHANGED <<Pending, Stdin>>
    BY <1>1, <2>1 DEF Pending, Stdin
  <2>c. child' # "none" => child # "none"
    BY <1>5 DEF WriteKills, KeyExchangeFails, PollTimeout, PumpOutput,
       PumpedOutput, PollExit, Check, SendExit, Stop, Reap, Free, Done,
       ChildWrites, ChildExits, processVars
  <2>w. \A ms : Write(ms) => (connected' => connected)
    BY DEF Write
  <2>u. \/ UNCHANGED connected
        \/ connected' = FALSE
        \/ \E ms : Write(ms)
    BY <1>5 DEF WriteKills, KeyExchangeFails, PollTimeout, PumpOutput,
       PumpedOutput, PollExit, Check, SendExit, Stop, Reap, Free, Done,
       ChildWrites, ChildExits, socketVars
  <2>3. connected' => connected
    BY <2>w, <2>u
  <2>4. /\ worker' \in {"poll", "pump", "check", "last", "exit"} =>
             worker \in {"poll", "pump", "check", "last", "exit"}
        /\ worker' \in {"none", "kex"} => worker \in {"none", "kex"}
        /\ worker = "none" => worker' = worker
    BY <1>5 DEF WriteKills, KeyExchangeFails, PollTimeout, PumpOutput,
       PumpedOutput, PollExit, Check, SendExit, Stop, Reap, Free, Done,
       ChildWrites, ChildExits
  <2>5. QED
    BY <1>1, <1>2, <2>1, <2>2, <2>c, <2>3, <2>4, UpSame DEF Live
<1>6. CASE ChildReads
  <2>1. /\ UNCHANGED <<worker, connected, toSsh, context, held, child>>
        /\ input # <<>> /\ taken' = Append(taken, Head(input))
        /\ input' = Tail(input)
    BY <1>6 DEF ChildReads, socketVars
  <2>2. taken \in Seq(Data) /\ input \in Seq(Data)
    BY StdinTyped
  <2>3. taken' \o input' = taken \o input
    BY <2>1, <2>2, HeadMoved
  <2>4. UNCHANGED <<Pending, Stdin>>
    BY <1>1, <2>1, <2>3 DEF Pending, Stdin
  <2>5. QED
    BY <1>1, <2>1, <2>4, UpSame DEF Live
<1>7. QED
  BY <1>3, <1>4, <1>5, <1>6 DEF Session, WorkerNext, ChildNext

(* Every step keeps the invariant.                                          *)
LEMMA UpStep == TypeOK /\ UpInv /\ [Next]_vars => UpInv'
<1> SUFFICES ASSUME TypeOK, UpInv, [Next]_vars PROVE UpInv'
  OBVIOUS
<1>1. CASE UNCHANGED vars
  <2>1. UNCHANGED <<Pending, Stdin>>
    BY <1>1 DEF vars, sessionVars, socketVars, stdinVars, processVars,
       clientVars, tunnelVars, connVars, Pending, Stdin
  <2>2. UNCHANGED <<script, asked, context, client, child, worker, connected,
                    conn>>
    BY <1>1 DEF vars, sessionVars, socketVars, processVars, clientVars,
       connVars
  <2>3. QED
    BY <2>1, <2>2, UpSame DEF Live
<1>2. CASE ClientSends
  <2>1. PICK d \in Nat, a \in Nat : Flow(d, a) /\ Admitted(d) /\ Read(d)
    BY DEF UpInv
  <2>2. PICK b \in Nat : Flow(d, b)'
    BY <1>2, <2>1, FlowSent
  <2>3. UNCHANGED <<script, context, child, worker, connected, Stdin, conn>>
    BY <1>2 DEF ClientSends, sessionVars, socketVars, stdinVars, processVars,
       connVars, Stdin
  <2>4. Admitted(d)' /\ Read(d)'
    BY <2>1, <2>3, AdmittedSame, ReadSame DEF Live
  <2>5. QED
    BY <2>2, <2>3, <2>4 DEF UpInv
<1>3. CASE ClientEnds \/ ClientResets \/ ClientReads
  <2>1. /\ UNCHANGED <<script, asked, context, child, worker, connected, conn,
                       toSsh, upPending, arrived, taken, input, held>>
        /\ client' # "reset" => client # "reset"
    BY <1>3 DEF ClientEnds, ClientResets, ClientReads, sessionVars, socketVars,
       stdinVars, processVars, connVars, tunnelVars
  <2>2. UNCHANGED <<Pending, Stdin>>
    BY <2>1 DEF Pending, Stdin
  <2>3. QED
    BY <2>1, <2>2, UpSame DEF Live
<1>4. CASE AcceptNew
  <2>1. /\ UNCHANGED <<script, asked, context, child, client, toSsh, upPending,
                       arrived, taken, input, held>>
        /\ worker = "none" /\ worker' = "kex" /\ conn' = "serving"
    BY <1>4 DEF AcceptNew, UpInv, clientVars, tunnelVars, stdinVars,
       processVars
  <2>2. UNCHANGED <<Pending, Stdin>>
    BY <2>1 DEF Pending, Stdin
  <2>3. QED
    BY <2>1, <2>2, UpSame DEF Live
<1>5. CASE SendToSsh
  <2>1. /\ UNCHANGED <<script, asked, context, child, client, worker, connected,
                       taken, input, held, conn>>
    BY <1>5 DEF SendToSsh, clientVars, stdinVars, processVars
  <2>2. UNCHANGED <<Pending, Stdin>>
    BY <1>5, <2>1, SendToSshPending DEF Stdin
  <2>3. QED
    BY <2>1, <2>2, UpSame DEF Live
<1>6. CASE AcceptFails \/ TunnelFailed \/ SendThrows \/ ReceiveThrows
             \/ SendToTunnel \/ NotDone \/ Finish \/ Catch \/ Caught \/ Erase
             \/ Join \/ StopServer
  <2>1. /\ UNCHANGED <<script, asked, context, child, client, worker, connected,
                       toSsh, upPending, arrived, taken, input, held>>
        /\ conn' = "none" => conn = "none"
    BY <1>6 DEF AcceptFails, TunnelFailed, SendThrows, ReceiveThrows,
       SendToTunnel, NotDone, Finish, Catch, Caught, Erase, Join, StopServer,
       sessionVars, socketVars, stdinVars, processVars, clientVars, tunnelVars,
       connVars
  <2>2. UNCHANGED <<Pending, Stdin>>
    BY <2>1 DEF Pending, Stdin
  <2>3. QED
    BY <2>1, <2>2, UpSame DEF Live
<1>7. CASE Session
  BY <1>7, UpSession
<1>8. QED
  BY <1>1, <1>2, <1>3, <1>4, <1>5, <1>6, <1>7 DEF Next, Client, Service

(* The initial states satisfy the invariant.                                *)
LEMMA UpInitially == Init => UpInv
<1> SUFFICES ASSUME Init PROVE UpInv
  OBVIOUS
<1> USE DEF Init, SessionInit, NoContext
<1>1. /\ Len(<<>>) = 0 /\ 1..0 = {} /\ 0 \in Nat /\ 0 - 0 = 0
      /\ Pending = <<>> /\ Stdin = <<>>
  BY DEF Pending, Stdin
<1>2. PICK z \in Nat : z = 0
  OBVIOUS
<1>3. Flow(z, z)
  BY <1>1, <1>2 DEF Flow
<1>4. Admitted(z)
  BY <1>2 DEF Admitted
<1>5. Read(z)
  BY <1>1, <1>2, Later DEF Read, Live
<1>6. QED
  BY <1>2, <1>3, <1>4, <1>5 DEF UpInv

(* What the invariant says of the process's input and of who has a process. *)
LEMMA UpAnswers == TypeOK /\ UpInv => StdinInOrder /\ OnlyAuthorized
<1> SUFFICES ASSUME TypeOK, UpInv PROVE StdinInOrder /\ OnlyAuthorized
  OBVIOUS
<1>1. PICK d \in Nat, a \in Nat : Flow(d, a) /\ Admitted(d) /\ Read(d)
  BY DEF UpInv
<1>2. d <= asked /\ asked \in Nat
  BY <1>1, PendingTypes DEF Flow
<1>3. DataUpTo(d) \subseteq DataUpTo(asked)
  BY <1>2 DEF DataUpTo
<1>4. 1..d \subseteq 1..asked
  BY <1>2
<1>5. StdinInOrder
  BY <1>1, <1>3 DEF StdinInOrder, Read
<1>6. OnlyAuthorized
  BY <1>1, <1>4 DEF OnlyAuthorized, Admitted, KnownBy
<1>7. QED
  BY <1>5, <1>6

(* What the client sends the process reads in order, each once, for every   *)
(* client and every size of the pipe: none is lost or doubled in            *)
(* channel_data(), write_stdin() and service().                             *)
THEOREM StdinInOrderHolds == Spec => []StdinInOrder
<1>1. QED
  BY InitTypes, StepTypes, UpInitially, UpStep, UpAnswers, PTL DEF Spec

(* Only a client that has signed with a known key has a process, unless the *)
(* service is open to all, whatever it sends and in whatever order: a probe *)
(* that names the key and a signature that does not verify do not count.    *)
THEOREM OnlyAuthorizedHolds == Spec => []OnlyAuthorized
<1>1. QED
  BY InitTypes, StepTypes, UpInitially, UpStep, UpAnswers, PTL DEF Spec

(* What has been said to the client: what it has heard, what the stream     *)
(* still has to send, what service() keeps pending, and what is in the      *)
(* socket pair.                                                             *)
Spoken == ((told \o sending) \o downPending) \o fromSsh
Silent == told = <<>> /\ sending = <<>> /\ downPending = <<>> /\ fromSsh = <<>>

(* The greeting, if there is one, the blocks of output in order, and after  *)
(* the last of them, or of those before the client closed the channel, the  *)
(* exit status, once the process has been reaped.                           *)
Form(s) ==
  \A i \in 1..Len(s) :
    LET block == FirstBlock + i - 1
    IN \/ s[i] = <<"out", block>>
       \/ /\ s[i] = ExitStatus /\ i = Len(s) /\ child = "reaped"
          /\ block = wrote + 1 \/ context.channel = "closed"

(* Nothing is said of an exit.                                              *)
NoExit(s) == \A i \in 1..Len(s) : s[i] # ExitStatus

(* Nothing is said before there is a process.                               *)
Unstarted ==
  ~context.started => /\ ~context.motd /\ wrote = 0 /\ output = <<>>
                      /\ Silent /\ child = "none"
(* What the process wrote last is in its pipe, in order.                    *)
Written ==
  /\ Len(output) <= wrote
  /\ \A i \in 1..Len(output) : output[i] = <<"out", wrote - Len(output) + i>>
(* run_ssh_session() comes to the exit status only after poll_exit(), and   *)
(* with nothing left in the pipe if it can still be sent.                   *)
Phases ==
  /\ worker \in {"none", "kex"} => ~context.started
  /\ worker \in {"last", "exit"} => child = "reaped"
  /\ worker = "exit" /\ connected /\ context.channel # "closed" => output = <<>>
(* What is said has that form; and as long as the session goes on, nothing  *)
(* is said of an exit, and until the channel is closed all that the process *)
(* wrote has been said or is in its pipe.                                   *)
Heard ==
  /\ Form(told)
  /\ client # "reset" => Form(Spoken)
  /\ client # "reset" /\ Live => NoExit(Spoken)
  /\ client # "reset" /\ Live /\ context.channel # "closed" =>
       FirstBlock + Len(Spoken) + Len(output) = wrote + 1

(* The inductive invariant of the direction down.                           *)
DownInv == Unstarted /\ Written /\ Phases /\ Heard

(* The types of what is said.                                               *)
LEMMA SpokenTyped ==
  ASSUME TypeOK
  PROVE  /\ told \in Seq(Said) /\ sending \in Seq(Said)
         /\ downPending \in Seq(Said) /\ fromSsh \in Seq(Said)
         /\ Spoken \in Seq(Said) /\ Len(Spoken) \in Nat
         /\ output \in Seq(Said) /\ Len(output) \in Nat /\ wrote \in Nat
         /\ FirstBlock \in {0, 1}
<1>1. /\ told \in Seq(Said) /\ sending \in Seq(Said)
      /\ downPending \in Seq(Said) /\ fromSsh \in Seq(Said)
      /\ output \in Seq(Said) /\ wrote \in Nat
  BY DEF TypeOK, SessionTypes, SocketTypes, ClientTypes, TunnelTypes, ConnTypes,
     ProcessTypes
<1>2. Spoken \in Seq(Said)
  BY <1>1, Joined DEF Spoken
<1>3. Len(Spoken) \in Nat /\ Len(output) \in Nat
  BY <1>1, <1>2
<1>4. FirstBlock \in {0, 1}
  BY DEF FirstBlock
<1>5. QED
  BY <1>1, <1>2, <1>3, <1>4

(* What has the form has it up to any point.                                *)
LEMMA FormPrefix ==
  ASSUME NEW s \in Seq(Said), NEW t \in Seq(Said), Form(s \o t)
  PROVE  Form(s)
<1> DEFINE u == s \o t
<1>1. /\ u \in Seq(Said) /\ Len(u) = Len(s) + Len(t)
      /\ Len(s) \in Nat /\ Len(t) \in Nat
      /\ \A i \in 1..Len(s) : u[i] = s[i]
  BY ConcatProperties
<1>2. Form(u)
  OBVIOUS
<1> HIDE DEF u
<1>3. ASSUME NEW i \in 1..Len(s)
      PROVE  \/ s[i] = <<"out", FirstBlock + i - 1>>
             \/ /\ s[i] = ExitStatus /\ i = Len(s) /\ child = "reaped"
                /\ \/ FirstBlock + i - 1 = wrote + 1
                   \/ context.channel = "closed"
  <2>1. i \in 1..Len(u) /\ u[i] = s[i] /\ (i = Len(u) => i = Len(s))
    BY <1>1
  <2>2. QED
    BY <1>2, <2>1 DEF Form
<1>4. QED
  BY <1>3 DEF Form

(* Where all queues are empty nothing has been said.                        *)
LEMMA SilentSpoken == Silent => Spoken = <<>> /\ Len(Spoken) = 0
BY DEF Silent, Spoken

(* A step that says nothing, and drops nothing before a reset.              *)
LEMMA DownSame ==
  ASSUME TypeOK, DownInv,
         UNCHANGED <<output, wrote, told, context.started, context.motd>>,
         context.channel = "closed" => context'.channel = "closed",
         Silent => Silent',
         child = "reaped" => child' = "reaped",
         child = "none" => child' = "none",
         client' # "reset" => client # "reset" /\ UNCHANGED Spoken,
         Live' => Live,
         worker' \in {"none", "kex"} => worker \in {"none", "kex"},
         worker' \in {"last", "exit"} => child' = "reaped",
         worker' = "exit" /\ connected' /\ context'.channel # "closed" =>
           output = <<>>
  PROVE  DownInv'
<1>1. Unstarted' /\ Written' /\ Phases'
  BY DEF DownInv, Unstarted, Written, Phases
<1>2. FirstBlock' = FirstBlock
  BY DEF FirstBlock
<1>3. Form(told)'
  BY <1>2 DEF DownInv, Heard, Form
<1>4. client' # "reset" => Form(Spoken)'
  BY <1>2 DEF DownInv, Heard, Form
<1>5. client' # "reset" /\ Live' => NoExit(Spoken)'
  BY DEF DownInv, Heard, NoExit
<1>6. Heard'
  BY <1>2, <1>3, <1>4, <1>5 DEF DownInv, Heard
<1>7. QED
  BY <1>1, <1>6 DEF DownInv

(* What is written to the socket is said last.                              *)
LEMMA DownSaid ==
  ASSUME TypeOK, DownInv, NEW e \in Said,
         fromSsh' = Append(fromSsh, e),
         UNCHANGED <<told, sending, downPending>>
  PROVE  /\ Spoken' = Append(Spoken, e)
         /\ Len(Spoken') = Len(Spoken) + 1
         /\ \A i \in 1..Len(Spoken) : Spoken'[i] = Spoken[i]
         /\ Spoken'[Len(Spoken) + 1] = e
<1> DEFINE t == (told \o sending) \o downPending
<1>1. t \in Seq(Said) /\ fromSsh \in Seq(Said) /\ Spoken \in Seq(Said)
  BY SpokenTyped, Joined
<1>2. Spoken' = t \o Append(fromSsh, e) /\ Spoken = t \o fromSsh
  BY DEF Spoken
<1> HIDE DEF t
<1>3. t \o Append(fromSsh, e) = Append(t \o fromSsh, e)
  BY <1>1, LastAppended
<1>4. Spoken' = Append(Spoken, e)
  BY <1>2, <1>3
<1>5. QED
  BY <1>1, <1>4, AppendProperties

(* Write() says all of it or nothing, and then disconnects.                 *)
LEMMA WriteSaid ==
  ASSUME TypeOK, NEW e \in Said, Write(<<e>>)
  PROVE  /\ connected' => connected /\ fromSsh' = Append(fromSsh, e)
         /\ UNCHANGED fromSsh \/ (connected /\ fromSsh' = Append(fromSsh, e))
         /\ connected \in BOOLEAN /\ connected' \in BOOLEAN
<1>1. fromSsh \in Seq(Said) /\ connected \in BOOLEAN
  BY DEF TypeOK, SessionTypes, SocketTypes
<1>2. fromSsh \o <<e>> = Append(fromSsh, e)
  BY <1>1, LastAppended
<1>3. QED
  BY <1>1, <1>2 DEF Write

(* start_session_process(): the greeting is the first that is said.         *)
LEMMA DownStart ==
  ASSUME TypeOK, DownInv, StartSessionProcess, Polling, Polled,
         UNCHANGED <<clientVars, tunnelVars, connVars>>
  PROVE  DownInv'
<1>1. /\ ~context.started /\ context \in Context
      /\ UNCHANGED <<told, sending, downPending, client, output, wrote>>
      /\ child' = "running"
  BY DEF StartSessionProcess, ProcessStarts, clientVars, tunnelVars, connVars,
     TypeOK, SessionTypes, ContextTypes
<1>2. /\ ~context.motd /\ wrote = 0 /\ output = <<>> /\ child = "none"
      /\ told = <<>> /\ sending = <<>> /\ downPending = <<>> /\ fromSsh = <<>>
  BY <1>1 DEF DownInv, Unstarted, Silent
<1>3. worker' = "pump"
  BY <1>2 DEF DownInv, Phases, Polling, Polled, Blocked
<1>4. PICK greet \in BOOLEAN :
        /\ context' = [context EXCEPT !.started = TRUE, !.motd = greet]
        /\ greet => Write(<<Motd>>)
        /\ ~greet => UNCHANGED <<connected, fromSsh>>
  <2>1. context.pty \in BOOLEAN
    BY <1>1 DEF Context
  <2>2. PICK m \in {"shell", "exec"} :
          LET greet == context.pty /\ m = "shell"
          IN /\ context' = [context EXCEPT !.started = TRUE, !.motd = greet]
             /\ IF greet THEN Write(<<Motd>>)
                ELSE UNCHANGED <<connected, fromSsh>>
    BY DEF StartSessionProcess
  <2>3. (context.pty /\ m = "shell") \in BOOLEAN
    OBVIOUS
  <2>4. QED
    BY <2>2, <2>3
<1>5. context'.started = TRUE /\ context'.motd = greet
  BY <1>1, <1>4 DEF Context
<1>6. Unstarted' /\ Phases' /\ Written'
  <2>1. Len(<<>>) = 0 /\ 1..0 = {}
    OBVIOUS
  <2>2. Written'
    BY <1>1, <1>2, <2>1 DEF Written
  <2>3. QED
    BY <1>3, <1>5, <2>2 DEF Unstarted, Phases
<1>7. Heard'
  <2>1. Len(<<>>) = 0 /\ 1..0 = {} /\ Len(output') = 0 /\ Len(told') = 0
    BY <1>1, <1>2
  <2>2. Form(told)'
    BY <2>1 DEF Form
  <2>3. CASE fromSsh' = <<>> /\ (greet => ~connected')
    <3>1. Len(Spoken') = 0 /\ Spoken' = <<>>
      BY <1>1, <1>2, <2>3 DEF Spoken
    <3>2. Form(Spoken)'
      BY <2>1, <3>1 DEF Form
    <3>3. Live' => FirstBlock' = 1
      BY <1>5, <2>3 DEF Live, FirstBlock
    <3>4. NoExit(Spoken)'
      BY <2>1, <3>1 DEF NoExit
    <3>5. QED
      BY <1>1, <1>2, <2>1, <2>2, <3>1, <3>2, <3>3, <3>4 DEF Heard
  <2>4. CASE fromSsh' = Append(fromSsh, Motd) /\ greet
    <3>1. Spoken = <<>>
      BY <1>2 DEF Spoken
    <3>2. Len(Spoken') = 1 /\ Spoken'[1] = Motd
      BY <1>1, <2>1, <2>4, <3>1, DownSaid, Sayings
    <3>3. FirstBlock' = 0
      BY <1>5, <2>4 DEF FirstBlock
    <3>4. Form(Spoken)'
      <4>1. \A i \in 1..1 : i = 1 /\ 0 + i - 1 = 0
        OBVIOUS
      <4>2. QED
        BY <3>2, <3>3, <4>1 DEF Form, Motd
    <3>5. NoExit(Spoken)'
      <4>1. Motd # ExitStatus
        BY DEF Motd, ExitStatus
      <4>2. \A i \in 1..1 : i = 1
        OBVIOUS
      <4>3. QED
        BY <3>2, <4>1, <4>2 DEF NoExit
    <3>6. QED
      BY <1>1, <1>2, <2>1, <2>2, <3>2, <3>3, <3>4, <3>5 DEF Heard
  <2>5. Write(<<Motd>>) =>
          \/ fromSsh' = Append(fromSsh, Motd)
          \/ fromSsh' = fromSsh /\ ~connected'
    BY WriteSaid, Sayings
  <2>6. QED
    BY <1>2, <1>4, <2>3, <2>4, <2>5
<1>8. QED
  BY <1>6, <1>7 DEF DownInv

(* All of libssh's callbacks.                                               *)
LEMMA DownDispatch ==
  ASSUME TypeOK, DownInv, Dispatch,
         UNCHANGED <<clientVars, tunnelVars, connVars>>
  PROVE  DownInv'
<1>1. Polling /\ Polled
  BY DEF Dispatch
<1>2. CASE StartSessionProcess
  BY <1>1, <1>2, DownStart
<1>3. CASE Auth \/ ChannelOpen \/ ChannelEnv \/ ChannelPty \/ StartFails
             \/ StartRefused \/ ChannelData \/ ChannelEof \/ ChannelClose
             \/ Disconnect \/ Ignore
  <2>1. context \in Context
    BY DEF TypeOK, SessionTypes, ContextTypes
  <2>2. UNCHANGED <<fromSsh, processVars>>
    BY <1>3 DEF Auth, ChannelOpen, ChannelEnv, ChannelPty, StartFails,
       StartRefused, ChannelData, ChannelEof, ChannelClose, Disconnect, Ignore
  <2>3. UNCHANGED connected \/ connected' = FALSE
    BY <1>3 DEF Auth, ChannelOpen, ChannelEnv, ChannelPty, StartFails,
       StartRefused, ChannelData, ChannelEof, ChannelClose, Disconnect, Ignore
  <2>4. UNCHANGED <<context.started, context.motd>>
    BY <1>3, <2>1 DEF Auth, ChannelOpen, ChannelEnv, ChannelPty, StartFails,
       StartRefused, ChannelData, ChannelEof, ChannelClose, Disconnect, Ignore,
       Context
  <2>c. context.channel = "closed" => context'.channel = "closed"
    BY <1>3, <2>1 DEF Auth, ChannelOpen, ChannelEnv, ChannelPty, StartFails,
       StartRefused, ChannelData, ChannelEof, ChannelClose, Disconnect, Ignore,
       OnChannel, Context
  <2>5. /\ UNCHANGED <<told, sending, downPending, client, output, wrote,
             child>>
        /\ UNCHANGED <<Spoken, Silent>>
    BY <2>2 DEF processVars, clientVars, tunnelVars, connVars, Spoken, Silent
  <2>6. /\ Live' => Live
        /\ worker' \notin {"none", "kex"}
        /\ worker' \in {"last", "exit"} => worker' = worker
    BY <1>1, <2>3 DEF Live, Polling, Polled, Blocked
  <2>7. /\ worker' \in {"last", "exit"} => child' = "reaped"
        /\ worker' = "exit" /\ connected' /\ context'.channel # "closed" =>
             output = <<>>
    BY <2>3, <2>5, <2>6, <2>c DEF DownInv, Phases
  <2>8. QED
    BY <2>4, <2>5, <2>6, <2>7, <2>c, DownSame
<1>4. QED
  BY <1>2, <1>3 DEF Dispatch

(* pump_output() says the next block, or loses it.                          *)
LEMMA DownPump ==
  ASSUME TypeOK, DownInv, PumpOutput,
         UNCHANGED <<clientVars, tunnelVars, connVars>>
  PROVE  DownInv'
<1> DEFINE e == Head(output)
<1>1. /\ UNCHANGED <<told, sending, downPending, client, wrote, context, child>>
      /\ output # <<>> /\ output' = Tail(output)
      /\ IF context.channel = "closed" THEN UNCHANGED <<connected, fromSsh>>
         ELSE Write(<<e>>)
      /\ worker \in {"pump", "last"}
      /\ worker' = IF connected' /\ context.channel # "closed" THEN worker
                   ELSE IF worker = "pump" THEN "check" ELSE "exit"
  BY DEF PumpOutput, clientVars, tunnelVars, connVars
<1>2. /\ e \in Said /\ e = output[1]
      /\ Len(output) \in Nat /\ Len(output) # 0
      /\ Len(output') = Len(output) - 1
      /\ \A i \in 1..Len(output') : output'[i] = output[i + 1]
  <2>1. output \in Seq(Said)
    BY SpokenTyped
  <2>2. QED
    BY <1>1, <2>1, HeadTailProperties, EmptySeq
<1> HIDE DEF e
<1>3. context.started
  BY <1>1 DEF DownInv, Unstarted
<1>4. wrote \in Nat /\ Len(output) <= wrote
  BY SpokenTyped DEF DownInv, Written
<1>5. Written'
  <2>1. Len(output') <= wrote'
    BY <1>1, <1>2, <1>4
  <2>2. ASSUME NEW i \in 1..Len(output')
        PROVE  output'[i] = <<"out", wrote' - Len(output') + i>>
    <3>1. PICK j \in 1..Len(output) : j = i + 1
      BY <1>2
    <3>2. output[j] = <<"out", wrote - Len(output) + j>>
      BY DEF DownInv, Written
    <3>3. wrote - Len(output) + j = wrote' - Len(output') + i
      BY <1>1, <1>2, <1>4, <3>1
    <3>4. QED
      BY <1>2, <3>1, <3>2, <3>3
  <2>3. QED
    BY <2>1, <2>2 DEF Written
<1>6. Unstarted' /\ Phases'
  BY <1>1, <1>3 DEF DownInv, Unstarted, Phases
<1>7. Heard'
  <2>0. FirstBlock' = FirstBlock
    BY <1>1 DEF FirstBlock
  <2>1. Form(told)'
    BY <1>1, <2>0 DEF DownInv, Heard, Form
  <2>2. CASE /\ UNCHANGED fromSsh
             /\ connected' => connected /\ context.channel = "closed"
    <3>1. UNCHANGED Spoken /\ (Live' => Live /\ context.channel = "closed")
      <4>1. UNCHANGED Spoken
        BY <1>1, <2>2 DEF Spoken
      <4>2. QED
        BY <1>1, <2>2, <4>1 DEF Live
    <3>2. client # "reset" => Form(Spoken)'
      BY <1>1, <2>0, <3>1 DEF DownInv, Heard, Form
    <3>3. client # "reset" /\ Live' => NoExit(Spoken)'
      BY <1>1, <3>1 DEF DownInv, Heard, NoExit
    <3>4. QED
      BY <1>1, <2>1, <3>1, <3>2, <3>3 DEF Heard
  <2>3. CASE /\ connected /\ fromSsh' = Append(fromSsh, e)
             /\ context.channel # "closed"
    <3>1. Live /\ context.channel # "closed"
      BY <1>1, <2>3 DEF Live
    <3>2. /\ Len(Spoken') = Len(Spoken) + 1
          /\ \A i \in 1..Len(Spoken) : Spoken'[i] = Spoken[i]
          /\ Spoken'[Len(Spoken) + 1] = e
      BY <1>1, <1>2, <2>3, DownSaid
    <3>3. CASE client = "reset"
      BY <1>1, <2>1, <3>3 DEF Heard
    <3>4. CASE client # "reset"
      <4>1. /\ FirstBlock + Len(Spoken) + Len(output) = wrote + 1
            /\ Form(Spoken) /\ NoExit(Spoken)
        BY <3>1, <3>4 DEF DownInv, Heard
      <4>2. /\ Len(Spoken) \in Nat /\ FirstBlock \in Nat
        BY SpokenTyped
      <4>3. e = <<"out", FirstBlock + (Len(Spoken) + 1) - 1>>
        <5>1. 1 \in 1..Len(output)
          BY <1>2
        <5>2. e = <<"out", wrote - Len(output) + 1>>
          BY <1>2, <5>1 DEF DownInv, Written
        <5>3. wrote - Len(output) + 1 = FirstBlock + (Len(Spoken) + 1) - 1
          BY <1>2, <1>4, <4>1, <4>2
        <5>4. QED
          BY <5>2, <5>3
      <4>4. ASSUME NEW i \in 1..Len(Spoken')
            PROVE  Spoken'[i] = <<"out", FirstBlock + i - 1>>
        <5>1. CASE i = Len(Spoken) + 1
          BY <3>2, <4>3, <5>1
        <5>2. CASE i \in 1..Len(Spoken)
          <6>1. Spoken'[i] = Spoken[i]
            BY <3>2, <5>2
          <6>2. Spoken[i] # ExitStatus
            BY <4>1, <5>2 DEF NoExit
          <6>3. QED
            BY <4>1, <5>2, <6>1, <6>2 DEF Form
        <5>3. QED
          BY <3>2, <4>2, <5>1, <5>2
      <4>5. Form(Spoken)'
        BY <2>0, <4>4 DEF Form
      <4>x. NoExit(Spoken)'
        <5>1. \A n : <<"out", n>> # ExitStatus
          BY DEF ExitStatus
        <5>2. QED
          BY <4>4, <5>1 DEF NoExit
      <4>6. FirstBlock' + Len(Spoken') + Len(output') = wrote' + 1
        BY <1>1, <1>2, <1>4, <2>0, <3>2, <4>1, <4>2, SMTT(20)
      <4>7. QED
        BY <2>1, <4>5, <4>x, <4>6 DEF Heard
    <3>5. QED
      BY <3>3, <3>4
  <2>4. \/ /\ UNCHANGED fromSsh
           /\ connected' => connected /\ context.channel = "closed"
        \/ /\ connected /\ fromSsh' = Append(fromSsh, e)
           /\ context.channel # "closed"
    BY <1>1, <1>2, WriteSaid
  <2>5. QED
    BY <2>2, <2>3, <2>4
<1>8. QED
  BY <1>5, <1>6, <1>7 DEF DownInv

(* The exit status follows the last block.                                  *)
LEMMA DownExit ==
  ASSUME TypeOK, DownInv, SendExit,
         UNCHANGED <<clientVars, tunnelVars, connVars>>
  PROVE  DownInv'
<1>1. /\ UNCHANGED <<told, sending, downPending, client, wrote, context, child,
                     output>>
      /\ Write(<<ExitStatus>>) /\ worker = "exit" /\ worker' = "stop"
  BY DEF SendExit, clientVars, tunnelVars, connVars, processVars
<1>2. child = "reaped"
  BY <1>1 DEF DownInv, Phases
<1>3. context.started
  BY <1>2 DEF DownInv, Unstarted
<1>4. Unstarted' /\ Phases' /\ Written' /\ ~Live'
  BY <1>1, <1>3 DEF DownInv, Unstarted, Phases, Written, Live
<1>5. Heard'
  <2>0. FirstBlock' = FirstBlock
    BY <1>1 DEF FirstBlock
  <2>1. Form(told)'
    BY <1>1, <2>0 DEF DownInv, Heard, Form
  <2>2. CASE UNCHANGED fromSsh
    <3>1. UNCHANGED Spoken
      BY <1>1, <2>2 DEF Spoken
    <3>2. client # "reset" => Form(Spoken)'
      BY <1>1, <2>0, <3>1 DEF DownInv, Heard, Form
    <3>3. QED
      BY <1>1, <1>4, <2>1, <3>1, <3>2 DEF Heard
  <2>3. CASE connected /\ fromSsh' = Append(fromSsh, ExitStatus)
    <3>1. Live /\ (context.channel # "closed" => output = <<>>)
      BY <1>1, <2>3 DEF Live, DownInv, Phases
    <3>2. /\ Len(Spoken') = Len(Spoken) + 1
          /\ \A i \in 1..Len(Spoken) : Spoken'[i] = Spoken[i]
          /\ Spoken'[Len(Spoken) + 1] = ExitStatus
      BY <1>1, <2>3, DownSaid, Sayings
    <3>3. CASE client = "reset"
      BY <1>1, <1>4, <2>1, <3>3 DEF Heard
    <3>4. CASE client # "reset"
      <4>1. /\ context.channel # "closed" =>
                 FirstBlock + Len(Spoken) + Len(output) = wrote + 1
            /\ Form(Spoken) /\ NoExit(Spoken)
        BY <3>1, <3>4 DEF DownInv, Heard
      <4>2. /\ Len(Spoken) \in Nat /\ FirstBlock \in Nat /\ wrote \in Nat
            /\ context.channel # "closed" => Len(output) = 0
        BY <3>1, SpokenTyped
      <4>3. ASSUME NEW i \in 1..Len(Spoken')
            PROVE  \/ Spoken'[i] = <<"out", FirstBlock + i - 1>>
                   \/ /\ Spoken'[i] = ExitStatus /\ i = Len(Spoken')
                      /\ \/ FirstBlock + i - 1 = wrote + 1
                         \/ context.channel = "closed"
        <5>1. CASE i = Len(Spoken) + 1
          <6>1. context.channel # "closed" => FirstBlock + i - 1 = wrote + 1
            BY <4>1, <4>2, <5>1
          <6>2. QED
            BY <3>2, <5>1, <6>1
        <5>2. CASE i \in 1..Len(Spoken)
          <6>1. Spoken'[i] = Spoken[i]
            BY <3>2, <5>2
          <6>2. Spoken[i] # ExitStatus
            BY <4>1, <5>2 DEF NoExit
          <6>3. QED
            BY <4>1, <5>2, <6>1, <6>2 DEF Form
        <5>3. QED
          BY <3>2, <4>2, <5>1, <5>2
      <4>4. Form(Spoken)'
        BY <1>1, <1>2, <2>0, <4>3 DEF Form
      <4>5. QED
        BY <1>4, <2>1, <4>4 DEF Heard
    <3>5. QED
      BY <3>3, <3>4
  <2>4. \/ UNCHANGED fromSsh
        \/ connected /\ fromSsh' = Append(fromSsh, ExitStatus)
    BY <1>1, WriteSaid, Sayings
  <2>5. QED
    BY <2>2, <2>3, <2>4
<1>6. QED
  BY <1>4, <1>5 DEF DownInv

(* The process writes the next block.                                       *)
LEMMA DownWrites ==
  ASSUME TypeOK, DownInv, ChildWrites,
         UNCHANGED <<clientVars, tunnelVars, connVars>>
  PROVE  DownInv'
<1>1. /\ UNCHANGED <<told, sending, downPending, fromSsh, client, context,
           child,
                     worker, connected>>
      /\ child = "running" /\ wrote' = wrote + 1
      /\ output' = Append(output, <<"out", wrote'>>)
  BY DEF ChildWrites, clientVars, tunnelVars, connVars, socketVars
<1>2. context.started /\ worker \notin {"last", "exit"}
  BY <1>1 DEF DownInv, Unstarted, Phases
<1>3. /\ wrote \in Nat /\ Len(output) \in Nat /\ output \in Seq(Said)
      /\ <<"out", wrote + 1>> \in Said
  BY SpokenTyped, Sayings
<1>4. /\ Len(output') = Len(output) + 1
      /\ \A i \in 1..Len(output) : output'[i] = output[i]
      /\ output'[Len(output) + 1] = <<"out", wrote + 1>>
  BY <1>1, <1>3, AppendProperties
<1>5. Written'
  <2>1. Len(output') <= wrote'
    BY <1>1, <1>3, <1>4 DEF DownInv, Written
  <2>2. ASSUME NEW i \in 1..Len(output')
        PROVE  output'[i] = <<"out", wrote' - Len(output') + i>>
    <3>1. wrote' - Len(output') + i = wrote - Len(output) + i
      BY <1>1, <1>3, <1>4
    <3>2. CASE i \in 1..Len(output)
      BY <1>4, <3>1, <3>2 DEF DownInv, Written
    <3>3. CASE i = Len(output) + 1
      <4>1. wrote - Len(output) + i = wrote + 1
        BY <1>3, <3>3
      <4>2. QED
        BY <1>4, <3>1, <3>3, <4>1
    <3>4. QED
      BY <1>3, <1>4, <3>2, <3>3
  <2>3. QED
    BY <2>1, <2>2 DEF Written
<1>6. Unstarted' /\ Phases'
  BY <1>1, <1>2 DEF DownInv, Unstarted, Phases
<1>7. Heard'
  <2>0. FirstBlock' = FirstBlock /\ FirstBlock \in Nat
    BY <1>1 DEF FirstBlock
  <2>1. Form(told)'
    BY <1>1, <2>0 DEF DownInv, Heard, Form
  <2>2. UNCHANGED Spoken
    BY <1>1 DEF Spoken
  <2>3. client # "reset" => Form(Spoken)'
    BY <1>1, <2>0, <2>2 DEF DownInv, Heard, Form
  <2>x. client # "reset" /\ Live' => NoExit(Spoken)'
    BY <1>1, <2>2 DEF DownInv, Heard, NoExit, Live
  <2>4. client # "reset" /\ Live' /\ context'.channel # "closed" =>
          FirstBlock' + Len(Spoken') + Len(output') = wrote' + 1
    <3>1. client # "reset" /\ Live' /\ context'.channel # "closed" =>
            FirstBlock + Len(Spoken) + Len(output) = wrote + 1
      BY <1>1 DEF DownInv, Heard, Live
    <3>2. Len(Spoken) \in Nat
      BY SpokenTyped
    <3>3. QED
      BY <1>1, <1>3, <1>4, <2>0, <2>2, <3>1, <3>2
  <2>5. QED
    BY <1>1, <2>1, <2>3, <2>x, <2>4 DEF Heard
<1>8. QED
  BY <1>5, <1>6, <1>7 DEF DownInv

(* The steps of the worker and of the process.                              *)
LEMMA DownSession ==
  ASSUME TypeOK, DownInv, Session
  PROVE  DownInv'
<1>1. /\ UNCHANGED <<clientVars, tunnelVars, connVars>>
      /\ UNCHANGED <<told, sending, downPending, client>>
  BY DEF Session, clientVars, tunnelVars, connVars
<1>2. CASE Dispatch
  BY <1>1, <1>2, DownDispatch
<1>3. CASE PumpOutput
  BY <1>1, <1>3, DownPump
<1>4. CASE SendExit
  BY <1>1, <1>4, DownExit
<1>5. CASE ChildWrites
  BY <1>1, <1>5, DownWrites
<1>6. CASE KeyExchange
  <2>1. /\ UNCHANGED <<fromSsh, connected, context, processVars>>
        /\ worker = "kex" /\ worker' \in {"poll", "stop"}
    BY <1>6 DEF KeyExchange
  <2>2. /\ ~context.started /\ ~context.motd /\ wrote = 0 /\ output = <<>>
        /\ Silent /\ child = "none"
    BY <2>1 DEF DownInv, Phases, Unstarted
  <2>3. UNCHANGED <<Spoken, Silent, FirstBlock, output, wrote, child>>
    BY <1>1, <2>1 DEF Spoken, Silent, FirstBlock, processVars
  <2>4. Len(Spoken) = 0 /\ FirstBlock = 1 /\ Len(output) = 0 /\ 1..0 = {}
    BY <2>2, SilentSpoken DEF FirstBlock
  <2>5. Unstarted' /\ Phases' /\ Written'
    BY <2>1, <2>2, <2>3 DEF DownInv, Unstarted, Phases, Written
  <2>6. Form(told)' /\ Form(Spoken)'
    BY <1>1, <2>2, <2>3, <2>4 DEF Form, Silent
  <2>x. NoExit(Spoken)'
    BY <2>3, <2>4 DEF NoExit
  <2>7. Heard'
    BY <2>2, <2>3, <2>4, <2>6, <2>x DEF Heard
  <2>8. QED
    BY <2>5, <2>7 DEF DownInv
<1>7. CASE WriteKills \/ KeyExchangeFails \/ PollTimeout \/ PumpedOutput
             \/ PollExit \/ Check \/ Stop \/ Reap \/ Free \/ Done \/ ChildReads
             \/ ChildExits
  <2>1. /\ UNCHANGED <<fromSsh, context, output, wrote>>
        /\ UNCHANGED connected \/ connected' = FALSE
    BY <1>7 DEF WriteKills, KeyExchangeFails, PollTimeout, PumpedOutput,
       PollExit, Check, Stop, Reap, Free, Done, ChildReads, ChildExits,
       socketVars, processVars
  <2>2. /\ child = "reaped" => child' = "reaped"
        /\ child = "none" => child' = "none"
    BY <1>7 DEF WriteKills, KeyExchangeFails, PollTimeout, PumpedOutput,
       PollExit, Check, Stop, Reap, Free, Done, ChildReads, ChildExits,
       processVars
  <2>3. UNCHANGED <<Spoken, Silent>>
    BY <1>1, <2>1 DEF Spoken, Silent
  <2>4. /\ worker' \in {"poll", "pump", "check", "last", "exit"} =>
             worker \in {"poll", "pump", "check", "last", "exit"}
        /\ worker' \in {"none", "kex"} => worker \in {"none", "kex"}
        /\ worker' \in {"last", "exit"} =>
             worker \in {"last", "exit"} \/ child' = "reaped"
        /\ worker' = "exit" => worker = "exit" \/ output = <<>>
    BY <1>7 DEF WriteKills, KeyExchangeFails, PollTimeout, PumpedOutput,
       PollExit, Check, Stop, Reap, Free, Done, ChildReads, ChildExits
  <2>5. /\ worker' \in {"last", "exit"} => child' = "reaped"
        /\ worker' = "exit" /\ connected' /\ context'.channel # "closed" =>
             output = <<>>
    BY <2>1, <2>2, <2>4 DEF DownInv, Phases
  <2>6. Live' => Live
    BY <2>1, <2>4 DEF Live
  <2>7. QED
    BY <1>1, <2>1, <2>2, <2>3, <2>4, <2>5, <2>6, DownSame
<1>8. QED
  BY <1>2, <1>3, <1>4, <1>5, <1>6, <1>7 DEF Session, WorkerNext, ChildNext

(* service() only moves what has been said, also when the stream takes none.*)
LEMMA SentDown ==
  ASSUME TypeOK, SendToTunnel
  PROVE  /\ UNCHANGED Spoken
         /\ Silent => Silent'
<1> DEFINE data == downPending \o Readable
           sent == IF Len(sending) < TunnelRoom /\ client # "reset" THEN data
                   ELSE <<>>
<1>1. /\ told' = told
      /\ fromSsh' = IF Readable = <<>> THEN fromSsh ELSE Tail(fromSsh)
      /\ sending' = sending \o sent
      /\ downPending' = IF sent = <<>> THEN data ELSE <<>>
  BY DEF SendToTunnel, clientVars
<1>2. /\ told \in Seq(Said) /\ sending \in Seq(Said)
      /\ downPending \in Seq(Said) /\ fromSsh \in Seq(Said)
  BY SpokenTyped
<1>3. Readable \in Seq(Said) /\ Readable \o fromSsh' = fromSsh
  <2>1. CASE Readable = <<>>
    BY <1>1, <1>2, <2>1, NoneQueued
  <2>2. CASE Readable # <<>>
    <3>1. fromSsh # <<>> /\ Readable = <<Head(fromSsh)>>
      BY <2>2 DEF Readable
    <3>2. QED
      BY <1>1, <1>2, <2>2, <3>1, HeadMoved
  <2>3. QED
    BY <2>1, <2>2
<1>4. fromSsh' \in Seq(Said)
  BY <1>1, <1>2, HeadTailProperties DEF Readable
<1>5. data \in Seq(Said)
  BY <1>2, <1>3, Joined
<1> HIDE DEF data
<1>6. sent \in Seq(Said) /\ downPending' \in Seq(Said)
    /\ sent \o downPending' = data
  <2>1. sent = <<>> \/ sent = data
    OBVIOUS
  <2>2. CASE sent = <<>>
    BY <1>1, <1>5, <2>2, NoneQueued
  <2>3. CASE sent # <<>>
    BY <1>1, <1>5, <2>1, <2>3, NoneQueued
  <2>4. QED
    BY <2>2, <2>3
<1> HIDE DEF sent
<1>7. PICK t \in Seq(Said) : t = told \o sending
  BY <1>2, Joined
<1>8. told' \o sending' = t \o sent
  <2>1. told \in Seq(Said) /\ sending \in Seq(Said) /\ sent \in Seq(Said)
    BY <1>2, <1>6
  <2>2. (told \o sending) \o sent = told \o (sending \o sent)
    BY <2>1, Joined, SMTT(20)
  <2>3. QED
    BY <1>1, <1>7, <2>2
<1>9. (t \o sent) \o downPending' = t \o data
  <2>1. sent \in Seq(Said) /\ downPending' \in Seq(Said)
    BY <1>6
  <2>2. (t \o sent) \o downPending' = t \o (sent \o downPending')
    BY <2>1, Joined, SMTT(20)
  <2>3. QED
    BY <1>6, <2>2
<1>10. t \o data = (t \o downPending) \o Readable
  <2>1. downPending \in Seq(Said) /\ Readable \in Seq(Said)
    BY <1>2, <1>3
  <2>2. (t \o downPending) \o Readable = t \o (downPending \o Readable)
    BY <2>1, Joined, SMTT(20)
  <2>3. QED
    BY <2>2 DEF data
<1>11. PICK u \in Seq(Said) : u = t \o downPending
  BY <1>2, Joined
<1>12. (u \o Readable) \o fromSsh' = u \o fromSsh
  <2>1. Readable \in Seq(Said)
    BY <1>3
  <2>2. (u \o Readable) \o fromSsh' = u \o (Readable \o fromSsh')
    BY <1>4, <2>1, Joined, SMTT(20)
  <2>3. QED
    BY <1>3, <2>2
<1>13. Spoken' = Spoken
  <2>1. Spoken' = ((t \o sent) \o downPending') \o fromSsh'
    BY <1>8 DEF Spoken
  <2>2. Spoken = u \o fromSsh
    BY <1>7, <1>11 DEF Spoken
  <2>3. QED
    BY <1>9, <1>10, <1>11, <1>12, <2>1, <2>2
<1>14. Silent => Silent'
  <2> SUFFICES ASSUME Silent PROVE Silent'
    OBVIOUS
  <2>1. Readable = <<>> /\ <<>> \o <<>> = <<>>
    BY DEF Silent, Readable
  <2>2. data = <<>>
    BY <2>1 DEF data, Silent
  <2>3. sent = <<>>
    BY <2>2 DEF sent
  <2>4. QED
    BY <1>1, <2>1, <2>2, <2>3 DEF Silent
<1>15. QED
  BY <1>13, <1>14

(* The client hears the next of what has been said.                         *)
LEMMA DownReads ==
  ASSUME TypeOK, DownInv, ClientReads
  PROVE  DownInv'
<1>1. /\ client # "reset" /\ sending # <<>>
      /\ told' = Append(told, Head(sending)) /\ sending' = Tail(sending)
      /\ UNCHANGED <<downPending, fromSsh, client, context, output, wrote,
           child,
                     worker, connected>>
  BY DEF ClientReads, sessionVars, socketVars, processVars, connVars
<1>2. /\ told \in Seq(Said) /\ sending \in Seq(Said)
      /\ downPending \in Seq(Said) /\ fromSsh \in Seq(Said)
  BY SpokenTyped
<1>3. /\ told' \in Seq(Said) /\ sending' \in Seq(Said)
      /\ told' \o sending' = told \o sending
  BY <1>1, <1>2, HeadMoved
<1>4. Spoken' = Spoken /\ FirstBlock' = FirstBlock
  BY <1>1, <1>3 DEF Spoken, FirstBlock
<1>5. Form(Spoken)'
  BY <1>1, <1>4 DEF DownInv, Heard, Form
<1>6. Form(told)'
  <2>1. Form(Spoken)
    BY <1>1 DEF DownInv, Heard
  <2>2. PICK t \in Seq(Said) : t = told \o sending
    BY <1>2, Joined
  <2>3. PICK u \in Seq(Said) : u = t \o downPending
    BY <1>2, Joined
  <2>4. Form(u \o fromSsh)
    BY <2>1, <2>2, <2>3 DEF Spoken
  <2>5. Form(u)
    BY <1>2, <2>4, FormPrefix
  <2>6. Form(t)
    BY <1>2, <2>3, <2>5, FormPrefix
  <2>7. Form(told' \o sending')
    BY <1>3, <2>2, <2>6
  <2>8. PICK v \in Seq(Said) : v = told'
    BY <1>3
  <2>9. PICK w \in Seq(Said) : w = sending'
    BY <1>3
  <2>10. Form(v)
    BY <2>7, <2>8, <2>9, FormPrefix
  <2>11. QED
    BY <1>1, <1>4, <2>8, <2>10 DEF Form
<1>7. context.started
  BY <1>1 DEF DownInv, Unstarted, Silent
<1>8. Unstarted' /\ Phases' /\ Written'
  BY <1>1, <1>7 DEF DownInv, Unstarted, Phases, Written
<1>9. Heard'
  BY <1>1, <1>4, <1>5, <1>6 DEF DownInv, Heard, NoExit, Live
<1>10. QED
  BY <1>8, <1>9 DEF DownInv

(* Every step keeps the invariant.                                          *)
LEMMA DownStep == TypeOK /\ UpInv /\ DownInv /\ [Next]_vars => DownInv'
<1> SUFFICES ASSUME TypeOK, UpInv, DownInv, [Next]_vars PROVE DownInv'
  OBVIOUS
<1>p. /\ worker \in {"last", "exit"} => child = "reaped"
      /\ worker = "exit" /\ connected /\ context.channel # "closed" =>
           output = <<>>
  BY DEF DownInv, Phases
<1>1. CASE UNCHANGED vars
  <2>1. UNCHANGED <<told, sending, downPending, fromSsh, client, context,
      output,
                    wrote, child, worker, connected>>
    BY <1>1 DEF vars, sessionVars, socketVars, processVars, clientVars,
       tunnelVars, connVars
  <2>2. UNCHANGED <<Spoken, Silent>>
    BY <2>1 DEF Spoken, Silent
  <2>3. QED
    BY <1>p, <2>1, <2>2, DownSame DEF Live
<1>2. CASE ClientSends \/ ClientResets \/ ClientEnds
  <2>1. /\ UNCHANGED <<told, downPending, fromSsh, context, output, wrote,
             child,
                       worker, connected>>
        /\ sending' = sending \/ (sending' = <<>> /\ client' = "reset")
        /\ client' # "reset" => client # "reset"
    BY <1>2 DEF ClientSends, ClientResets, ClientEnds, sessionVars, socketVars,
       processVars, connVars, tunnelVars
  <2>2. /\ client' # "reset" => UNCHANGED Spoken
        /\ Silent => Silent'
    BY <2>1 DEF Spoken, Silent
  <2>3. QED
    BY <1>p, <2>1, <2>2, DownSame DEF Live
<1>3. CASE ClientReads
  BY <1>3, DownReads
<1>4. CASE AcceptNew
  <2>1. /\ UNCHANGED <<told, sending, downPending, fromSsh, client, context,
                       output, wrote, child>>
        /\ worker' = "kex"
    BY <1>4 DEF AcceptNew, clientVars, tunnelVars, processVars
  <2>2. UNCHANGED <<Spoken, Silent>>
    BY <2>1 DEF Spoken, Silent
  <2>3. worker = "none"
    BY <1>4 DEF AcceptNew, UpInv
  <2>4. QED
    BY <1>p, <2>1, <2>2, <2>3, DownSame DEF Live
<1>5. CASE SendToTunnel
  <2>1. UNCHANGED <<told, client, context, output, wrote, child, worker,
                    connected>>
    BY <1>5 DEF SendToTunnel, clientVars, processVars
  <2>2. UNCHANGED Spoken /\ (Silent => Silent')
    BY <1>5, SentDown
  <2>3. QED
    BY <1>p, <2>1, <2>2, DownSame DEF Live
<1>6. CASE AcceptFails \/ TunnelFailed \/ SendThrows \/ ReceiveThrows
             \/ SendToSsh \/ NotDone \/ Finish \/ Catch \/ Caught \/ Erase
             \/ Join \/ StopServer
  <2>1. UNCHANGED <<told, sending, downPending, fromSsh, client, context,
      output,
                    wrote, child, worker, connected>>
    BY <1>6 DEF AcceptFails, TunnelFailed, SendThrows, ReceiveThrows,
       SendToSsh, NotDone, Finish, Catch, Caught, Erase, Join, StopServer,
       sessionVars, socketVars, processVars, clientVars, tunnelVars, connVars
  <2>2. UNCHANGED <<Spoken, Silent>>
    BY <2>1 DEF Spoken, Silent
  <2>3. QED
    BY <1>p, <2>1, <2>2, DownSame DEF Live
<1>7. CASE Session
  BY <1>7, DownSession
<1>8. QED
  BY <1>1, <1>2, <1>3, <1>4, <1>5, <1>6, <1>7 DEF Next, Client, Service

(* The initial states satisfy the invariant.                                *)
LEMMA DownInitially == Init => DownInv
<1> SUFFICES ASSUME Init PROVE DownInv
  OBVIOUS
<1> USE DEF Init, SessionInit, NoContext
<1>1. Len(<<>>) = 0 /\ 1..0 = {} /\ Spoken = <<>>
  BY DEF Spoken
<1>2. Unstarted /\ Phases /\ Written
  BY <1>1 DEF Unstarted, Silent, Phases, Written
<1>3. Heard
  BY <1>1 DEF Heard, Form, NoExit, Live
<1>4. QED
  BY <1>2, <1>3 DEF DownInv

(* What the invariant says of what the client hears.                        *)
LEMMA DownAnswers == DownInv => ExitAfterOutput
BY DEF DownInv, Heard, Form, ExitAfterOutput

(* The client hears of the exit only after all that the process wrote, in   *)
(* order and after the greeting, and hears nothing after it: for any output *)
(* and any size of the pipe, the socket pair and the stream's buffer.       *)
THEOREM ExitAfterOutputHolds == Spec => []ExitAfterOutput
<1>1. QED
  BY InitTypes, StepTypes, UpInitially, UpStep, DownInitially, DownStep,
     DownAnswers, PTL DEF Spec
=============================================================================
