------------------------------ MODULE EmbeddedSsh ------------------------------
(***************************************************************************)
(* EmbeddedSshServer (src/embedded_ssh.cpp): the event loop's side of an    *)
(* SSH connection.  accept_new() gives each stream of port 22 a socket pair *)
(* and a worker thread (SshSession); service() copies between the stream    *)
(* and the pair, and removes the connection with its thread.  Destroying or *)
(* overwriting a joinable std::thread terminates the whole server.          *)
(***************************************************************************)
EXTENDS SshSession, FiniteSets

CONSTANTS
  Scripts,    \* what clients may send, each a sequence of messages
  TunnelRoom  \* messages the stream's send buffer holds

ASSUME BridgeAssumption ==
  Scripts \subseteq Seq(Message) /\ TunnelRoom \in Nat \ {0}

VARIABLES
  script,     \* the client's messages
  asked,      \* how many of them it has sent
  client,     \* "open", "ended" (FIN), "reset" (gone)
  told,       \* what the client has received
  arrived,    \* LwipTcpStream: received and not yet read
  tunnel,     \* LwipTcpStream: "open", "failed", "closed"
  sending,    \* ... written, and not yet with the client
  conn,       \* the connection: "none", "serving", "finished", "removed"
  joined,     \* its thread has been joined
  pc,         \* where service() is: "idle", "down", "end", "catch", "caught"
  upPending, downPending, bridgeEof,
  cause       \* history: why a thread was left running, if one was

clientVars == <<script, asked, client, told>>
tunnelVars == <<arrived, tunnel, sending>>
connVars == <<conn, joined, pc, upPending, downPending, bridgeEof, cause>>
vars == <<sessionVars, clientVars, tunnelVars, connVars>>

Init ==
  /\ SessionInit
  /\ script \in Scripts /\ asked = 0 /\ client = "open" /\ told = <<>>
  /\ arrived = <<>> /\ tunnel = "open" /\ sending = <<>>
  /\ conn = "none" /\ joined = FALSE /\ pc = "idle"
  /\ upPending = <<>> /\ downPending = <<>> /\ bridgeEof = FALSE
  /\ cause = "none"

(***************************************************************************)
(* The client and its TCP; the loop takes in its packets between polls.     *)
(***************************************************************************)
Pumping == Up /\ pc = "idle"

ClientSends ==
  /\ Pumping /\ client = "open" /\ asked < Len(script)
  /\ asked' = asked + 1
  /\ IF tunnel = "open"
     THEN /\ arrived = <<>> /\ arrived' = <<script[asked']>>
          /\ UNCHANGED <<client, sending>>
     ELSE client' = "reset" /\ sending' = <<>> /\ UNCHANGED arrived
  /\ UNCHANGED <<sessionVars, script, told, tunnel, connVars>>

ClientEnds ==
  /\ Pumping /\ client = "open"
  /\ client' = "ended"
  /\ UNCHANGED <<sessionVars, script, asked, told, tunnelVars, connVars>>

(* The client's host breaks off: stream_error() sets is_failed.             *)
ClientResets ==
  /\ Pumping /\ client # "reset"
  /\ client' = "reset"
  /\ tunnel' = IF tunnel = "open" THEN "failed" ELSE tunnel
  /\ sending' = <<>>
  /\ UNCHANGED <<sessionVars, script, asked, told, arrived, connVars>>

ClientReads ==
  /\ Up /\ client # "reset" /\ sending # <<>>
  /\ told' = Append(told, Head(sending))
  /\ sending' = Tail(sending)
  /\ UNCHANGED <<sessionVars, script, asked, client, arrived, tunnel, connVars>>

(***************************************************************************)
(* accept_new().                                                            *)
(***************************************************************************)
SocketPair == bridge' = "open" /\ connected' = TRUE

AcceptNew ==
  /\ server = "running" /\ conn = "none"
  /\ conn' = "serving" /\ worker' = "kex"
  /\ SocketPair
  /\ UNCHANGED <<toSsh, fromSsh, context, stdinVars, processVars, server,
                 clientVars, tunnelVars, joined, pc, upPending, downPending,
                 bridgeEof, cause>>

(* No socket pair or no thread: the exception ends the server.              *)
AcceptFails ==
  /\ Faults /\ server = "running" /\ conn = "none"
  /\ conn' = "removed" /\ tunnel' = "closed"
  /\ server' = "stopping"
  /\ UNCHANGED <<worker, socketVars, context, stdinVars, processVars,
                 clientVars, arrived, sending, joined, pc, upPending,
                 downPending, bridgeEof, cause>>

(***************************************************************************)
(* service().                                                               *)
(***************************************************************************)
Serving == server = "running" /\ conn = "serving"

(* A failed tunnel: nobody joins the thread.                                *)
TunnelFailed ==
  /\ Serving /\ pc = "idle" /\ tunnel = "failed"
  /\ bridge' = "closed"
  /\ conn' = "finished" /\ cause' = "failed tunnel"
  /\ UNCHANGED <<worker, connected, toSsh, fromSsh, context, stdinVars,
                 processVars, server, clientVars, tunnelVars, joined, pc,
                 upPending, downPending, bridgeEof>>

(* What the bridge has to send next.                                        *)
ToSend == IF upPending = <<>> THEN arrived ELSE upPending

(* How much of it the socket pair takes.                                    *)
Sendable ==
  LET room == SocketRoom - Len(toSsh)
  IN IF Len(ToSend) < room THEN Len(ToSend) ELSE room

(* To the worker; at the end of the stream the socket is shut down, also    *)
(* when part of the data is still pending.                                  *)
SendToSsh ==
  /\ Serving /\ pc = "idle" /\ tunnel # "failed"
  /\ ToSend = <<>> \/ (connected /\ bridge = "open")
  /\ toSsh' = toSsh \o SubSeq(ToSend, 1, Sendable)
  /\ upPending' = SubSeq(ToSend, Sendable + 1, Len(ToSend))
  /\ arrived' = IF upPending = <<>> THEN <<>> ELSE arrived
  /\ bridge' = IF client = "ended" THEN "shut" ELSE bridge
  /\ pc' = "down"
  /\ UNCHANGED <<worker, connected, fromSsh, context, stdinVars, processVars,
                 server, clientVars, tunnel, sending, conn, joined, downPending,
                 bridgeEof, cause>>

(* The worker's end is closed, or this end has been shut down.              *)
SendThrows ==
  /\ Serving /\ pc = "idle" /\ tunnel # "failed"
  /\ ToSend # <<>> /\ ~(connected /\ bridge = "open")
  /\ pc' = "catch"
  /\ UNCHANGED <<sessionVars, clientVars, tunnelVars, conn, joined, upPending,
                 downPending, bridgeEof, cause>>

(* A socket that was closed with data unread resets the other.              *)
WorkerReset ==
  /\ downPending = <<>> /\ ~bridgeEof
  /\ fromSsh = <<>> /\ ~connected /\ toSsh # <<>>

ReceiveThrows ==
  /\ Serving /\ pc = "down" /\ WorkerReset
  /\ pc' = "catch"
  /\ UNCHANGED <<sessionVars, clientVars, tunnelVars, conn, joined, upPending,
                 downPending, bridgeEof, cause>>

(* What socket_read_some() has for an empty buffer.                         *)
Readable ==
  IF downPending = <<>> /\ ~bridgeEof /\ fromSsh # <<>>
  THEN <<Head(fromSsh)>> ELSE <<>>

(* From the worker: the next data, or the end of them; then what the        *)
(* stream takes.                                                            *)
SendToTunnel ==
  /\ Serving /\ pc = "down" /\ ~WorkerReset
  /\ LET data == downPending \o Readable
         sent == IF Len(sending) < TunnelRoom /\ client # "reset" THEN data
                 ELSE <<>>
     IN /\ fromSsh' = IF Readable = <<>> THEN fromSsh ELSE Tail(fromSsh)
        /\ bridgeEof' = (bridgeEof \/ (data = <<>> /\ ~connected))
        /\ sending' = sending \o sent
        /\ downPending' = IF sent = <<>> THEN data ELSE <<>>
  /\ pc' = "end"
  /\ UNCHANGED <<worker, connected, toSsh, bridge, context, stdinVars,
                 processVars, server, clientVars, arrived, tunnel, conn, joined,
                 upPending, cause>>

NotDone ==
  /\ Serving /\ pc = "end"
  /\ worker # "done" \/ downPending # <<>>
  /\ pc' = "idle"
  /\ UNCHANGED <<sessionVars, clientVars, tunnelVars, conn, joined, upPending,
                 downPending, bridgeEof, cause>>

(* Mutant: the thread of a session that is over is not joined.              *)
FinishUnjoined ==
  /\ Serving /\ pc = "end"
  /\ worker = "done" /\ downPending = <<>>
  /\ bridge' = "closed" /\ tunnel' = "closed"
  /\ conn' = "finished" /\ pc' = "idle"
  /\ UNCHANGED <<worker, connected, toSsh, fromSsh, context, stdinVars,
                 processVars, server, clientVars, arrived, sending, joined,
                 upPending, downPending, bridgeEof, cause>>

(* The worker is done, and what was read from it is with the stream.        *)
Finish ==
  /\ Serving /\ pc = "end"
  /\ worker = "done" /\ downPending = <<>>
  /\ bridge' = "closed" /\ tunnel' = "closed"
  /\ joined' = TRUE
  /\ conn' = "finished" /\ pc' = "idle"
  /\ UNCHANGED <<worker, connected, toSsh, fromSsh, context, stdinVars,
                 processVars, server, clientVars, arrived, sending, upPending,
                 downPending, bridgeEof, cause>>

Catch ==
  /\ Serving /\ pc = "catch"
  /\ bridge' = "closed" /\ tunnel' = "closed"
  /\ pc' = "caught"
  /\ UNCHANGED <<worker, connected, toSsh, fromSsh, context, stdinVars,
                 processVars, server, clientVars, arrived, sending, conn,
                 joined, upPending, downPending, bridgeEof, cause>>

(* After an exception the thread is joined only if it is done.              *)
Caught ==
  /\ Serving /\ pc = "caught"
  /\ joined' = (worker = "done")
  /\ cause' = IF worker = "done" THEN cause ELSE "bridge error"
  /\ conn' = "finished" /\ pc' = "idle"
  /\ UNCHANGED <<sessionVars, clientVars, tunnelVars, upPending, downPending,
                 bridgeEof>>

(* poll() erases what is finished.                                          *)
Erase ==
  /\ server = "running" /\ conn = "finished"
  /\ conn' = "removed"
  /\ server' = IF joined THEN server ELSE "terminated"
  /\ UNCHANGED <<worker, socketVars, context, stdinVars, processVars,
                 clientVars, tunnelVars, joined, pc, upPending, downPending,
                 bridgeEof, cause>>

(***************************************************************************)
(* The server is stopped: ~Impl closes the sockets and joins the threads.   *)
(***************************************************************************)
(* An exception out of pump_for() or poll() ends the loop of run_serve(),   *)
(* and destroys the server.  (A signal ends the process at once.)           *)
StopServer ==
  /\ server = "running" /\ pc = "idle" /\ conn \in {"none", "serving", "removed"}
  /\ server' = "stopping"
  /\ bridge' = "closed"
  /\ UNCHANGED <<worker, connected, toSsh, fromSsh, context, stdinVars,
                 processVars, clientVars, tunnelVars, connVars>>

Join ==
  /\ server = "stopping" /\ worker \in {"none", "done"}
  /\ server' = "stopped"
  /\ joined' = TRUE
  /\ UNCHANGED <<worker, socketVars, context, stdinVars, processVars,
                 clientVars, tunnelVars, conn, pc, upPending, downPending,
                 bridgeEof, cause>>

Client == ClientSends \/ ClientEnds \/ ClientResets
Service ==
  \/ TunnelFailed \/ SendToSsh \/ SendThrows
  \/ ReceiveThrows \/ SendToTunnel \/ NotDone \/ Finish \/ Catch \/ Caught
  \/ Erase \/ Join
Session ==
  (WorkerNext \/ ChildNext) /\ UNCHANGED <<clientVars, tunnelVars, connVars>>

Next ==
  \/ Client \/ ClientReads
  \/ AcceptNew \/ AcceptFails \/ Service \/ StopServer
  \/ Session

Spec == Init /\ [][Next]_vars

(* An interactive shell on a PTY ignores SIGTERM.                           *)
LoginShell == child = "running" /\ context.motd

(* Threads are scheduled, the client's TCP takes what is sent to it, and a  *)
(* process exits on SIGTERM, unless it is a login shell.                    *)
FairSpec ==
  /\ Spec
  /\ WF_vars(Service) /\ WF_vars(AcceptNew) /\ WF_vars(ClientReads)
  /\ WF_vars(WorkerNext /\ UNCHANGED <<clientVars, tunnelVars, connVars>>)
  /\ WF_vars(signalled /\ ~LoginShell /\ ChildExits
               /\ UNCHANGED <<clientVars, tunnelVars, connVars>>)

-----------------------------------------------------------------------------
(* The client hears of the exit only after all that the process wrote, in   *)
(* order, after the greeting, and hears nothing after it (pump_output()     *)
(* around poll_exit(), and what service() keeps pending).  A client that    *)
(* closes the channel misses what is written after that.                    *)
FirstBlock == IF context.motd THEN 0 ELSE 1
ExitAfterOutput ==
  \A i \in 1..Len(told) :
    LET block == FirstBlock + i - 1
    IN \/ told[i] = <<"out", block>>
       \/ /\ told[i] = ExitStatus /\ i = Len(told)
          /\ block = wrote + 1 \/ context.channel = "closed"

(* What the client sent the process reads in order, each once: whatever     *)
(* has been dispatched is read, in the pipe, or still with libssh, although *)
(* the pipe fills up and data comes before there is a process.              *)
IsData(i) ==
  script[i][1] = "data" /\ \E j \in 1..i - 1 : script[j][1] = "open"
DataUpTo(n) == {i \in 1..n : IsData(i)}
Stdin == (taken \o input) \o held
StdinInOrder ==
  \A k \in 1..Len(Stdin) :
    \E i \in DataUpTo(asked) :
      Stdin[k] = script[i][2] /\ Cardinality(DataUpTo(i)) = k

(* Only a client that has signed with a known key has a process, unless     *)
(* the service is open to all: neither naming such a key nor a signature    *)
(* that does not verify, nor the order in which it sends its messages, gets *)
(* around auth_none() and auth_pubkey().                                    *)
OnlyAuthorized ==
  child # "none" =>
    AllowNone \/ \E i \in 1..asked : script[i][1] = "known"

(* A session that is over never takes the server down with it: that takes a *)
(* tunnel that fails, or a bridge that fails before its worker is done.     *)
ServerSurvives == server = "terminated" => cause # "none"

(* A client that leaves, in whatever state its session is, is cleaned up    *)
(* after, unless the server itself goes: the thread ends, the connection is *)
(* removed, and no process is left running or unreaped.  And a server that  *)
(* is destroyed does end, with its threads joined.  Neither happens while a *)
(* login shell runs on, as stop() waits for it with its PTY still open.     *)
CleanedUp ==
  /\ client # "open" /\ conn # "none"
       ~> \/ /\ conn = "removed" /\ joined /\ worker = "done"
             /\ child \in {"none", "reaped"}
          \/ server \in {"stopped", "terminated", "killed"}
          \/ []LoginShell
  /\ server = "stopping" ~> server \in {"stopped", "killed"} \/ []LoginShell
=============================================================================
