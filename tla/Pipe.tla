--------------------------------- MODULE Pipe ---------------------------------
(***************************************************************************)
(* run_default_server() (src/cli.cpp): `tailcat` without arguments accepts  *)
(* one connection to port 1 of its tailcat address, writes what it receives *)
(* to stdout, and ends with it; with PipeClient at the other end.  Or       *)
(* PipeClient has connected to a port that `tailcat serve` proxies: the     *)
(* service behind it reads at its own pace, and may shut down its write     *)
(* side while it still reads.                                               *)
(***************************************************************************)
EXTENDS PipeClient

VARIABLES
  server,            \* "listening", "serving", exit status, or "service"
  srvReceived, srvEof, srvFailed,    \* its LwipTcpStream
  srvStdout, stdoutGone              \* its stdout, and whether nobody reads it

serverVars == <<server, srvReceived, srvEof, srvFailed, srvStdout, stdoutGone>>
vars == <<pipeVars, serverVars>>

Init ==
  /\ PipeInit
  /\ server \in {"listening", "service"}
  /\ srvReceived = <<>> /\ srvEof = FALSE /\ srvFailed = FALSE
  /\ srvStdout = <<>> /\ stdoutGone = FALSE

ServerExited == server \in {"exit 0", "exit 1"}
ServerUp == server \in {"listening", "serving"}

(* lwIP at the server accepts the connection before the loop does, and its  *)
(* callbacks run for it from then on.                                       *)
SrvReceive ==
  /\ ServerUp /\ up # <<>>
  /\ srvReceived' = Append(srvReceived, Head(up))
  /\ up' = Tail(up)
  /\ UNCHANGED <<stdinVars, clientVars, upFin, down, downFin, received, eof,
                 failed, reset, fault, server, srvEof, srvFailed, srvStdout,
                 stdoutGone>>

SrvReceiveEof ==
  /\ ServerUp /\ up = <<>> /\ upFin /\ ~srvEof
  /\ srvEof' = TRUE
  /\ UNCHANGED <<pipeVars, server, srvReceived, srvFailed, srvStdout,
                 stdoutGone>>

SrvReset ==
  /\ ServerUp /\ reset
  /\ srvFailed' = TRUE
  /\ UNCHANGED <<pipeVars, server, srvReceived, srvEof, srvStdout, stdoutGone>>

SrvAccept ==
  /\ server = "listening" /\ client # "connecting"
  /\ server' = "serving"
  /\ UNCHANGED <<pipeVars, srvReceived, srvEof, srvFailed, srvStdout,
                 stdoutGone>>

(* Mutant: the end is looked at before the last bytes are written.          *)
SrvIterateEofFirst ==
  /\ server = "serving" /\ ~srvFailed
  /\ stdoutGone => srvReceived = <<>>
  /\ IF srvEof
     THEN /\ server' = "exit 0"
          /\ downFin' \in {TRUE, ~Faults}
          /\ UNCHANGED <<srvStdout, srvReceived>>
     ELSE /\ srvStdout' = srvStdout \o srvReceived /\ srvReceived' = <<>>
          /\ UNCHANGED <<server, downFin>>
  /\ UNCHANGED <<stdinVars, clientVars, up, upFin, down, received, eof, failed,
                 reset, fault, srvEof, srvFailed, stdoutGone>>

(* One pass of the loop.  It ends with close() and without a drain: if its  *)
(* FIN is lost nobody sends it again.                                       *)
SrvIterate ==
  /\ server = "serving" /\ ~srvFailed
  /\ stdoutGone => srvReceived = <<>>
  /\ srvStdout' = srvStdout \o srvReceived /\ srvReceived' = <<>>
  /\ IF srvEof
     THEN server' = "exit 0" /\ downFin' \in {TRUE, ~Faults}
     ELSE UNCHANGED <<server, downFin>>
  /\ UNCHANGED <<stdinVars, clientVars, up, upFin, down, received, eof, failed,
                 reset, fault, srvEof, srvFailed, stdoutGone>>

(* The server ends with an exception: the connection is aborted, and the    *)
(* reset reaches the client or not.                                         *)
SrvThrow ==
  /\ server' = "exit 1"
  /\ failed' \in {failed, failed \/ client = "running"}
  /\ UNCHANGED <<stdinVars, clientVars, up, upFin, down, downFin, received, eof,
                 reset, srvReceived, srvEof, srvFailed, srvStdout, stdoutGone>>

(* The stream has failed, or stdout cannot be written.                      *)
SrvIterateFails ==
  /\ server = "serving"
  /\ srvFailed \/ (stdoutGone /\ srvReceived # <<>>)
  /\ SrvThrow /\ UNCHANGED fault

(* pump_for() throws.                                                       *)
SrvPumpFails ==
  /\ Faults /\ ServerUp
  /\ fault' = TRUE
  /\ SrvThrow

StdoutGone ==
  /\ Faults /\ ~stdoutGone /\ server # "service"
  /\ stdoutGone' = TRUE
  /\ UNCHANGED <<pipeVars, server, srvReceived, srvEof, srvFailed, srvStdout>>

(* The service behind a proxied port; srvStdout is what it has read.        *)
ServiceReads ==
  /\ server = "service" /\ up # <<>>
  /\ srvStdout' = Append(srvStdout, Head(up))
  /\ up' = Tail(up)
  /\ UNCHANGED <<stdinVars, clientVars, upFin, down, downFin, received, eof,
                 failed, reset, fault, server, srvReceived, srvEof, srvFailed,
                 stdoutGone>>

ServiceWrites ==
  /\ server = "service" /\ ~downFin
  /\ LET written == Len(stdout \o received \o down)
     IN written < MaxTyped /\ down' = Append(down, written + 1)
  /\ UNCHANGED <<stdinVars, clientVars, up, upFin, downFin, received, eof,
                 failed, reset, fault, serverVars>>

ServiceShuts ==
  /\ server = "service" /\ ~downFin
  /\ downFin' = TRUE
  /\ UNCHANGED <<stdinVars, clientVars, up, upFin, down, received, eof, failed,
                 reset, fault, serverVars>>

(* Nobody acknowledges what is in flight: the client's TCP gives up.  The   *)
(* server has ended; or it is blocked in write_stdout_all() and does not    *)
(* pump, or the network is down, for as long as that takes.  What is in     *)
(* flight may still arrive later.                                           *)
ClientGivesUp ==
  /\ client = "running" /\ ~failed
  /\ up # <<>> \/ (upFin /\ ~srvEof)
  /\ ServerExited \/ Faults
  /\ failed' = TRUE
  /\ fault' = (fault \/ ~ServerExited)
  /\ UNCHANGED <<stdinVars, clientVars, up, upFin, down, downFin, received, eof,
                 reset, serverVars>>

ServerNext ==
  \/ SrvReceive \/ SrvReceiveEof \/ SrvReset \/ SrvAccept
  \/ SrvIterate \/ SrvIterateFails \/ SrvPumpFails
Next ==
  \/ ClientNext /\ UNCHANGED serverVars
  \/ ServerNext \/ StdoutGone \/ ClientGivesUp
  \/ ServiceReads \/ ServiceWrites \/ ServiceShuts

Spec == Init /\ [][Next]_vars

(* Threads and event loops run on, as whoever reads stdout reads on or goes *)
(* away, and lwIP retransmits what is lost while both processes live.  The  *)
(* user does not have to end stdin, and nothing has to fail.                *)
FairSpec ==
  /\ Spec
  /\ WF_vars(StdinNext /\ UNCHANGED serverVars)
  /\ WF_vars((Receive \/ ReceiveEof) /\ UNCHANGED serverVars)
  /\ WF_vars(LoopNext /\ UNCHANGED serverVars)
  /\ WF_vars(SrvReceive \/ SrvReceiveEof) /\ WF_vars(SrvReset)
  /\ WF_vars(SrvAccept) /\ WF_vars(SrvIterate \/ SrvIterateFails)
  /\ WF_vars(ServerExited /\ ClientGivesUp)

-----------------------------------------------------------------------------
(* README.md: "Binary-safe stdin/stdout transport".  What the server has    *)
(* written is a first part of the client's stdin at any time; and if either *)
(* process reports success it is all of it, although stdin is read by a     *)
(* thread of its own and the stream outlives it.  And a client that reports *)
(* success has written all that a service sent before it shut down          *)
(* (run_client() reads before it looks at the end of the stream).           *)
SuccessIsComplete ==
  /\ srvStdout = [i \in 1..Len(srvStdout) |-> i] /\ Len(srvStdout) <= typed
  /\ server = "exit 0" \/ (client = "exit 0" /\ server # "service") =>
       stdinEnd = "eof" /\ Len(srvStdout) = typed
  /\ stdout = [i \in 1..Len(stdout) |-> i]
  /\ client \in {"draining", "exit 0"} => received = <<>> /\ down = <<>>

(* Once stdin is at its end both processes end with success, unless the     *)
(* relay, the network or the server's stdout fails, or the FIN of the       *)
(* process that ends first is lost.                                         *)
BothEnd ==
  stdinEnd = "eof" ~>
    \/ client = "exit 0" /\ server = "exit 0"
    \/ server = "service" \/ stdoutGone \/ fault
    \/ server = "exit 0" /\ ~downFin
    \/ client = "exit 0" /\ ~upFin

(* The server reports success only after the client itself has shut down    *)
(* its write side behind a stdin that was read to its end without an error. *)
(* A client that fails before that, whatever the reason, never looks to the *)
(* server like one that is done, although its destructors run and its       *)
(* segments are still in flight.  (One that fails afterwards may report a   *)
(* failure to a server that succeeds: the server has all of stdin.)         *)
NoFalseSuccess ==
  [][server # "exit 0" /\ server' = "exit 0" =>
       writeShutdown /\ ~inputError]_vars
=============================================================================
