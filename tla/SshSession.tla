------------------------------ MODULE SshSession ------------------------------
(***************************************************************************)
(* The worker thread of an SSH connection and the process it starts         *)
(* (run_ssh_session, SessionContext and ChildProcess of                     *)
(* src/embedded_ssh.cpp, as on Unix).  libssh is external: it is modelled   *)
(* by the callbacks it makes and by what its calls do to the socket.        *)
(*                                                                          *)
(* A message is a tuple: its type, then its argument.                       *)
(***************************************************************************)
EXTENDS Naturals, Sequences

CONSTANTS
  AllowNone,  \* the no-auth-ssh service
  SocketRoom, \* messages one direction of the socket pair holds
  PipeRoom,   \* blocks a pipe (or PTY) to or from the process holds
  MaxOutput,  \* bound: blocks the process writes
  Faults      \* whether starting a process may fail

ASSUME SshAssumption ==
  /\ {SocketRoom, PipeRoom} \subseteq Nat \ {0} /\ MaxOutput \in Nat
  /\ {AllowNone, Faults} \subseteq BOOLEAN

(* What clients send to authenticate: no key, a known key that is named     *)
(* ("probe"), proved by its signature ("known") or signed with another      *)
(* ("forged"), and any other key.                                           *)
AuthMessage == {"none", "probe", "known", "forged", "unknown"}

(* What clients send.                                                       *)
Message ==
  {<<m>> : m \in AuthMessage \cup
             {"kex", "open", "pty", "shell", "exec", "subsystem", "eof",
              "close", "junk"}}
    \cup ({"env"} \X STRING) \cup ({"data"} \X Nat)

VARIABLES
  worker,    \* where the thread is; "none" before it is started
  connected, \* ssh_is_connected(): libssh has its socket open
  toSsh,     \* in the socket pair, from the bridge
  fromSsh,   \* in the socket pair, to the bridge
  bridge,    \* the bridge's socket: "open", "shut" (for writing), "closed"
  context,   \* SessionContext
  held,      \* channel data that libssh keeps, as no callback has taken it
  child,     \* the process: "none", "running", "exited", "reaped"
  signalled, \* SIGTERM has been sent
  input,     \* in the pipe to the process
  inputDone, \* ChildProcess::stdin_closed_
  output,    \* in the pipe from the process
  taken,     \* what the process has read
  wrote,     \* how many blocks it has written
  server     \* "running", "stopping", "stopped", "terminated", "killed"

socketVars == <<connected, toSsh, fromSsh, bridge>>
stdinVars == <<held, input, inputDone>>
processVars == <<child, signalled, output, taken, wrote>>
sessionVars ==
  <<worker, socketVars, context, stdinVars, processVars, server>>

NoContext ==
  [authorized |-> FALSE, channel |-> "none", environment |-> {},
   pty |-> FALSE, started |-> FALSE, motd |-> FALSE, error |-> FALSE]

SessionInit ==
  /\ worker = "none" /\ connected = FALSE /\ toSsh = <<>> /\ fromSsh = <<>>
  /\ bridge = "closed"
  /\ context = NoContext /\ held = <<>>
  /\ child = "none" /\ signalled = FALSE /\ input = <<>> /\ inputDone = FALSE
  /\ output = <<>> /\ taken = <<>> /\ wrote = 0
  /\ server = "running"

Up == server \in {"running", "stopping"}

(* The bridge has nothing more to say.                                      *)
AtEof == toSsh = <<>> /\ bridge # "open"

(* Writing to the channel blocks while the socket is full ...               *)
Full == connected /\ bridge # "closed" /\ Len(fromSsh) = SocketRoom

(* ... and fails, and disconnects, once there is no other end.              *)
Write(messages) ==
  /\ ~Full
  /\ LET ok == connected /\ bridge # "closed"
     IN /\ fromSsh' = IF ok THEN fromSsh \o messages ELSE fromSsh
        /\ connected' = ok

(* libssh dispatches messages while it polls, and while a write blocks.     *)
Blocked ==
  /\ Full
  /\ \/ worker = "exit"
     \/ /\ worker \in {"pump", "last"} /\ output # <<>>
        /\ context.channel # "closed"

Polling == Up /\ connected /\ (worker = "poll" \/ Blocked)

Polled == worker' = IF worker = "poll" THEN "pump" ELSE worker

(***************************************************************************)
(* Callbacks, one for each message.                                         *)
(***************************************************************************)
Next1(type) == toSsh # <<>> /\ Head(toSsh)[1] = type /\ toSsh' = Tail(toSsh)

(* Mutant: auth_pubkey() does not look at signature_state.                  *)
AuthSuccessUnsigned(m) ==
  (m = "none" /\ AllowNone) \/ m \in {"probe", "known", "forged"}

(* auth_none() and auth_pubkey(): a key of authorized_key_blobs, for which  *)
(* signature_state is SSH_PUBLICKEY_STATE_NONE (a probe) or _VALID.         *)
AuthSuccess(m) == (m = "none" /\ AllowNone) \/ m \in {"probe", "known"}

(* libssh answers a probe that succeeds by asking for the signature; any    *)
(* other success lets the client in.                                        *)
Auth ==
  \E m \in AuthMessage :
    /\ Next1(m)
    /\ context' = [context EXCEPT !.authorized =
                     @ \/ (AuthSuccess(m) /\ m # "probe")]
    /\ UNCHANGED <<connected, fromSsh, stdinVars, processVars>>

(* channel_open(): one channel, and no second one after it.                 *)
ChannelOpen ==
  /\ Next1("open") /\ context.authorized
  /\ context' = [context EXCEPT !.channel = IF @ = "none" THEN "open" ELSE @]
  /\ UNCHANGED <<connected, fromSsh, stdinVars, processVars>>

OnChannel == context.authorized /\ context.channel = "open"

(* accepted_env().                                                          *)
Accepted == {"TERM", "LANG", "LC_ALL"}

(* channel_env() and channel_pty(): refused once there is a process.        *)
ChannelEnv ==
  /\ Next1("env") /\ OnChannel
  /\ context' = IF context.started \/ Head(toSsh)[2] \notin Accepted
                THEN context
                ELSE [context EXCEPT !.environment = @ \cup {Head(toSsh)[2]}]
  /\ UNCHANGED <<connected, fromSsh, stdinVars, processVars>>

ChannelPty ==
  /\ Next1("pty") /\ OnChannel
  /\ context' = IF context.started THEN context
                ELSE [context EXCEPT !.pty = TRUE,
                                     !.environment = @ \cup {"TERM"}]
  /\ UNCHANGED <<connected, fromSsh, stdinVars, processVars>>

Motd == <<"out", 0>>
ExitStatus == <<"exit">>

(* ChildProcess::start(): a PTY or three pipes, fork, and the shell.        *)
ProcessStarts ==
  /\ child' = "running"
  /\ UNCHANGED <<stdinVars, signalled, output, taken, wrote>>

(* channel_shell() and channel_exec(): start_session_process().             *)
StartSessionProcess ==
  /\ \E m \in {"shell", "exec"} :
       /\ Next1(m) /\ OnChannel /\ ~context.started
       /\ LET greet == context.pty /\ m = "shell"
          IN /\ context' = [context EXCEPT !.started = TRUE, !.motd = greet]
             /\ IF greet THEN Write(<<Motd>>)
                ELSE UNCHANGED <<connected, fromSsh>>
  /\ ProcessStarts

StartFails ==
  /\ Faults
  /\ \E m \in {"shell", "exec"} : Next1(m)
  /\ OnChannel /\ ~context.started
  /\ context' = [context EXCEPT !.error = TRUE]
  /\ UNCHANGED <<connected, fromSsh, stdinVars, processVars>>

(* One process in a session, and no subsystem (sftp).                       *)
StartRefused ==
  /\ \/ Next1("subsystem")
     \/ context.started /\ \E m \in {"shell", "exec"} : Next1(m)
  /\ OnChannel
  /\ UNCHANGED <<connected, fromSsh, context, stdinVars, processVars>>

(* A pipe whose reader is gone raises SIGPIPE: WriteKills.                  *)
NoReader == context.started /\ ~inputDone /\ ~context.pty /\ child # "running"

(* What write_stdin() can take of so much.                                  *)
Room(n) ==
  LET free == PipeRoom - Len(input)
  IN IF ~context.started \/ inputDone \/ child # "running" THEN 0
     ELSE IF n < free THEN n ELSE free

(* Mutant: the callback claims to have taken all.                           *)
ChannelDataAll ==
  /\ Next1("data") /\ OnChannel /\ ~NoReader
  /\ LET data == Append(held, Head(toSsh)[2])
     IN /\ input' = input \o SubSeq(data, 1, Room(Len(data)))
        /\ held' = <<>>
  /\ UNCHANGED <<connected, fromSsh, context, inputDone, processVars>>

(* channel_data(): what write_stdin() does not take stays with libssh, and  *)
(* comes again with the next data, whenever that is.                        *)
ChannelData ==
  /\ Next1("data") /\ OnChannel /\ ~NoReader
  /\ LET data == Append(held, Head(toSsh)[2])
         n == Room(Len(data))
     IN /\ input' = input \o SubSeq(data, 1, n)
        /\ held' = SubSeq(data, n + 1, Len(data))
  /\ UNCHANGED <<connected, fromSsh, context, inputDone, processVars>>

(* close_stdin(), which leaves a PTY open.                                  *)
CloseStdin == inputDone' = (inputDone \/ context.started)

(* channel_eof().                                                           *)
ChannelEof ==
  /\ Next1("eof") /\ OnChannel
  /\ CloseStdin
  /\ UNCHANGED <<connected, fromSsh, context, held, input, processVars>>

ChannelClose ==
  /\ Next1("close") /\ OnChannel
  /\ context' = [context EXCEPT !.channel = "closed"]
  /\ UNCHANGED <<connected, fromSsh, stdinVars, processVars>>

(* The end of the stream, what is no message, and before authentication     *)
(* anything else: libssh disconnects.                                       *)
Disconnect ==
  /\ \/ AtEof /\ UNCHANGED toSsh
     \/ /\ toSsh # <<>> /\ toSsh' = Tail(toSsh)
        /\ \/ Head(toSsh)[1] = "junk"
           \/ ~context.authorized /\ Head(toSsh)[1] \notin AuthMessage
  /\ connected' = FALSE
  /\ UNCHANGED <<fromSsh, context, stdinVars, processVars>>

(* Keys are exchanged again, or a request is for a channel that is closed   *)
(* or was never opened.                                                     *)
Ignore ==
  /\ toSsh # <<>> /\ toSsh' = Tail(toSsh)
  /\ context.authorized
  /\ \/ Head(toSsh)[1] = "kex"
     \/ /\ context.channel # "open"
        /\ Head(toSsh)[1] \notin AuthMessage \cup {"open", "junk"}
  /\ UNCHANGED <<connected, fromSsh, context, stdinVars, processVars>>

Dispatch ==
  /\ Polling
  /\ \/ Auth \/ ChannelOpen \/ ChannelEnv \/ ChannelPty
     \/ StartSessionProcess \/ StartFails \/ StartRefused
     \/ ChannelData \/ ChannelEof \/ ChannelClose \/ Disconnect \/ Ignore
  /\ Polled
  /\ UNCHANGED <<bridge, server>>

WriteKills ==
  /\ Polling /\ toSsh # <<>> /\ Head(toSsh)[1] = "data"
  /\ OnChannel /\ NoReader
  /\ server' = "killed"
  /\ UNCHANGED <<worker, socketVars, context, stdinVars, processVars>>

(***************************************************************************)
(* run_ssh_session().                                                       *)
(***************************************************************************)
(* ssh_handle_key_exchange(), within its ten seconds.                       *)
KeyExchange ==
  /\ Up /\ worker = "kex" /\ toSsh # <<>>
  /\ toSsh' = Tail(toSsh)
  /\ worker' = IF Head(toSsh)[1] = "kex" THEN "poll" ELSE "stop"
  /\ UNCHANGED <<connected, fromSsh, bridge, context, stdinVars, processVars,
                 server>>

KeyExchangeFails ==
  /\ Up /\ worker = "kex" /\ toSsh = <<>>
  /\ worker' = "stop"
  /\ UNCHANGED <<socketVars, context, stdinVars, processVars, server>>

(* ssh_event_dopoll() without an event; or, disconnected, it may fail.      *)
PollTimeout ==
  /\ Up /\ worker = "poll"
  /\ ~connected \/ (toSsh = <<>> /\ bridge = "open")
  /\ worker' \in IF connected THEN {"pump"} ELSE {"pump", "stop"}
  /\ UNCHANGED <<socketVars, context, stdinVars, processVars, server>>

(* pump_output(): drain_pty() and drain_one() write what they read, and     *)
(* return when the write fails: for want of the other end, or at once when  *)
(* the client has closed the channel.  What was read is lost then.          *)
PumpOutput ==
  /\ Up /\ worker \in {"pump", "last"} /\ output # <<>>
  /\ IF context.channel = "closed" THEN UNCHANGED <<connected, fromSsh>>
     ELSE Write(<<Head(output)>>)
  /\ output' = Tail(output)
  /\ worker' = IF connected' /\ context.channel # "closed" THEN worker
               ELSE IF worker = "pump" THEN "check" ELSE "exit"
  /\ UNCHANGED <<toSsh, bridge, context, stdinVars, child, signalled, taken,
                 wrote, server>>

PumpedOutput ==
  /\ Up /\ worker \in {"pump", "last"} /\ output = <<>>
  /\ worker' = IF worker = "pump" THEN "check" ELSE "exit"
  /\ UNCHANGED <<socketVars, context, stdinVars, processVars, server>>

(* Mutant: what was pumped before poll_exit() is taken for all there is.    *)
PollExitAtOnce ==
  /\ Up /\ worker = "check" /\ child = "exited"
  /\ child' = "reaped"
  /\ worker' = "exit"
  /\ UNCHANGED <<socketVars, context, stdinVars, signalled, output, taken,
                 wrote, server>>

(* poll_exit().                                                             *)
PollExit ==
  /\ Up /\ worker = "check" /\ child = "exited"
  /\ child' = "reaped"
  /\ worker' = "last"
  /\ UNCHANGED <<socketVars, context, stdinVars, signalled, output, taken,
                 wrote, server>>

(* The checks at the end of a round.                                        *)
Check ==
  /\ Up /\ worker = "check" /\ child # "exited"
  /\ worker' = IF context.channel = "closed" \/ context.error \/ ~connected
               THEN "stop" ELSE "poll"
  /\ UNCHANGED <<socketVars, context, stdinVars, processVars, server>>

(* Exit status, end of file and close.                                      *)
SendExit ==
  /\ Up /\ worker = "exit"
  /\ Write(<<ExitStatus>>)
  /\ worker' = "stop"
  /\ UNCHANGED <<toSsh, bridge, context, stdinVars, processVars, server>>

(* Mutant: waitpid() without SIGTERM.                                       *)
StopUnsignalled ==
  /\ Up /\ worker = "stop"
  /\ CloseStdin
  /\ UNCHANGED signalled
  /\ worker' = "reap"
  /\ UNCHANGED <<socketVars, context, held, input, child, output, taken, wrote,
                 server>>

(* ChildProcess::stop(): SIGTERM, and a waitpid() that blocks.  A PTY is    *)
(* closed only after that.                                                  *)
Stop ==
  /\ Up /\ worker = "stop"
  /\ CloseStdin
  /\ signalled' = (signalled \/ child \in {"running", "exited"})
  /\ worker' = "reap"
  /\ UNCHANGED <<socketVars, context, held, input, child, output, taken, wrote,
                 server>>

Reap ==
  /\ Up /\ worker = "reap" /\ child # "running"
  /\ child' = IF child = "exited" THEN "reaped" ELSE child
  /\ worker' = "free"
  /\ UNCHANGED <<socketVars, context, stdinVars, signalled, output, taken,
                 wrote, server>>

(* ssh_disconnect() and ssh_free() close the socket; done comes after that. *)
Free ==
  /\ Up /\ worker = "free"
  /\ connected' = FALSE
  /\ worker' = "freed"
  /\ UNCHANGED <<toSsh, fromSsh, bridge, context, stdinVars, processVars, server>>

Done ==
  /\ Up /\ worker = "freed"
  /\ worker' = "done"
  /\ UNCHANGED <<socketVars, context, stdinVars, processVars, server>>

WorkerNext ==
  \/ Dispatch \/ WriteKills \/ KeyExchange \/ KeyExchangeFails \/ PollTimeout
  \/ PumpOutput \/ PumpedOutput \/ PollExit \/ Check \/ SendExit
  \/ Stop \/ Reap \/ Free \/ Done

(***************************************************************************)
(* The process, which reads, writes and exits as it likes.  Once the        *)
(* server is gone nobody watches it.                                        *)
(***************************************************************************)
ChildReads ==
  /\ Up /\ child = "running" /\ input # <<>>
  /\ taken' = Append(taken, Head(input))
  /\ input' = Tail(input)
  /\ UNCHANGED <<worker, socketVars, context, held, inputDone, child, signalled,
                 output, wrote, server>>

ChildWrites ==
  /\ Up /\ child = "running" /\ wrote < MaxOutput /\ Len(output) < PipeRoom
  /\ wrote' = wrote + 1
  /\ output' = Append(output, <<"out", wrote'>>)
  /\ UNCHANGED <<worker, socketVars, context, stdinVars, child, signalled,
                 taken, server>>

ChildExits ==
  /\ Up /\ child = "running"
  /\ child' = "exited"
  /\ UNCHANGED <<worker, socketVars, context, stdinVars, signalled, output,
                 taken, wrote, server>>

ChildNext == ChildReads \/ ChildWrites \/ ChildExits
=============================================================================
