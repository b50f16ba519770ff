# Tailcat in TLA+

Tailcat connects two programs through a DERP relay. A *client* (`tailcat
<address>`, `forward`, `socks`, `ssh`) knows the server's Tailcat address, finds
it by a rendezvous (MEOW / MEOWED), runs a WireGuard handshake over the relay and
then speaks TCP inside the tunnel through a userspace lwIP stack. A *server*
(`tailcat serve`, the default server, the embedded SSH server) accepts streams
from that stack and joins them to ports, processes or standard streams of its
host. This directory holds TLA+ modules of that code, the TLC configurations that
check them, and proofs for TLAPS.

## 1. Inventory

For each component: its state, its operations, whom it talks to, what is hard,
and what makes it correct. `PROJECT.json` lists the same components with their
files, and every hazard with its line.

| Component | State | Operations | Interacts with |
|---|---|---|---|
| WireGuard engine (`wireguard_engine.cpp`) | one peer, its handshake, three keypair slots `prev`/`curr`/`next`, `established` | `create_handshake_initiation`, `handle_packet`, `encrypt_ip_packet` | called by both data planes; the wireguard-lwip library below |
| WireGuard over DERP (`wireguard_derp.cpp`) | the engine of a client, its DERP connection | `connect` (retries, deadline), `receive_for`, `send` | DERP client, engine |
| Rendezvous (`rendezvous.cpp`) | none kept | `rendezvous_client`: a MEOW a second, read until MEOWED or deadline | DERP client |
| Data plane (`data_plane.cpp`) | client: peer and stack; server: map node key -> engine, map address -> key, allow list | `connect`, `pump_for`, `handle_frame`, `add_peer`, `send_ip` | engine, DERP client, lwIP |
| lwIP TCP adapter (`lwip_stack.cpp`) | per stream: `pcb`, `received`, `is_connected`, `is_eof`, `is_failed` | `read_available`, `write`, `shutdown_write`, `close`; callbacks `stream_recv`, `stream_sent`, `stream_error` | data plane below, proxies above |
| Host sockets (`host_tcp.cpp`) | a descriptor, no lock | `connect`, `read_some`, `write_all`, `shutdown_write`, `close` | proxies, reader threads |
| Served TCP ports (`port_forward.cpp`) | per connection: tunnel, socket, `HostReadState` (mutex, chunks, eof, error), pending bytes, shutdown flags | `accept_new`, `service`, `take_host_chunk`, `poll`; one detached reader thread per connection | both of the above |
| Local forwarder (`local_forward.cpp`) | acceptor thread with a queue, connections as above | `accept_new`, `service` gated by `connected()` | the same, in the other direction |
| SOCKS5 proxy (`socks_command.cpp`) | acceptor and handshake threads, queue, reply flag | `handshake`, `adopt`, `service` | the same, plus the SOCKS dialogue |
| Embedded SSH (`embedded_ssh.cpp`) | a socketpair per connection, a worker thread, a child process | bridge `service`, `ChildProcess` | lwIP stream, libssh, the operating system |
| DERP client (`derp.cpp`, `derp_http.cpp`) | receive buffer, TLS stream | `connect`, `send`, `read_frame_for` | the relay |
| Pipe client, default server (`cli.cpp`) | stdin thread with a queue, pending bytes | `run_client`, `run_default_server` | lwIP stream, standard streams |
| Key store (`saved_key.cpp`, `extra_commands.cpp`) | key files | load, save, delete, `genkey` | other processes through the file system |
| Address codec (`protocol.cpp`), DERP map (`derp_map.cpp`) | none | `encode_tailcat_addr`, `parse_tailcat_addr`; `fetch_derp_map`, `region_by_id` | every command; genkey, resolve, server and client have to meet at one relay |
| Address resolver (`address_resolver.cpp`) | none | classify an argument, choose among TXT records | DNS |
| Command line, serve (`cli.cpp`, `ssh_authorized_keys.cpp`) | options, accepted keys | `parse_command_line`, `run`, `run_serve`, `load_ssh_authorized_key_blobs` | starts the components above |
| ssh and cp (`ssh_command.cpp`) | none | parse, rewrite, quote, `exec` | OpenSSH, which runs this program again |
| Keys, platform (`crypto.cpp`, `ip.cpp`, `platform.cpp`) | none | libsodium, standard streams | |

What is hard in this code, and the property each part owes:

* **Handshakes over a relay.** Packets are lost, repeated and reordered; either
  process may be restarted; initiations are retried before their answers arrive.
  Both ends must agree on sessions, no data may be sent under a session the other
  end never installed, an answered client must stay answered, and each IP packet
  must arrive at most once.
* **Proxied connections.** Three kinds of actor touch one connection: the event
  loop (which may block inside `write_all`), a reader thread, and the two
  applications and kernels at the ends. Each direction has to be a byte pipe
  (order, no loss, end of stream last), and every ending - orderly, failed
  tunnel, failed host - has to reach both ends and release the connection.
* **Partial progress.** `tcp_write` takes part of a chunk, `send` part of a
  buffer, a frame arrives in halves; what is left has to be kept exactly once.
* **Threads that outlive their work.** Detached readers, acceptors and handshake
  threads, and joinable SSH workers whose `std::thread` must be joined before it is
  destroyed, whatever fails first.
* **Processes that end.** The pipe client exits while lwIP may still hold data; an SSH
  session ends while a process still runs or its output is still on the way.
* **Files.** Key files are written in place by processes that may crash or race.
* **Texts that are read again.** An address passes encoder and decoder, a
  ProxyCommand passes ssh, a shell and this program's own parser.

## 2. Plan

| # | Module | Builds on | Abstract specification | Status |
|---|---|---|---|---|
| 1 | `WireGuardEngine` | | | done |
| 2 | `DataPlane` | 1 | `Datagrams`, once per direction | done |
| 3 | `HostRelay` | | `BytePipe`, once per direction | done |
| 4 | `ServedTcpPorts` | 3 | `BytePipe` | done |
| 5 | `DialledRelay`, `LocalTcpForwarder`: acceptor thread, dial, `connected()` gate | 3, 4 | `BytePipe` | done |
| 6 | `SocksProxy`: handshake thread, exactly one reply, before any data | 3, 4, 5 | `BytePipe` | done |
| 7 | `SshSession`, `EmbeddedSsh`: worker thread and process; bridge, threads joined or not | | | done |
| 8 | `PipeClient`, `Pipe`: stdin thread, drain at exit; default server | | | done |
| 9 | `DerpLink`: partial frames across timeouts, half a frame written | | `FrameChannel`, once per direction | done |
| 10 | `KeyStore`: processes side by side, crashes between file operations | | | done |
| 11 | `TailcatAddress`, `Relays`: codec and relays as operators | | decoder as inverse of encoder | done |
| 12 | `CommandLine`, `Destination`, `SshCommand`, `ServeCommand`: the commands' algorithms | | | done |

Theorems, in order, each stated in section 6: type correctness of `DataPlane` and
of `ServedTcpPorts` and the two byte-pipe refinements of `ServedTcpPorts`;
`NoUnconfirmedSession`, `SessionAgreement`, `LiveSession` and the datagram
refinements of `DataPlane`; the safety properties of `KeyStore`, `EmbeddedSsh` and
`Pipe`; the frame channels of `DerpLink`; `OneReply` of `SocksProxy`; and the byte
pipes of 5 and 6, from the lemmas on the steps that all three proxies share (all
done).

## 3. The modules

### WireGuardEngine and DataPlane

`WireGuardEngine` is the state of one `WireGuardPeerEngine` as a record and each
entry point as an operator on it. The handshake cryptography is the
wireguard-lwip library, fetched at build time and not in the repository: its
operators are marked external and say what the engine relies on. A session is a
number; the two ends derive the same one exactly when the response answers the
initiation the initiator still remembers, and 0 is an invalid keypair.
Initiations are numbered, the number standing for ephemeral key and TAI64N stamp
together. `keys` are the slots `prev`, `curr`, `next` with the library's moves
(`AddKeypair`, `KeypairUpdate`); `SendSlot` is the choice `encrypt_ip_packet`
makes, `Receivers` the keypairs that take a packet after expiry and replay
window.

`DataPlane` puts the engines of several client processes and one server process
around a relay. Actions and code:

| Action | Code |
|---|---|
| `ClientStart`, `Deadline`, `ClientExit` | the process; the deadlines of `rendezvous_client` and `WireGuardDerpPeer::connect` |
| `SendMeow`, `ReceiveMeowed` | `rendezvous_client` |
| `SendInitiation`, `ReceiveResponse` | `WireGuardDerpPeer::connect` |
| `ClientSend`, `ReceiveDown`, `ClientIgnores` | `TailcatClientDataPlane` over `WireGuardDerpPeer` |
| `ServerMeow`, `ServerInitiation`, `ServerUp`, `ServerIgnores` | `TailcatServerDataPlane::Impl::handle_frame` |
| `ServerSend` | `send_ip` |
| `ServerRestart` | a new server process: an empty peers map |
| `Lose`, `Repeats`, `ClientKeypairExpires`, `ServerKeypairExpires` | the relay and `REJECT_AFTER_TIME` |

`installed`, `responses` and `epoch` are history variables: they are written and
never read by an action.

Abstractions: the relay is a set of packets (so it reorders, and with `Repeats`
repeats); DERP names the true source; time is left out, so a retry or a deadline
may come at any moment; a server's address map is the identity: the address is a
prefix and the first ten bytes of the key (`ip.cpp:18`), in which different node
keys are assumed to differ; cookie replies need load on the responder, which
the engine reports as absent; DERP control frames change no state here.

### HostRelay and ServedTcpPorts

`HostRelay` is everything around a proxied connection that the three proxies of
the program share: the peer application and its TCP, `LwipTcpStream`, the
detached reader thread, the kernel's socket and the host application.
`ServedTcpPorts` adds the event loop of `port_forward.cpp`.

| Variables | Code |
|---|---|
| `received`, `tunnelEof`, `tunnelFailed`, `pcb` | `LwipTcpStream::Impl` |
| `chunks`, `hostEof`, `hostError`; `reader`, `chunk` | `HostReadState`; the thread of `start_host_reader` and its local buffer |
| `writing`, `pending`, `tunnelShut`, `hostShut` | the argument of `write_all`; `pending_to_tunnel` beyond `pending_offset`; `tunnel_write_shutdown`; `host_write_shutdown` |
| `pc` | where the loop is: `new` (not accepted), `idle` (between calls of `service`), `write`, `check`, `done`; `killed` is the process ended by SIGPIPE |
| `upWire`, `downWire`, `downFin`, `socket`, `fromHost`, `toHost`, `peer*`, `host*` | external: the network, the kernel, the two applications |

`service()` is not atomic. It takes the reader's lock twice and may block in
`write_all` between; so it is cut into `ServiceFailed` / `ServiceRead`,
`HostWrite` (one piece of `write_all`), `TakeFails` / `Take` (first look at the
reader's state, then `tunnel->write`) and `CheckFails` / `Check` (shutdown of the
socket and second look), with every other actor running in between. lwIP's
callbacks run only inside `pump_for`, that is, while `pc` is `new`, `idle` or
`done`. The catch block of `service` and every other ending is `CloseBoth`, and
belongs to the failing step.

Abstractions: one connection (the loops over listeners and connections repeat
it; what they share is the event loop, whose blocking is modelled); a chunk is
any non-empty prefix of what is there; data readable before a reset stays
readable, as on Linux; after `close()` of the pcb, data is answered by a reset;
`close()` of a descriptor under a blocked `recv` leaves the kernel socket alive
until `recv` returns (`Release`); the reuse of that descriptor number is not
modelled; allocation failures inside lwIP (`ERR_MEM` from `tcp_write` or
`tcp_shutdown`) are not modelled. `LwipTcpStream::write` also throws when
`tcp_output` reports another error (`ERR_IF`, `lwip_stack.cpp:226-229`), which
`service` catches (`port_forward.cpp:206`): it has no action of its own, as it ends
like a `PeerAbort` that the next `ServiceFailed` finds.

### DialledRelay, LocalTcpForwarder and SocksProxy

A connection that starts at this end. `DialledRelay` extends `HostRelay` (here
"host" is the local application, "peer" the service behind the server) with what
the forwarder and the SOCKS proxy share: the accepting thread and its queue
(`accepted`: backlog, queued, taken), its failure, the dial (`StreamConnected`,
`Refused`) and `Exit`, the destructor after the error was thrown.

`LocalTcpForwarder` adds `Dial` / `DialFails` (`accept_new`) and reuses the steps of
`ServedTcpPorts` for `service` and `take_host_chunk`, whose code is the same except
that only a failure is looked at until the tunnel is connected. `SocksProxy` puts the
request in front of the application's bytes and the replies in front of the
service's: `Checks` is the list of tests of `begin_handshake` in its order,
`HandshakeStep` one `read_exact` with the tests behind it, `Adopt` / `AdoptFails`
`adopt_handshakes`, and `ReplySuccess`, `TunnelFailed`, `ReplyFails` the part of
`service` around `replied`. A request is the set of its faults, so that every
combination of faults can be asked for.

### SshSession and EmbeddedSsh

`SshSession` is a worker thread of the embedded SSH server with the process it
starts: `run_ssh_session`, the callbacks (`Auth`, `ChannelOpen`, `ChannelEnv`,
`ChannelPty`, `StartSessionProcess`, `ChannelData`, `ChannelEof`), and `ChildProcess`
(`PumpOutput`, `PollExit`, `Stop`, `Reap`). `worker` is the place in the session loop.
`EmbeddedSsh` is the event loop's side: `AcceptNew`, `service` cut at every access to
the socket pair (`SendToSsh`, `SendToTunnel`, `Finish`, `Caught`), the removal of the
connection, and the destructor. Destroying a `std::thread` that is not joined is
`server = "terminated"`; `cause` records what left it running.

An authentication message says what is shown: no key, a known key that is named (a
probe), one that is proved by its signature, one with a signature that does not
verify, or another key. `AuthSuccess` is what `auth_none` and `auth_pubkey` return
for it after the test of `signature_state`; `Auth` adds libssh's part, which answers a
probe and authorizes on any other success. On a channel that the client has closed
`ssh_channel_write` fails and the block is lost (`PumpOutput`). `LoginShell` is a
process on a PTY without a command: an interactive shell, which ignores SIGTERM.
`StopServer` is an exception that ends the loop of `run_serve()`; there is no signal
handler, and a signal ends the process with its threads.

libssh is external: a message is handed to the callback for it, a write blocks while
the socket is full and dispatches meanwhile, data that a callback does not take is
kept (`held`) and dropped at the end of the stream. As on Unix; `window-change`, the
contents of the environment and the user database are left out.

### PipeClient and Pipe

`run_client` with its stdin thread (`chunks`, `inputDone`, `inputError` are
`InputState`), and at the other end `run_default_server` or a service behind `tailcat
serve`. A process that exits takes its lwIP stack with it: with `Faults`, what was in
flight is lost from any point on (`LeaveInFlight`).

Failures are of four kinds. A process throws out of its loop since the stream has
failed, its stdin cannot be read or its stdout not be written (`IterateFails`,
`SrvIterateFails`; `ReaderGone` and `StdoutGone` take the reader away). `pump_for`
throws, at either end and at any time, the drain included (`PumpFails`,
`SrvPumpFails`). The client's TCP gives up (`ClientGivesUp`): the server is gone, or
blocked in `write_stdout_all` and does not pump, or the network is down; what is in
flight may still arrive. What such an end does to the stream is `Throw` and `SrvThrow`
(the destructor of `LwipTcpStream`). `fault` is a history variable: relay or network
have failed. No action reads it.

### DerpLink

`DerpHttpClient` with the loops that call it. A frame on the wire is a header of
`HeaderSize` pieces and its payload; either end may read and write any number of
pieces at a time, deadlines fall anywhere (`TimesOut`), the wire may be cut at any
point (`WireBreaks`) and relays may send something else than they should.
`FrameChannel` is what each direction promises: whole frames, in order, each once.

### KeyStore

Each command (`genkey`, `serve`, a client, the SSH host key's first use) is a process
that goes step by step through its system calls; `Crash` may come between any two.
`dir` maps names to inodes, so that a file deleted while another process writes it is
a different file from its successor; a file is a sequence of blocks, so that a short
key written over a longer one leaves the rest behind. Every fetch of the DERP map may
give another one.

### TailcatAddress, Relays, CommandLine, Destination, SshCommand, ServeCommand

Pure algorithms as operators; a call that throws has the empty set of results.
`TailcatAddress` is byte-exact: base64url by way of pairs of bits, CBOR heads of up to
four bytes, a reader that gives value and next place (0 for an error, which every
later read passes on), and one table of fields per map that encoder and decoder share
(`NodeFields`, `RegionFields`, `InfoFields`; the higher-order `WriteMap` and `ReadMap`
stand for the loops over them). `Relays` works with the same records: the DERP map and
the region and node that `genkey`, `resolve`, a server and a client each choose;
`resolve_region` exists in three identical copies in the code.

In the other four a word is a sequence of pieces: single characters where the code
looks at characters, longer pieces (`"--key="`, `"@github"`, an address) where it only
looks for them as a whole. `CommandLine` is `parse_command_line` and the dispatch of
`run`; `Destination` the address resolver; `SshCommand` the arguments of `ssh` and
`cp`, with `PercentExpand` (ssh) and `ShellWords` (the shell) as external definitions
of what happens to the ProxyCommand; `ServeCommand` is `run_serve` up to the start of
the server and the loading of the SSH keys. `MCCommands` asks one question per step
and its invariants judge the answer.

## 4. The runs

| Run | Bounds | What it shows |
|---|---|---|
| `data_plane_restarts` | 1 client, 2 starts, 3 initiations, 2 packets each way, 1 server restart, 1 expiry, repeating relay | `TypeOK`; `SessionAgreement`, `NoUnconfirmedSession`, `LiveSession`; both directions refine `Datagrams` (`TrafficIsDatagrams`) |
| `data_plane_peers` | 3 clients of which 2 allowed, 1 loss, repeating relay | `TrafficIsDatagrams`: sessions of different clients never mix; only allowed clients are heard |
| `data_plane_lossy` | 1 client, 2 starts, 4 initiations, 2 losses | `Connects`: connecting ends, up or at its deadline |
| `served_ports` | 2 bytes up, 3 down, buffers of 2 and 1, SIGPIPE | `TypeOK`, `NoCloseUnderReader`; `UpIsPipe`, `DownIsPipe`; `Teardown`, `HostLearns`, `PeerLearns` |
| `served_ports_queued` | 1 byte up, 2 down | `NothingQueuedIsLost` is violated (finding) |
| `forwarder` | 2 bytes each way, buffers of 2 and 1 | `BytesArePiped`, `Teardown`, `Answered` |
| `socks` | 1 byte up, 2 down, buffers of 1; every single fault, no fault, and several at once | `OneReply`, `BytesArePiped`, `Answered`, `Teardown` |
| `pipe` | 4 bytes, send buffer of 2, faults at any time | `SuccessIsComplete`, `NoFalseSuccess`, `BothEnd` |
| `keystore` | 2 processes at a time, 3 commands of 14, 3 names, 2 regions, faults | `RacedFileLoads`, `AddressReachesServer`, `ReplacedOnlyByForce` |
| `ssh` | 6 clients' scripts, 2 blocks of output, room for 1 message everywhere, faults | `ExitAfterOutput`, `StdinInOrder`, `OnlyAuthorized`, `ServerSurvives`, `CleanedUp` |
| `derp_link` | 6 relays, 2 packets sent, header of 2 and frames of up to 3 pieces, wire of 3, faults | `FramesArriveWhole`, `Arrives`, `Connects` |
| `commands` | some 100 000 questions: 1536 addresses, 24 choices of options with 125 triples of DERP maps, resolved or not, names of up to 3 labels with up to 3 answers, command lines of up to 4 words behind 7 kinds of global options, up to 3 words of `serve` with 12 key sources | `AddressRoundTrip`, `RelaysMeet`, `AddressIsNotLookedUp`, `ProxyReachesClient`, `ServesTheNamed` |

Why the bounds are enough. *DataPlane:* two starts and three initiations give a
late response to an abandoned initiation of the same process and of an earlier
one; three sessions fill all keypair slots and push one out; two packets give a
counter reused under another session; one restart makes an old response outlive
its server. *ServedTcpPorts, LocalTcpForwarder, SocksProxy:* two or three bytes
through a buffer of one and a chunk of one leave a byte in each stage at the same
moment; a buffer smaller than a chunk forces a partial `tcp_write`. *EmbeddedSsh:*
with room for one message everywhere each write can find its buffer full; two blocks
of output and the exit status are one more than a buffer and the pending part hold;
the scripts are OpenSSH's order of messages, data before the process, a second
process and a close in the middle, requests before their channel and keys exchanged
again, every kind of authentication but the right one, and junk instead of SSH.
*DerpLink:* a frame longer than the wire and a frame of the size limit's neighbour.
*KeyStore:* two commands race, a third comes after both. *Pipe:* four bytes are more
than stdin's thread, the send buffer and the network hold between them. *Commands:*
integers on both sides of every size of a CBOR head, a text of more than 24 bytes,
cuts at every place; DERP maps that lose a region, gain one, or give one another
relay, between genkey and serve and again before the client asks.

`CHECK_DEADLOCK FALSE` is given because the systems may stop: all bounds used up,
a connection finished, a question answered.

**Fairness.** `DataPlane!FairSpec`: both sides poll the relay without pause, the
client repeats MEOW and initiations by the clock, and a packet that is not lost is
read: weak fairness of exactly those handlers. Retries are five seconds apart,
longer than a round trip, so a client creates a new initiation only when nothing
of the last is in the relay (`Patient`); without it an adversary could replace
every initiation just before its answer arrives. Deadlines and exits are not
fair. `Connects` has the deadline as an outcome but does not force it: the
mutant that does not retry is caught because nothing makes the deadline fire.
`ServedTcpPorts!FairSpec`: the event loop polls without pause and the reader
thread is scheduled (weak fairness); lwIP takes what has come in at each
`pump_for`, but not during `service` (strong fairness); the kernel delivers, both
applications read. No application is made to write, shut down or break off.
`LocalTcpForwarder` and `SocksProxy` add the acceptor and handshake threads and that
a dial is answered or given up. `Pipe!FairSpec`: threads and loops run, lwIP
retransmits while both processes live and gives up on a server that has ended; nobody
has to end stdin, and nothing has to fail. `EmbeddedSsh!FairSpec`: threads are
scheduled, the client's TCP takes what it is sent, and a process exits on SIGTERM,
for which the code waits without a deadline - unless it is a login shell. `DerpLink!FairSpec`: the caller
calls `receive_for` for ever, and a call finds data before its deadline again and
again (strong fairness), as `receive_for(0)` alone would never read the socket.

### Findings

* `served_ports_queued`: `CHANGELOG.md:90` says proxied connections finish their
  teardown "instead of losing data queued at close". When the host application
  writes its last bytes and closes with input unread, `service`'s catch block
  drops the queued bytes and ends the tunnel with an orderly FIN, so the peer
  takes a truncated stream for a complete one. It does not contradict `BytePipe`,
  which lets a stream stop short when the sending application has broken off.

### Behaviour the models contain and no document excludes

The properties are stated around these; a reader of the code should know them.

* `HostTcpStream::write_all` (`host_tcp.cpp:232`) calls `send` without `MSG_NOSIGNAL`
  and the program does not ignore SIGPIPE: on POSIX systems a write to an application
  that has shut down and then reset ends the process with all its connections
  (`killed`). The same holds for a SOCKS reply and for the stdin of an SSH process.
* Embedded SSH: a tunnel that fails finishes its connection without joining the worker
  (`embedded_ssh.cpp:923`), and so does an exception in `service` before the worker is
  done; erasing the connection then calls `std::terminate` and ends the server.
  `ServerSurvives` says that nothing else does.
* Embedded SSH: once the worker is done, one chunk is read from the bridge per poll and
  the connection is finished as soon as that chunk is sent (`embedded_ssh.cpp:965-980`):
  the last output and the exit status may be lost behind an orderly FIN. Channel data
  that libssh keeps because the process's pipe was full is lost at the end of the stream.
* Embedded SSH: an interactive login shell ignores SIGTERM, and `ChildProcess::stop`
  waits for it before it closes the PTY whose end it would notice
  (`embedded_ssh.cpp:568-583`). The session's thread waits with it, the connection is
  never removed, and `~Impl`, which joins the thread, does not return. `CleanedUp`
  holds up to `[]LoginShell`; without that part TLC finds exactly this behaviour.
* A client whose tunnel dial is pending under a blocked reader thread is told nothing
  when `service` closes its socket: `recv` keeps it open (`Answered`, `HostLearns`).
* `run_client` drains lwIP for a moment and exits; what is not acknowledged by then is
  lost, and the server is told of an end only if the FIN arrived (`BothEnd`).
* Two `genkey` commands, or two servers without an SSH host key, may both find no file
  and write it; the later one wins, though the earlier one has printed its address.
* A key saved without a fixed region follows the DERP map: an address printed by
  `genkey` reaches the server only while the first region of the map stays the same.
  And whatever the address says, server and clients meet only as long as the region
  keeps its relay: the server keeps the one it found when it started, a client takes
  the one in the map that it fetches, or that the address embeds.
* `parse_tailcat_addr` limits each "r" list to one region, not their sum; a literal SSH
  key with a comma in its comment is split into two sources; an option that nobody
  knows, with no command behind it, is ignored; `serve 80 80` fails when it listens.

## 5. Properties

* `SessionAgreement`: equal session numbers at the two ends mean the same client
  and opposite roles. `NoUnconfirmedSession`: no data is ever sent down under a
  session that client has not installed. `LiveSession`: while a client is up, the
  server process that answered it still holds its session in a slot it sends or
  will send from. `TrafficIsDatagrams`: in each direction at most once, only what was
  sent, only allowed clients. `Connects`: retries carry a client through losses.
* `UpIsPipe` / `DownIsPipe`, `BytesArePiped`: each direction of a proxied connection is
  a `BytePipe`. `NoCloseUnderReader`: an orderly teardown never closes a socket
  under the thread reading it. `Teardown`: a connection that both ends shut down
  is drained and removed. `PeerLearns`, `HostLearns`: a break-off at one end
  reaches the other. `Answered`: an application that was accepted is answered or its
  connection ends, also from the queues. `OneReply`: one reply to a SOCKS request,
  before any data, naming the first fault in the order of the code.
* `SuccessIsComplete`, `BothEnd`: an exit status of 0 at either end of a pipe means that
  all of stdin has been written at the other end. `NoFalseSuccess`: the server turns to
  success only after the client has shut down its write side behind all of a stdin that
  was read without an error. A client that fails before that, for whatever reason,
  never looks like one that is done; one that fails later (its stdout, the relay, a TCP
  that gave up) may report a failure to a server that rightly succeeds.
* `OnlyAuthorized`: a process only for a client that has signed with a known key, or
  with the service open to all. `ExitAfterOutput`, `StdinInOrder`,
  `ServerSurvives`, `CleanedUp`: the streams of an SSH session, and what is left of it
  afterwards.
* `FramesArriveWhole`, `Arrives`, `Connects` (`DerpLink`): framing is lossless both ways,
  nothing stays in a buffer, pings come back, `connect` ends.
* `RacedFileLoads`, `AddressReachesServer`, `ReplacedOnlyByForce`: what is left in a key
  file after a race, what a printed address is worth, who may replace a key.
* `AddressRoundTrip`: decoding is the inverse of encoding, unknown fields are passed
  over, nothing cut or extended is accepted. `RelaysMeet`: a client comes to the region
  of the server, never to a node for STUN only, and to the server's relay exactly when
  the map that was asked for that region still has it. `AddressIsNotLookedUp`: no part of a name
  that is sent to DNS is an address; conflicting or malformed records are refused.
  `ProxyReachesClient`: behind ssh and the shell the ProxyCommand is this program as a
  client of the same address, port and key. `ServesTheNamed`: a server that starts
  has all of its services, accepts exactly the SSH keys its sources name and serves
  exactly the node keys of its `--allow`.

What they do not say. Several properties exclude an outcome that the code really has
and no document excludes (section 4); there the hazard is described and reachable, but
not caught.

| Property | Excludes |
|---|---|
| `UpIsPipe`, `DownIsPipe`, `BytesArePiped` | a stream cut short after an application broke off (`NothingQueuedIsLost` shows that loss) |
| `HostLearns`, `Answered` | a socket closed while its reader thread is inside `recv`: the common case |
| `PeerLearns`, `Teardown` | a process that SIGPIPE has ended |
| `SuccessIsComplete` | stdin for a service that shut down its side before it read everything |
| `RacedFileLoads` | a file whose writer was killed or failed in the middle |
| `ReplacedOnlyByForce` | a command that looked before the file was there |
| `ExitAfterOutput`, `StdinInOrder` | output, status or input that is lost from some point on: both are about what does arrive |
| `ServerSurvives`, `CleanedUp` | `std::terminate` after a failed tunnel or bridge; `CleanedUp` also a login shell that runs on |
| `FramesArriveWhole` | a transport that takes another frame after a failed `send`: the connection is broken for good |

Every property has a mutant in `PROJECT.json`: a change a plausible bug in that
code would make (the `Mutant:` operators in the modules), under which TLC finds
the property violated in the same run.

## 6. Proofs

`tlapm` checks eight modules. Every theorem holds for all values of the constants
that satisfy the named assumptions of the modules it is about: `AllowedAssumption`
and `BoundsAssumption` (`DataPlane`); `BoundsAssumption`, `BufferAssumption`,
`PosixAssumption` (`HostRelay`); `RequestsAssumption` (`SocksProxy`);
`KeyStoreAssumption`; `SshAssumption` and `BridgeAssumption` (`SshSession`,
`EmbeddedSsh`); `PipeAssumption`; `DerpAssumption`. They say what constants are
(numbers, sets of keys, sizes that are not zero); TLC evaluates each of them.

| Module | Theorem | States |
|---|---|---|
| `DataPlane_proof` | `TypeCorrect`, `SessionsAgreed` | `TypeOK`; the inductive invariant `Agreed` |
| | `SessionAgreementHolds`, `NoUnconfirmedSessionHolds`, `LiveSessionHolds` | the invariants of that name |
| | `TrafficRefines` | `TrafficIsDatagrams`: both directions of every client implement `Datagrams` |
| `ServedTcpPorts_proof` | `TypeCorrect`, `ReaderHasLeft` | `TypeOK`, `NoCloseUnderReader` |
| | `UpRefines`, `DownRefines` | `UpIsPipe`, `DownIsPipe`: both directions implement `BytePipe` |
| `DialledRelay_proof` | `OneReplyHolds` | `OneReply` of `SocksProxy` |
| | `ForwardedBytesPiped` | `BytesArePiped` of `LocalTcpForwarder`: both directions implement `BytePipe` |
| | `ProxiedBytesPiped` | `BytesArePiped` of `SocksProxy`: the same, on a socket that first carries the request |
| `KeyStore_proof` | `FilesAccountedFor` | the inductive invariant `Inv` |
| | `RacedFilesLoad`, `AddressesReachServers`, `KeysReplacedByForce` | `RacedFileLoads`, `AddressReachesServer`, `ReplacedOnlyByForce` |
| `EmbeddedSsh_proof` | `TypeCorrect` | the types, and that socket pair and pipe are never overfilled |
| | `ServerSurvivesHolds`, `StdinInOrderHolds`, `OnlyAuthorizedHolds`, `ExitAfterOutputHolds` | the properties of that name |
| `Pipe_proof` | `TypeCorrect`, `SuccessIsCompleteHolds`, `NoFalseSuccessHolds` | the types; `SuccessIsComplete`, `NoFalseSuccess` |
| `DerpLink_proof` | `TypeCorrect`, `FramesArriveWholeHolds` | the types; `FramesArriveWhole`: both directions implement `FrameChannel` |
| `StreamLemmas` | lemmas only | queues and streams of numbered bytes, used by all of the above that move bytes |

`StreamLemmas` says what appending, taking the head, cutting and joining do to the
elements and the length of a queue and to a *run* `k+1, k+2, ...` (`Run`), and that
queues can be joined in any order (`InOrder`).

No property that matters here is inductive by itself. What each argument adds:

**DataPlane.** `Agreed` is `Responses /\ Wire /\ \A c : Peer(c)`. A session belongs
to one response, and a response to an initiation that was created (`Responses`);
what is in the relay was created, and data is under a session its client has
installed (`Wire`). `Peer(c)` ties the two engines to that: the client's keypairs
are of sessions it installed, the server's are of responses made to that client, and those in
`prev` and `curr` have been heard (`ServerHolds`); while the
client waits, no session it has already installed answers its newest initiation
(`Waiting`); and the response to the newest initiation is still in `next`, or in
`curr` with nothing behind it (`Newest`). The last is what `LiveSession` needs: a
retried initiation may overwrite `next`, but not with an older one, since
`greatest` rejects those. `Flowing` adds, per direction, that no session is in two
slots (`OneSlot`) and that a packet is in the relay at most once as a message of
its own, is numbered no higher than what was sent, and once handed up is in the
replay window of every keypair that could take it again (`Carried`); that, with
`Heeded` (only allowed clients are peers), maps every step to a step of
`Datagrams` or a stutter.

**ServedTcpPorts.** The refinements need an invariant, `IInv`, with five parts
besides the types:

* `LoopState`: what the position of the event loop says of the socket, the pcb and
  the buffer of `write_all` (for instance, that `received` is empty after
  `read_available`, so that reading again loses nothing).
* `UpEnd` and `DownEnd`: what has been seen to end has ended. `tunnelEof` means that
  the peer has shut down and nothing is on its way; `hostEof` without `hostError`
  means that the thread is done and the kernel and the thread hold nothing;
  `tunnelShut` means in addition that nothing is queued in the loop.
* `Finished`: a connection is finished only because an application broke off or
  because both directions have ended and been passed on.
* `UpInv` and `DownInv`: while its reader is reading, the stages of a direction
  hold adjacent runs, the first starting at 1, and together they are all that was
  written, unless the connection went down before its end was seen.
* `Begun`: a served connection has no socket before `accept_new`, and is killed only
  by a host application that broke off.

`TypeOK`, then `TypeOK /\ Control`, then each of the two orders is inductive given
the ones before. A step to "end of stream" at the reader then maps to `BytePipe!End`
since `UpEnd` (or `DownEnd` with `Finished`) empties every stage and the run says
that all bytes were read; a read maps to `BytePipe!Read` because the head of the
last stage is the next number; a reset maps to `BytePipe!Reset` because `Finished`
leaves only a broken-off counterpart; the rest stutters.

The lemmas are about `Relay`, the steps that `LocalTcpForwarder` and `SocksProxy`
share with `ServedTcpPorts`, and about single effects on the queues (a queue cut
short, lost, or released by the kernel), not about one specification. How a
connection begins differs, so it comes last (`AcceptKeeps`, `AcceptFailsKeeps`).

**The dialled proxies.** `Relayed` is the invariant above without the part on how a
connection begins, and `UpMove` and `DownMove` say what a step may do to the ends of
a stream. `SharedKeeps` carries both over to the two proxies, whose modules have
those steps under their own names; what is left are the steps of their own.

* `LocalTcpForwarder`: `Waiting` says that a connection which the loop does not have
  yet waits behind an open socket, so that a closed one has a reason. The end of the
  program, between any two steps, cuts `downWire` anywhere: it keeps a front of a
  run, and nothing follows it.
* `SocksProxy`: the invariant is that of the dialogue, `Relayed` and `Handing`: the
  reader thread starts with "success", and the loop has a socket only with the
  request read to its end. It is needed where the kernel lets go of a socket with
  input unread and resets it, which throws away what the application has not read.
  `WhyClosed` finds the excuse: the other end broke off, the program ended, or
  nothing of the service had been written yet, as no "success" had been told. Input
  unread of a finished connection cannot be part of the request.

**The dialogue of SocksProxy.** `DialogueInv` says where the handshake thread is and
that the parts of the request it has passed are without a fault (`Stage`), where the
event loop is and that it only waits until "success" has been told (`Loop`), that
there are at most two replies, the first to the greeting (`Shape`), that no byte of
the service is on its way before "success" (`Data`), and that a refusal names the
first fault in the order of the checks (`Blame`). The delicate case is the reset of
the socket: it may overtake "success" on its way to the application, but then takes
the data behind it with it, so that data is never seen without the reply. The order
of the checks is written out as a table, and `FirstIsFirst` shows that what the
thread replies is the reply of the first entry that fails.

**KeyStore.** `Inv` is `TypeOK /\ Kept`. `Whole` accounts for every file that was
created: it begins with the whole text of a key, or some process is about to write
it, or a failed write or a kill left it torn - so two commands that truncate and
write the same inode still leave a text that loads. `Entitled` says what a process
between two file operations stands on (its key exists, its inode exists, it was
forced or saw no file), which is what `ReplacedOnlyByForce` needs of a step that
comes long after the test; `Addresses` relates printed addresses and running
servers to the key they are of.

**EmbeddedSsh.** For `ServerSurvives`, `Excused`: a connection that is finished
without its thread joined has a cause on record before `poll()` erases it. For
`StdinInOrder` and `OnlyAuthorized`, `UpInv`: there are numbers `d <= a` such that
the worker has been given the first `d` messages of the client, those up to `a` lie,
in order, in the socket pair, in `service()` and with the stream (`Flow`), what the
session is follows from those `d` (`Admitted`), and stdin of the process, with what
the worker holds for it, is the data among them (`Read`, by counting data messages).
For `ExitAfterOutput`, `DownInv`: all that was said, from the client back to the
socket pair, has the form of greeting, blocks, exit status (`Heard`); the pipe holds
the last of what the process wrote (`Written`); and the worker comes to the exit
status only with the process reaped and the pipe empty, unless the client has left or
closed its channel (`Phases`). As long as the session is in its loop no exit has been
said, and until the channel is closed all that was written has been said or is in the
pipe; a block that finds the channel closed is dropped, which is why `Heard` is about
those two separately.

**Pipe.** `Inv` follows the bytes: those sent, and until the client exits those it
still holds, are numbered from 1 and together all that was typed (`Bytes`); the
reader thread reports the end only with all of stdin in the chunks (`Input`); an end
of the stream is sent and seen only after all of it (`Ends`); who has exited, and
with which status, has one of the reasons the code has for it (`Outcome`); and the
same order holds for what comes back (`Back`). `NoFalseSuccess` is what `Ends` and
`Outcome` say of a server that has seen the end of the stream: an exception in the
client, wherever it comes from, may cut what is in flight but never adds a FIN to it. Success is complete since `eof` at
the server implies that what it wrote and holds is as long as what was typed.

**DerpLink.** Frames are laid end to end (`Lays`): the buffer and the connection hold
a front of what is left of the frames sent, beginning where a frame begins
(`Framed`), and exactly all that is left as long as nothing is lost (`Whole`).
Decoding takes the first frame off; moving pieces and losing the last ones keep the
form; and half a frame is never followed by another one, because a failed `send`
breaks the connection for good.

Checked by TLC only:

* Liveness under fairness (`Connects` twice, `Teardown`, `PeerLearns`, `HostLearns`,
  `Answered`, `BothEnd`, `CleanedUp`, `Arrives`), which, like `ENABLED`, is beyond
  the prover.
* The properties of `MCCommands` (`AddressRoundTrip`, `RelaysMeet`,
  `AddressIsNotLookedUp`, `ProxyReachesClient`, `ServesTheNamed`). They say what
  recursive functions and folds compute - the decoder of `TailcatAddress`, the
  parsers of the command lines - and what these compute for every input needs
  induction over data, which the installed provers cannot do: the library's
  induction theorems take an operator as a parameter.

## 7. Not modelled

* Userspace UDP (`lwip_udp.cpp`): no command uses it.
* Byte layouts of WireGuard packets and DERP frames, TLS, the HTTP request, the JSON of
  key files and DERP map, the DNS wire format; CBOR integers of eight bytes (TLC's
  integers end at 2^31).
* libsodium, wireguard-lwip, lwIP, libssh, libcurl, OpenSSH and the shell, except for
  what the code relies on (marked external in `PROJECT.json`).
* The Windows variants (process code, quoting for cmd.exe, standard streams).
* The options of `forward`, `socks` and `browse` (listen addresses, port mappings), the
  browser, `ping`, `parse` and other commands that only print.
* Hazards left without a property: a server restart makes every established client's
  traffic disappear until that client is started again (reachable in the model; no
  document promises recovery); a session older than `REJECT_AFTER_TIME` is dead (the
  same); the unbounded `received` and `chunks` queues (the models bound the bytes instead); the
  reuse of a descriptor number that another thread is about to read.
