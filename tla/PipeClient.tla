------------------------------ MODULE PipeClient ------------------------------
(***************************************************************************)
(* run_client() (src/cli.cpp): `tailcat <tc-address>` sends its stdin to a  *)
(* port of the tailcat server and writes what comes back to stdout.  A      *)
(* detached thread reads stdin; the event loop does the rest.  The peer is  *)
(* added by Pipe.  Bytes are numbered 1, 2, ...      *)
(***************************************************************************)
EXTENDS Naturals, Sequences

CONSTANTS
  MaxTyped,   \* bound: bytes written to stdin
  SendBuffer, \* lwIP's send buffer (tcp_sndbuf)
  Faults      \* whether stdin, stdout, the relay and the network fail, and
              \* packets of a process that ends are lost

ASSUME PipeAssumption ==
  MaxTyped \in Nat /\ SendBuffer \in Nat \ {0} /\ Faults \in BOOLEAN

VARIABLES
  typed, stdinEnd,  \* bytes written to stdin; "open", "eof" or "error"
  stdin,            \* typed, not read by the thread
  thread,           \* "none", "reading", "failed", "over"
  chunks, inputDone, inputError, \* InputState
  client,           \* "connecting", "running", "draining", or its exit status
  pending, writeShutdown, \* of run_client()
  up, upFin,        \* accepted by lwIP and not yet received by the peer
  down, downFin,    \* from the peer, not yet received
  received, eof, failed, \* LwipTcpStream
  stdout, readerGone, \* what was written to stdout; nobody reads it any more
  reset,            \* a reset is on its way to the peer
  fault             \* history: the relay or the network has failed

stdinVars == <<typed, stdinEnd, stdin, thread, chunks, inputDone, inputError>>
streamVars == <<up, upFin, down, downFin, received, eof, failed, reset, fault>>
clientVars == <<client, pending, writeShutdown, stdout, readerGone>>
pipeVars == <<stdinVars, streamVars, clientVars>>

Exited == client \in {"exit 0", "exit 1"}

Front(s, n) == SubSeq(s, 1, n)
Rest(s, n) == SubSeq(s, n + 1, Len(s))
Smaller(m, n) == IF m < n THEN m ELSE n

PipeInit ==
  /\ typed = 0 /\ stdinEnd = "open" /\ stdin = <<>> /\ thread = "none"
  /\ chunks = <<>> /\ inputDone = FALSE /\ inputError = FALSE
  /\ client = "connecting" /\ pending = <<>> /\ writeShutdown = FALSE
  /\ up = <<>> /\ upFin = FALSE /\ down = <<>> /\ downFin = FALSE
  /\ received = <<>> /\ eof = FALSE /\ failed = FALSE /\ reset = FALSE
  /\ stdout = <<>> /\ readerGone = FALSE /\ fault = FALSE

(***************************************************************************)
(* The user and the thread of start_stdin_reader().                         *)
(***************************************************************************)
Type ==
  /\ stdinEnd = "open" /\ typed < MaxTyped
  /\ typed' = typed + 1
  /\ stdin' = Append(stdin, typed')
  /\ UNCHANGED <<stdinEnd, thread, chunks, inputDone, inputError, streamVars,
                 clientVars>>

EndStdin ==
  /\ stdinEnd = "open"
  /\ stdinEnd' \in {"eof"} \cup (IF Faults THEN {"error"} ELSE {})
  /\ UNCHANGED <<typed, stdin, thread, chunks, inputDone, inputError,
                 streamVars, clientVars>>

(* Whoever reads the client's stdout goes away.                             *)
ReaderGone ==
  /\ Faults /\ ~readerGone
  /\ readerGone' = TRUE
  /\ UNCHANGED <<stdinVars, streamVars, client, pending, writeShutdown, stdout>>

ReadStdin ==
  /\ thread = "reading" /\ ~Exited
  /\ \E n \in 1..Len(stdin) :
       /\ chunks' = chunks \o Front(stdin, n)
       /\ stdin' = Rest(stdin, n)
  /\ UNCHANGED <<typed, stdinEnd, thread, inputDone, inputError, streamVars,
                 clientVars>>

(* read() fails: the error is reported first, the end under another lock.   *)
StdinFails ==
  /\ thread = "reading" /\ ~Exited /\ stdin = <<>> /\ stdinEnd = "error"
  /\ thread' = "failed"
  /\ inputError' = TRUE
  /\ UNCHANGED <<typed, stdinEnd, stdin, chunks, inputDone, streamVars,
                 clientVars>>

(* Mutant: the thread just returns at the end of stdin.                     *)
StdinDoneSilent ==
  /\ ~Exited
  /\ thread = "reading" /\ stdin = <<>> /\ stdinEnd = "eof"
  /\ thread' = "over"
  /\ UNCHANGED <<typed, stdinEnd, stdin, chunks, inputDone, inputError,
                 streamVars, clientVars>>

StdinDone ==
  /\ ~Exited
  /\ \/ thread = "reading" /\ stdin = <<>> /\ stdinEnd = "eof"
     \/ thread = "failed"
  /\ thread' = "over"
  /\ inputDone' = TRUE
  /\ UNCHANGED <<typed, stdinEnd, stdin, chunks, inputError, streamVars,
                 clientVars>>

(***************************************************************************)
(* lwIP's callbacks, while the client is inside pump_for().                 *)
(***************************************************************************)
Receive ==
  /\ client = "running" /\ down # <<>>
  /\ received' = Append(received, Head(down))
  /\ down' = Tail(down)
  /\ UNCHANGED <<stdinVars, clientVars, up, upFin, downFin, eof, failed, reset,
                 fault>>

ReceiveEof ==
  /\ client = "running" /\ down = <<>> /\ downFin /\ ~eof
  /\ eof' = TRUE
  /\ UNCHANGED <<stdinVars, clientVars, up, upFin, down, downFin, received,
                 failed, reset, fault>>

(***************************************************************************)
(* The event loop.                                                          *)
(***************************************************************************)
(* What a process that ends leaves in flight: all of it, or, as nobody      *)
(* retransmits any more, some first part.                                   *)
LeaveInFlight(fin) ==
  \/ UNCHANGED up /\ upFin' = fin
  \/ /\ Faults
     /\ \E n \in 0..Len(up) : up' = Front(up, n)
     /\ upFin' = FALSE

(* Mutant: the stream is shut down in order.                                *)
ThrowShuts ==
  /\ client' = "exit 1"
  /\ upFin' = TRUE
  /\ UNCHANGED <<up, reset>>

(* The stream's destructor aborts the connection, if it is still there: it  *)
(* has not failed, and close() was not called.                              *)
Throw ==
  /\ client' = "exit 1"
  /\ IF failed \/ client = "draining" THEN UNCHANGED reset
                                       ELSE reset' \in {TRUE, ~Faults}
  /\ LeaveInFlight(upFin)

Connect ==
  /\ client = "connecting"
  /\ client' = "running" /\ thread' = "reading"
  /\ UNCHANGED <<typed, stdinEnd, stdin, chunks, inputDone, inputError,
                 streamVars, pending, writeShutdown, stdout, readerGone>>

(* The connection cannot be made, or pump_for() throws: the relay has       *)
(* failed, or a frame cannot be read.                                       *)
PumpFails ==
  /\ Faults /\ client \in {"connecting", "running", "draining"}
  /\ fault' = TRUE
  /\ Throw
  /\ UNCHANGED <<stdinVars, down, downFin, received, eof, failed, pending,
                 writeShutdown, stdout, readerGone>>

(* The write side is shut down when stdin is at its end and nothing is left *)
(* of it.                                                                   *)
EndsInput(data) == data = <<>> /\ inputDone /\ ~writeShutdown

(* One pass of the loop behind pump_for().                                  *)
Iterate ==
  /\ client = "running" /\ ~failed
  /\ ~(pending = <<>> /\ inputError)
  /\ readerGone => received = <<>>
  /\ stdout' = stdout \o received /\ received' = <<>>
  /\ \E n \in 0..Len(chunks) :
       LET data == IF pending = <<>> THEN Front(chunks, n) ELSE pending
           shuts == EndsInput(data)
           room == IF writeShutdown \/ shuts THEN 0 ELSE SendBuffer - Len(up)
           count == Smaller(Len(data), room)
       IN /\ n = 0 <=> pending # <<>> \/ chunks = <<>>
          /\ chunks' = Rest(chunks, n)
          /\ writeShutdown' = (writeShutdown \/ shuts)
          /\ up' = up \o Front(data, count)
          /\ pending' = Rest(data, count)
  /\ upFin' = (writeShutdown' \/ eof)
  /\ client' = IF eof THEN "draining" ELSE "running"
  /\ UNCHANGED <<typed, stdinEnd, stdin, thread, inputDone, inputError, down,
                 downFin, eof, failed, reset, fault, readerGone>>

(* A failed stream, a stdout that cannot be written, or a failed stdin once *)
(* all that was read of it is on its way.                                   *)
IterateFails ==
  /\ client = "running"
  /\ \/ failed
     \/ readerGone /\ received # <<>>
     \/ pending = <<>> /\ inputError
  /\ stdout' = IF failed \/ readerGone THEN stdout ELSE stdout \o received
  /\ Throw
  /\ UNCHANGED <<stdinVars, down, downFin, received, eof, failed, fault,
                 pending, writeShutdown, readerGone>>

(* The 250 ms after close() are over.                                       *)
DrainOver ==
  /\ client = "draining"
  /\ client' = "exit 0"
  /\ LeaveInFlight(TRUE)
  /\ UNCHANGED <<stdinVars, down, downFin, received, eof, failed, reset,
                 fault, pending, writeShutdown, stdout, readerGone>>

UserNext == Type \/ EndStdin \/ ReaderGone
StdinNext == ReadStdin \/ StdinFails \/ StdinDone
LoopNext == Connect \/ Iterate \/ IterateFails \/ DrainOver
ClientNext ==
  UserNext \/ StdinNext \/ Receive \/ ReceiveEof \/ LoopNext \/ PumpFails
=============================================================================
