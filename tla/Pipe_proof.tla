----------------------------- MODULE Pipe_proof -----------------------------
(***************************************************************************)
(* Proofs about Pipe: however much is typed, for every size of lwIP's send  *)
(* buffer, whether or not anything fails.  The argument follows the bytes:  *)
(* what is in the server and in flight, then what the client still holds,   *)
(* is all that was typed until the client exits; and an end of stdin is     *)
(* only sent, and only received, after all of it.                           *)
(***************************************************************************)
EXTENDS Pipe, StreamLemmas

(* Bytes are numbered.                                                      *)
Byte == Nat

(* The type invariant, in the groups of variables that steps leave alone.   *)
StdinTypes ==
  /\ typed \in Nat /\ stdinEnd \in {"open", "eof", "error"}
  /\ stdin \in Seq(Byte) /\ chunks \in Seq(Byte)
  /\ thread \in {"none", "reading", "failed", "over"}
  /\ inputDone \in BOOLEAN /\ inputError \in BOOLEAN
StreamTypes ==
  /\ up \in Seq(Byte) /\ Len(up) <= SendBuffer
  /\ down \in Seq(Byte) /\ received \in Seq(Byte)
  /\ upFin \in BOOLEAN /\ downFin \in BOOLEAN /\ eof \in BOOLEAN
  /\ failed \in BOOLEAN /\ reset \in BOOLEAN /\ fault \in BOOLEAN
ClientTypes ==
  /\ client \in {"connecting", "running", "draining", "exit 0", "exit 1"}
  /\ pending \in Seq(Byte) /\ stdout \in Seq(Byte)
  /\ writeShutdown \in BOOLEAN /\ readerGone \in BOOLEAN
ServerTypes ==
  /\ server \in {"listening", "serving", "exit 0", "exit 1", "service"}
  /\ srvReceived \in Seq(Byte) /\ srvStdout \in Seq(Byte)
  /\ srvEof \in BOOLEAN /\ srvFailed \in BOOLEAN /\ stdoutGone \in BOOLEAN

TypeOK == StdinTypes /\ StreamTypes /\ ClientTypes /\ ServerTypes

(* A step that leaves a group alone keeps its types.                        *)
LEMMA Frames ==
  ASSUME TypeOK
  PROVE  /\ UNCHANGED stdinVars => StdinTypes'
         /\ UNCHANGED streamVars => StreamTypes'
         /\ UNCHANGED clientVars => ClientTypes'
         /\ UNCHANGED serverVars => ServerTypes'
<1>1. UNCHANGED stdinVars => StdinTypes'
  BY DEF TypeOK, stdinVars, StdinTypes
<1>2. UNCHANGED streamVars => StreamTypes'
  BY DEF TypeOK, streamVars, StreamTypes
<1>3. UNCHANGED clientVars => ClientTypes'
  BY DEF TypeOK, clientVars, ClientTypes
<1>4. UNCHANGED serverVars => ServerTypes'
  BY DEF TypeOK, serverVars, ServerTypes
<1>5. QED
  BY <1>1, <1>2, <1>3, <1>4

(* The initial states have these types.                                     *)
LEMMA InitTypes == Init => TypeOK
<1>1. <<>> \in Seq(Byte) /\ Len(<<>>) = 0 /\ 0 <= SendBuffer
  BY PipeAssumption
<1>2. Init => StdinTypes
  <2>1. Init => /\ typed \in Nat /\ stdinEnd = "open" /\ stdin = <<>>
                /\ chunks = <<>> /\ thread = "none"
    BY DEF Init, PipeInit
  <2>2. Init => inputDone \in BOOLEAN /\ inputError \in BOOLEAN
    BY DEF Init, PipeInit
  <2>3. QED
    BY <1>1, <2>1, <2>2 DEF StdinTypes
<1>3. Init => StreamTypes
  BY <1>1 DEF Init, PipeInit, StreamTypes
<1>4. Init => ClientTypes /\ ServerTypes
  BY <1>1 DEF Init, PipeInit, ClientTypes, ServerTypes
<1>5. QED
  BY <1>2, <1>3, <1>4 DEF TypeOK

(* A queue cut in two.                                                      *)
LEMMA Cuts ==
  ASSUME NEW s \in Seq(Byte), NEW n \in 0..Len(s)
  PROVE  /\ Front(s, n) \in Seq(Byte) /\ Rest(s, n) \in Seq(Byte)
         /\ Front(s, n) \o Rest(s, n) = s
         /\ Len(Front(s, n)) = n /\ Len(Rest(s, n)) = Len(s) - n
BY Cut DEF Front, Rest

(* What Iterate() takes of the chunks, if nothing is pending, comes before  *)
(* the rest of them.                                                        *)
LEMMA Chunk ==
  ASSUME TypeOK, NEW n \in 0..Len(chunks),
         n = 0 <=> pending # <<>> \/ chunks = <<>>
  PROVE  LET data == IF pending = <<>> THEN Front(chunks, n) ELSE pending
         IN /\ data \in Seq(Byte) /\ Rest(chunks, n) \in Seq(Byte)
            /\ data \o Rest(chunks, n) = pending \o chunks
            /\ data = <<>> => pending = <<>> /\ chunks = <<>>
<1> DEFINE data == IF pending = <<>> THEN Front(chunks, n) ELSE pending
<1>1. pending \in Seq(Byte) /\ chunks \in Seq(Byte)
  BY DEF TypeOK, ClientTypes, StdinTypes
<1>2. /\ Front(chunks, n) \in Seq(Byte) /\ Rest(chunks, n) \in Seq(Byte)
      /\ Front(chunks, n) \o Rest(chunks, n) = chunks
      /\ Len(Front(chunks, n)) = n
  BY <1>1, Cuts
<1>3. <<>> \o chunks = chunks /\ Len(<<>>) = 0
  BY <1>1, NoneQueued
<1>4. CASE pending = <<>>
  BY <1>1, <1>2, <1>3, <1>4
<1>5. CASE pending # <<>>
  <2>1. Len(Front(chunks, 0)) = 0 /\ Front(chunks, 0) \in Seq(Byte)
    BY <1>2, <1>5
  <2>2. Front(chunks, 0) = <<>>
    BY <2>1, EmptySeq
  <2>3. Rest(chunks, n) = chunks
    BY <1>2, <1>5, <2>2, NoneQueued
  <2>4. QED
    BY <1>1, <1>5, <2>3
<1>6. QED
  BY <1>4, <1>5

(* What a pass of the loop sends: a front of data, within the send buffer.  *)
(* What a pass of the loop writes to the stream is a front of its data that *)
(* fits in the send buffer, and nothing once the write side is shut down.   *)
LEMMA Sends ==
  ASSUME TypeOK, NEW data \in Seq(Byte), NEW shut \in BOOLEAN
  PROVE  LET room == IF shut THEN 0 ELSE SendBuffer - Len(up)
             count == Smaller(Len(data), room)
         IN /\ count \in 0..Len(data) /\ Len(up) + count <= SendBuffer
            /\ shut => count = 0
<1>1. Len(up) \in Nat /\ Len(up) <= SendBuffer /\ SendBuffer \in Nat
      /\ Len(data) \in Nat
  BY PipeAssumption DEF TypeOK, StreamTypes
<1>2. QED
  BY <1>1 DEF Smaller


(* A pass of the loop takes a front of pending and chunks and appends it to *)
(* the stream; the write side is shut down only when the reader is done and *)
(* both are empty.                                                          *)
LEMMA IterateSends ==
  ASSUME TypeOK, Iterate
  PROVE  /\ chunks' \in Seq(Byte) /\ pending' \in Seq(Byte)
         /\ \E x \in Seq(Byte) :
              /\ (x \o pending') \o chunks' = pending \o chunks
              /\ up' = up \o x /\ Len(up) + Len(x) <= SendBuffer
              /\ writeShutdown' => x = <<>>
         /\ writeShutdown' =>
              writeShutdown
                \/ (inputDone /\ pending = <<>> /\ chunks = <<>>)
         /\ writeShutdown => writeShutdown'
         /\ writeShutdown' \in BOOLEAN
         /\ pending = <<>> /\ chunks = <<>> => pending' = <<>> /\ chunks' = <<>>
<1>1. PICK n \in 0..Len(chunks) :
        LET data == IF pending = <<>> THEN Front(chunks, n) ELSE pending
            shuts == EndsInput(data)
            room == IF writeShutdown \/ shuts THEN 0 ELSE SendBuffer - Len(up)
            count == Smaller(Len(data), room)
        IN /\ n = 0 <=> pending # <<>> \/ chunks = <<>>
           /\ chunks' = Rest(chunks, n)
           /\ writeShutdown' = (writeShutdown \/ shuts)
           /\ up' = up \o Front(data, count)
           /\ pending' = Rest(data, count)
  BY DEF Iterate
<1> DEFINE data == IF pending = <<>> THEN Front(chunks, n) ELSE pending
           shut == writeShutdown \/ EndsInput(data)
           room == IF shut THEN 0 ELSE SendBuffer - Len(up)
           count == Smaller(Len(data), room)
           x == Front(data, count)
<1>2. /\ data \in Seq(Byte) /\ Rest(chunks, n) \in Seq(Byte)
      /\ data \o Rest(chunks, n) = pending \o chunks
      /\ data = <<>> => pending = <<>> /\ chunks = <<>>
  BY <1>1, Chunk
<1>3. /\ writeShutdown \in BOOLEAN /\ inputDone \in BOOLEAN
  BY DEF TypeOK, ClientTypes, StdinTypes
<1>4. shut \in BOOLEAN
  BY <1>3 DEF EndsInput
<1>5. /\ chunks' = Rest(chunks, n) /\ writeShutdown' = shut
      /\ up' = up \o x /\ pending' = Rest(data, count)
  BY <1>1
<1>6. /\ shut => writeShutdown \/ (inputDone /\ data = <<>>)
      /\ writeShutdown => shut
  BY DEF EndsInput
<1>7. pending = <<>> /\ chunks = <<>> => n = 0 /\ data = <<>> /\ Len(data) = 0
  <2> SUFFICES ASSUME pending = <<>>, chunks = <<>>
               PROVE  n = 0 /\ data = <<>> /\ Len(data) = 0
    OBVIOUS
  <2>1. n = 0
    BY <1>1
  <2>2. data = SubSeq(<<>>, 1, 0)
    BY <2>1 DEF Front
  <2>3. SubSeq(<<>>, 1, 0) = <<>>
    OBVIOUS
  <2>4. QED
    BY <2>1, <2>2, <2>3
<1> HIDE DEF data, shut
<1>8. /\ count \in 0..Len(data) /\ Len(up) + count <= SendBuffer
      /\ shut => count = 0
  BY <1>2, <1>4, Sends
<1> HIDE DEF count, room
<1>9. /\ x \in Seq(Byte) /\ pending' \in Seq(Byte) /\ x \o pending' = data
      /\ Len(x) = count /\ Len(pending') = Len(data) - count
  BY <1>2, <1>5, <1>8, Cuts
<1> HIDE DEF x
<1>10. shut => x = <<>>
  BY <1>8, <1>9, EmptySeq
<1>11. (x \o pending') \o chunks' = pending \o chunks
  BY <1>2, <1>5, <1>9
<1>12. /\ \E y \in Seq(Byte) :
            /\ (y \o pending') \o chunks' = pending \o chunks
            /\ up' = up \o y /\ Len(up) + Len(y) <= SendBuffer
            /\ writeShutdown' => y = <<>>
  BY <1>5, <1>8, <1>9, <1>10, <1>11
<1>13. pending = <<>> /\ chunks = <<>> => pending' = <<>> /\ chunks' = <<>>
  <2> SUFFICES ASSUME pending = <<>>, chunks = <<>>
               PROVE  pending' = <<>> /\ chunks' = <<>>
    OBVIOUS
  <2>1. Len(pending') = 0
    BY <1>7, <1>8, <1>9
  <2>2. chunks' = SubSeq(<<>>, 1, 0)
    BY <1>5, <1>7 DEF Rest
  <2>3. SubSeq(<<>>, 1, 0) = <<>>
    OBVIOUS
  <2>4. QED
    BY <1>9, <2>1, <2>2, <2>3, EmptySeq
<1>14. QED
  BY <1>2, <1>4, <1>5, <1>6, <1>9, <1>12, <1>13

(* What a process that ends leaves in flight still has its type.            *)
LEMMA InFlightTypes ==
  ASSUME TypeOK, NEW fin \in BOOLEAN, LeaveInFlight(fin)
  PROVE  up' \in Seq(Byte) /\ Len(up') <= SendBuffer /\ upFin' \in BOOLEAN
<1>1. up \in Seq(Byte) /\ Len(up) <= SendBuffer /\ SendBuffer \in Nat
  BY PipeAssumption DEF TypeOK, StreamTypes
<1>2. up' = up \/ \E n \in 0..Len(up) : up' = Front(up, n)
  BY DEF LeaveInFlight
<1>3. \A n \in 0..Len(up) :
        Front(up, n) \in Seq(Byte) /\ Len(Front(up, n)) = n
  BY <1>1, Cuts
<1>4. up' \in Seq(Byte) /\ Len(up') <= SendBuffer
  BY <1>1, <1>2, <1>3
<1>5. upFin' \in BOOLEAN
  BY DEF LeaveInFlight
<1>6. QED
  BY <1>4, <1>5

(* Every step of the client keeps the types.                                *)
LEMMA ClientStepTypes ==
  ASSUME TypeOK, ClientNext
  PROVE  StdinTypes' /\ StreamTypes' /\ ClientTypes'
<1> USE DEF ClientNext, UserNext, StdinNext, LoopNext
<1>1. CASE Type
  <2>1. typed + 1 \in Nat /\ stdin \in Seq(Byte)
    BY DEF TypeOK, StdinTypes
  <2>2. Append(stdin, typed + 1) \in Seq(Byte)
    BY <2>1, AppendProperties DEF Byte
  <2>3. StdinTypes'
    BY <1>1, <2>1, <2>2 DEF Type, TypeOK, StdinTypes
  <2>4. QED
    BY <1>1, <2>3, Frames DEF Type
<1>r. CASE ReaderGone
  <2>1. ClientTypes'
    BY <1>r DEF ReaderGone, TypeOK, ClientTypes
  <2>2. QED
    BY <1>r, <2>1, Frames DEF ReaderGone
<1>2. CASE EndStdin \/ StdinFails \/ StdinDone
  <2>1. StdinTypes'
    BY <1>2 DEF EndStdin, StdinFails, StdinDone, TypeOK, StdinTypes
  <2>2. QED
    BY <1>2, <2>1, Frames DEF EndStdin, StdinFails, StdinDone
<1>3. CASE ReadStdin
  <2>1. PICK n \in 1..Len(stdin) : /\ chunks' = chunks \o Front(stdin, n)
                                   /\ stdin' = Rest(stdin, n)
    BY <1>3 DEF ReadStdin
  <2>2. stdin \in Seq(Byte) /\ chunks \in Seq(Byte)
    BY DEF TypeOK, StdinTypes
  <2>3. n \in 0..Len(stdin)
    OBVIOUS
  <2>4. Front(stdin, n) \in Seq(Byte) /\ Rest(stdin, n) \in Seq(Byte)
    BY <2>2, <2>3, Cuts
  <2>5. chunks' \in Seq(Byte) /\ stdin' \in Seq(Byte)
    BY <2>1, <2>2, <2>4, Joined
  <2>6. StdinTypes'
    BY <1>3, <2>5 DEF ReadStdin, TypeOK, StdinTypes
  <2>7. QED
    BY <1>3, <2>6, Frames DEF ReadStdin
<1>4. CASE Receive \/ ReceiveEof
  <2>1. /\ received' = received \/ received' = Append(received, Head(down))
        /\ down' = down \/ (down # <<>> /\ down' = Tail(down))
        /\ received' = received \/ down # <<>>
    BY <1>4 DEF Receive, ReceiveEof
  <2>2. received \in Seq(Byte) /\ down \in Seq(Byte)
    BY DEF TypeOK, StreamTypes
  <2>3. received' \in Seq(Byte) /\ down' \in Seq(Byte)
    BY <2>1, <2>2, HeadMoved, ZenonT(60)
  <2>4. StreamTypes'
    BY <1>4, <2>3 DEF Receive, ReceiveEof, TypeOK, StreamTypes
  <2>5. QED
    BY <1>4, <2>4, Frames DEF Receive, ReceiveEof
<1>5. CASE Connect
  BY <1>5, Frames DEF Connect, TypeOK, StdinTypes, ClientTypes
<1>6. CASE Iterate
  <2>1. PICK x \in Seq(Byte) : up' = up \o x /\ Len(up) + Len(x) <= SendBuffer
    BY <1>6, IterateSends
  <2>0. <<>> \in Seq(Byte)
    OBVIOUS
  <2>2. up \in Seq(Byte) /\ stdout \in Seq(Byte) /\ received \in Seq(Byte)
    BY DEF TypeOK, StreamTypes, ClientTypes
  <2>3. up' \in Seq(Byte) /\ Len(up') <= SendBuffer
    BY <2>1, <2>2, Joined
  <2>4. stdout' \in Seq(Byte) /\ received' \in Seq(Byte)
    BY <1>6, <2>0, <2>2, Joined DEF Iterate
  <2>5. /\ chunks' \in Seq(Byte) /\ pending' \in Seq(Byte)
        /\ writeShutdown' \in BOOLEAN
    BY <1>6, IterateSends
  <2>6. StreamTypes'
    BY <1>6, <2>3, <2>4, <2>5 DEF Iterate, TypeOK, StreamTypes
  <2>7. ClientTypes'
    BY <1>6, <2>4, <2>5 DEF Iterate, TypeOK, ClientTypes
  <2>8. StdinTypes'
    BY <1>6, <2>5 DEF Iterate, TypeOK, StdinTypes
  <2>9. QED
    BY <2>6, <2>7, <2>8
<1>7. CASE IterateFails \/ PumpFails
  <2>1. stdout \in Seq(Byte) /\ received \in Seq(Byte)
    BY DEF TypeOK, StreamTypes, ClientTypes
  <2>2. stdout' \in Seq(Byte)
    BY <1>7, <2>1, Joined DEF IterateFails, PumpFails
  <2>3. Throw /\ upFin \in BOOLEAN /\ reset \in BOOLEAN
    BY <1>7 DEF IterateFails, PumpFails, TypeOK, StreamTypes
  <2>4. reset' \in BOOLEAN
    BY <2>3, PipeAssumption DEF Throw
  <2>5. up' \in Seq(Byte) /\ Len(up') <= SendBuffer /\ upFin' \in BOOLEAN
    BY <2>3, InFlightTypes DEF Throw
  <2>6. fault' \in BOOLEAN
    BY <1>7 DEF IterateFails, PumpFails, TypeOK, StreamTypes
  <2>7. UNCHANGED <<down, downFin, received, eof, failed>>
    BY <1>7 DEF IterateFails, PumpFails
  <2>8. StreamTypes'
    BY <2>4, <2>5, <2>6, <2>7 DEF TypeOK, StreamTypes
  <2>9. ClientTypes'
    BY <1>7, <2>2 DEF IterateFails, PumpFails, Throw, TypeOK, ClientTypes
  <2>10. QED
    BY <1>7, <2>8, <2>9, Frames DEF IterateFails, PumpFails
<1>8. CASE DrainOver
  <2>1. up' \in Seq(Byte) /\ Len(up') <= SendBuffer /\ upFin' \in BOOLEAN
    BY <1>8, InFlightTypes DEF DrainOver
  <2>2. StreamTypes' /\ ClientTypes'
    BY <1>8, <2>1 DEF DrainOver, TypeOK, StreamTypes, ClientTypes
  <2>3. QED
    BY <1>8, <2>2, Frames DEF DrainOver
<1>9. QED
  BY <1>1, <1>r, <1>2, <1>3, <1>4, <1>5, <1>6, <1>7, <1>8

(* Every other step keeps the types.                                        *)
LEMMA ServerStepTypes ==
  ASSUME TypeOK,
         \/ ServerNext \/ StdoutGone \/ ClientGivesUp
         \/ ServiceReads \/ ServiceWrites \/ ServiceShuts
  PROVE  TypeOK'
<1> USE DEF ServerNext
<1>0. <<>> \in Seq(Byte)
  OBVIOUS
<1>1. UNCHANGED <<stdinVars, clientVars>>
  BY DEF SrvReceive, SrvReceiveEof, SrvReset, SrvAccept, SrvIterate,
     SrvIterateFails, SrvPumpFails, SrvThrow, StdoutGone, ClientGivesUp,
     ServiceReads, ServiceWrites, ServiceShuts, pipeVars
<1>2. StdinTypes' /\ ClientTypes'
  BY <1>1, Frames
<1>3. /\ up \in Seq(Byte) /\ down \in Seq(Byte) /\ srvReceived \in Seq(Byte)
      /\ srvStdout \in Seq(Byte) /\ Len(up) <= SendBuffer /\ SendBuffer \in Nat
      /\ stdout \in Seq(Byte) /\ received \in Seq(Byte)
  BY PipeAssumption DEF TypeOK, StreamTypes, ServerTypes, ClientTypes
<1>4. CASE SrvReceive \/ ServiceReads
  <2>1. up # <<>> /\ up' = Tail(up)
    BY <1>4 DEF SrvReceive, ServiceReads
  <2>2. Tail(up) \in Seq(Byte) /\ Len(Tail(up)) <= SendBuffer
    BY <1>3, <2>1, HeadTailProperties
  <2>3. /\ Append(srvReceived, Head(up)) \in Seq(Byte)
        /\ Append(srvStdout, Head(up)) \in Seq(Byte)
    BY <1>3, <2>1, HeadMoved
  <2>4. StreamTypes'
    BY <1>4, <2>1, <2>2 DEF SrvReceive, ServiceReads, TypeOK, StreamTypes
  <2>5. ServerTypes'
    BY <1>4, <2>3 DEF SrvReceive, ServiceReads, TypeOK, ServerTypes
  <2>6. QED
    BY <1>2, <2>4, <2>5 DEF TypeOK
<1>5. CASE SrvReceiveEof \/ SrvReset \/ SrvAccept \/ StdoutGone
  <2>1. UNCHANGED streamVars
    BY <1>5 DEF SrvReceiveEof, SrvReset, SrvAccept, StdoutGone, pipeVars
  <2>2. ServerTypes'
    BY <1>5 DEF SrvReceiveEof, SrvReset, SrvAccept, StdoutGone, TypeOK,
       ServerTypes
  <2>3. QED
    BY <1>2, <2>1, <2>2, Frames DEF TypeOK
<1>6. CASE SrvIterate
  <2>1. srvStdout' \in Seq(Byte) /\ srvReceived' \in Seq(Byte)
    BY <1>0, <1>3, <1>6, Joined DEF SrvIterate
  <2>2. downFin' \in BOOLEAN /\ server' \in {server, "exit 0"}
    BY <1>6, PipeAssumption DEF SrvIterate, TypeOK, StreamTypes
  <2>3. StreamTypes'
    BY <1>6, <2>2 DEF SrvIterate, TypeOK, StreamTypes
  <2>4. ServerTypes'
    BY <1>6, <2>1, <2>2 DEF SrvIterate, TypeOK, ServerTypes
  <2>5. QED
    BY <1>2, <2>3, <2>4 DEF TypeOK
<1>7. CASE SrvIterateFails \/ SrvPumpFails
  <2>1. SrvThrow /\ fault' \in BOOLEAN
    BY <1>7 DEF SrvIterateFails, SrvPumpFails, TypeOK, StreamTypes
  <2>2. failed' \in BOOLEAN
    BY <2>1 DEF SrvThrow, TypeOK, StreamTypes
  <2>3. StreamTypes'
    BY <2>1, <2>2 DEF SrvThrow, TypeOK, StreamTypes
  <2>4. ServerTypes'
    BY <2>1 DEF SrvThrow, TypeOK, ServerTypes
  <2>5. QED
    BY <1>2, <2>3, <2>4 DEF TypeOK
<1>8. CASE ClientGivesUp \/ ServiceShuts
  <2>1. StreamTypes'
    BY <1>8 DEF ClientGivesUp, ServiceShuts, TypeOK, StreamTypes
  <2>2. UNCHANGED serverVars
    BY <1>8 DEF ClientGivesUp, ServiceShuts
  <2>3. QED
    BY <1>2, <2>1, <2>2, Frames DEF TypeOK
<1>9. CASE ServiceWrites
  <2>1. down' = Append(down, Len((stdout \o received) \o down) + 1)
    BY <1>9 DEF ServiceWrites
  <2>2. Len((stdout \o received) \o down) + 1 \in Nat
    BY <1>3, Joined
  <2>3. down' \in Seq(Byte)
    BY <1>3, <2>1, <2>2, AppendProperties DEF Byte
  <2>4. StreamTypes'
    BY <1>9, <2>3 DEF ServiceWrites, TypeOK, StreamTypes
  <2>5. UNCHANGED serverVars
    BY <1>9 DEF ServiceWrites
  <2>6. QED
    BY <1>2, <2>4, <2>5, Frames DEF TypeOK
<1>10. QED
  BY <1>4, <1>5, <1>6, <1>7, <1>8, <1>9

(* Every step keeps the types.                                              *)
LEMMA StepTypes == TypeOK /\ [Next]_vars => TypeOK'
<1> SUFFICES ASSUME TypeOK, [Next]_vars PROVE TypeOK'
  OBVIOUS
<1>1. CASE ClientNext /\ UNCHANGED serverVars
  BY <1>1, ClientStepTypes, Frames DEF TypeOK
<1>2. CASE UNCHANGED vars
  BY <1>2, Frames DEF vars, pipeVars, TypeOK
<1>3. QED
  BY <1>1, <1>2, ServerStepTypes DEF Next

(* Every reachable state has these types, and what is in flight never       *)
(* exceeds lwIP's send buffer (run_client() writes min(size,                *)
(* send_capacity)).                                                         *)
THEOREM TypeCorrect == Spec => []TypeOK
<1>1. QED
  BY InitTypes, StepTypes, PTL DEF Spec

-----------------------------------------------------------------------------
(* Bytes 1, 2, ... in order.                                                *)
Numbered(s) == \A i \in 1..Len(s) : s[i] = i

(* What the server has, then what is in flight; and what is left at the     *)
(* client, in the order in which it will be sent.                           *)
Sent == (srvStdout \o srvReceived) \o up
Unsent == (pending \o chunks) \o stdin

(* A first part of the bytes in order is in order.                          *)
LEMMA NumberedFront ==
  ASSUME NEW s \in Seq(Byte), NEW t \in Seq(Byte), Numbered(s \o t)
  PROVE  Numbered(s) /\ Len(s) <= Len(s \o t)
<1> DEFINE u == s \o t
<1>1. /\ Len(u) = Len(s) + Len(t) /\ Len(s) \in Nat /\ Len(t) \in Nat
      /\ \A i \in 1..Len(s) : u[i] = s[i]
  BY ConcatProperties
<1>2. Numbered(u)
  OBVIOUS
<1> HIDE DEF u
<1>3. \A i \in 1..Len(s) : i \in 1..Len(u)
  BY <1>1
<1>4. Numbered(s)
  BY <1>1, <1>2, <1>3 DEF Numbered
<1>5. Len(s) <= Len(u)
  BY <1>1
<1>6. QED
  BY <1>4, <1>5 DEF u

(* The next byte keeps the order.                                           *)
LEMMA NumberedOn ==
  ASSUME NEW s \in Seq(Byte), NEW e \in Nat, Numbered(s), e = Len(s) + 1
  PROVE  Numbered(Append(s, e)) /\ Len(Append(s, e)) = e
BY AppendProperties DEF Numbered

(* The types of the queues and of what they make together.                  *)
LEMMA QueueTypes ==
  ASSUME TypeOK
  PROVE  /\ srvStdout \in Seq(Byte) /\ srvReceived \in Seq(Byte)
         /\ up \in Seq(Byte) /\ pending \in Seq(Byte) /\ chunks \in Seq(Byte)
         /\ stdin \in Seq(Byte) /\ typed \in Nat
         /\ stdout \in Seq(Byte) /\ received \in Seq(Byte) /\ down \in Seq(Byte)
         /\ srvStdout \o srvReceived \in Seq(Byte)
         /\ Sent \in Seq(Byte) /\ Unsent \in Seq(Byte)
         /\ Len(Sent) = Len(srvStdout) + Len(srvReceived) + Len(up)
<1>1. /\ srvStdout \in Seq(Byte) /\ srvReceived \in Seq(Byte)
      /\ up \in Seq(Byte) /\ pending \in Seq(Byte) /\ chunks \in Seq(Byte)
      /\ stdin \in Seq(Byte) /\ typed \in Nat
      /\ stdout \in Seq(Byte) /\ received \in Seq(Byte) /\ down \in Seq(Byte)
  BY DEF TypeOK, StdinTypes, StreamTypes, ClientTypes, ServerTypes
<1>2. /\ srvStdout \o srvReceived \in Seq(Byte)
      /\ Len(srvStdout \o srvReceived) = Len(srvStdout) + Len(srvReceived)
  BY <1>1, Joined
<1>3. /\ Sent \in Seq(Byte)
      /\ Len(Sent) = Len(srvStdout \o srvReceived) + Len(up)
  BY <1>1, <1>2, Joined DEF Sent
<1>4. Unsent \in Seq(Byte)
  BY <1>1, Joined DEF Unsent
<1>5. QED
  BY <1>1, <1>2, <1>3, <1>4

(* The same after a step.                                                   *)
LEMMA QueueTypesNext ==
  ASSUME TypeOK'
  PROVE  Sent' \in Seq(Byte) /\ Unsent' \in Seq(Byte)
<1>1. /\ srvStdout' \in Seq(Byte) /\ srvReceived' \in Seq(Byte)
      /\ up' \in Seq(Byte) /\ pending' \in Seq(Byte) /\ chunks' \in Seq(Byte)
      /\ stdin' \in Seq(Byte)
  BY DEF TypeOK, StdinTypes, StreamTypes, ClientTypes, ServerTypes
<1>2. Sent' \in Seq(Byte)
  BY <1>1, Joined DEF Sent
<1>3. Unsent' \in Seq(Byte)
  BY <1>1, Joined DEF Unsent
<1>4. QED
  BY <1>2, <1>3

(* Queues of bytes are joined in whatever order.                            *)
LEMMA BytesInOrder ==
  \A x, y, z \in Seq(Byte) :
    x ++ y \in Seq(Byte) /\ (x ++ y) ++ z = x ++ (y ++ z)
BY InOrder

(* The reader thread moves bytes within what is left at the client.         *)
LEMMA ReadMoves ==
  ASSUME TypeOK, ReadStdin
  PROVE  UNCHANGED Unsent
<1>1. PICK n \in 1..Len(stdin) : /\ chunks' = chunks \o Front(stdin, n)
                                 /\ stdin' = Rest(stdin, n)
  BY DEF ReadStdin
<1>2. PICK p \in Seq(Byte), c \in Seq(Byte), s \in Seq(Byte) :
        p = pending /\ c = chunks /\ s = stdin
  BY QueueTypes
<1>3. n \in 0..Len(s)
  BY <1>2
<1>4. PICK x \in Seq(Byte), y \in Seq(Byte) :
        x = Front(s, n) /\ y = Rest(s, n) /\ x \o y = s
  BY <1>3, Cuts
<1>5. (p \o (c \o x)) \o y = (p \o c) \o (x \o y)
  <2>1. (p ++ (c ++ x)) ++ y = (p ++ c) ++ (x ++ y)
    BY BytesInOrder
  <2>2. QED
    BY <2>1 DEF ++
<1>6. pending' = p
  BY <1>2 DEF ReadStdin, clientVars
<1>7. Unsent' = (p \o (c \o x)) \o y /\ Unsent = (p \o c) \o s
  BY <1>1, <1>2, <1>4, <1>6 DEF Unsent
<1>8. QED
  BY <1>4, <1>5, <1>7

(* The client's loop moves bytes from what is left to what is sent.         *)
LEMMA IterateMoves ==
  ASSUME TypeOK, Iterate, UNCHANGED serverVars
  PROVE  (Sent \o Unsent)' = Sent \o Unsent
<1>1. PICK x \in Seq(Byte) : /\ (x \o pending') \o chunks' = pending \o chunks
                            /\ up' = up \o x
  BY IterateSends
<1>2. pending' \in Seq(Byte) /\ chunks' \in Seq(Byte)
  BY IterateSends
<1>3. PICK p \in Seq(Byte), c \in Seq(Byte) : p = pending' /\ c = chunks'
  BY <1>2
<1>4. UNCHANGED <<stdin, srvStdout, srvReceived>>
  BY DEF Iterate, serverVars
<1>5. PICK t \in Seq(Byte), s \in Seq(Byte) : t = Sent /\ s = stdin
  BY QueueTypes
<1>6. Sent' = t \o x
  <2>1. PICK a \in Seq(Byte), u \in Seq(Byte) :
          a = srvStdout \o srvReceived /\ u = up
    BY QueueTypes
  <2>2. (a ++ u) ++ x = a ++ (u ++ x)
    BY BytesInOrder
  <2>3. (a \o u) \o x = a \o (u \o x)
    BY <2>2 DEF ++
  <2>4. QED
    BY <1>1, <1>4, <1>5, <2>1, <2>3 DEF Sent
<1>7. Unsent' = (p \o c) \o s
  BY <1>3, <1>4, <1>5 DEF Unsent
<1>8. Unsent = ((x \o p) \o c) \o s
  BY <1>1, <1>3, <1>5 DEF Unsent
<1>9. (t \o x) \o ((p \o c) \o s) = t \o (((x \o p) \o c) \o s)
  <2>1. (t ++ x) ++ ((p ++ c) ++ s) = t ++ (((x ++ p) ++ c) ++ s)
    BY BytesInOrder
  <2>2. QED
    BY <2>1 DEF ++
<1>10. QED
  BY <1>5, <1>6, <1>7, <1>8, <1>9

(* The server moves bytes within what is sent.                              *)
LEMMA ServerMoves ==
  ASSUME TypeOK, SrvReceive \/ SrvIterate \/ ServiceReads,
         server = "service" => srvReceived = <<>>
  PROVE  UNCHANGED Sent
<1>1. PICK o \in Seq(Byte), r \in Seq(Byte), u \in Seq(Byte) :
        o = srvStdout /\ r = srvReceived /\ u = up
  BY QueueTypes
<1>2. CASE SrvReceive
  <2>1. /\ srvReceived' = Append(r, Head(u)) /\ up' = Tail(u) /\ u # <<>>
        /\ srvStdout' = o
    BY <1>1, <1>2 DEF SrvReceive
  <2>2. (o \o Append(r, Head(u))) \o Tail(u) = (o \o r) \o u
    <3>1. u # <<>>
      BY <2>1
    <3>2. /\ Append(r, Head(u)) \in Seq(Byte) /\ Tail(u) \in Seq(Byte)
          /\ Append(r, Head(u)) \o Tail(u) = r \o u
      BY <3>1, HeadMoved
    <3>3. PICK a \in Seq(Byte), e \in Seq(Byte) :
            a = Append(r, Head(u)) /\ e = Tail(u)
      BY <3>2
    <3>4. /\ (o ++ a) ++ e = o ++ (a ++ e)
          /\ (o ++ r) ++ u = o ++ (r ++ u)
      BY BytesInOrder
    <3>5. /\ (o \o a) \o e = o \o (a \o e)
          /\ (o \o r) \o u = o \o (r \o u)
      BY <3>4 DEF ++
    <3>6. QED
      BY <3>2, <3>3, <3>5
  <2>3. QED
    BY <1>1, <2>1, <2>2 DEF Sent
<1>3. CASE SrvIterate
  <2>1. srvStdout' = o \o r /\ srvReceived' = <<>> /\ up' = u
    BY <1>1, <1>3 DEF SrvIterate
  <2>2. PICK q \in Seq(Byte) : q = o \o r
    BY Joined
  <2>3. q \o <<>> = q
    BY NoneQueued
  <2>4. QED
    BY <1>1, <2>1, <2>2, <2>3 DEF Sent
<1>4. CASE ServiceReads
  <2>1. /\ srvStdout' = Append(o, Head(u)) /\ up' = Tail(u) /\ u # <<>>
        /\ srvReceived' = <<>> /\ r = <<>>
    BY <1>1, <1>4 DEF ServiceReads
  <2>2. /\ Append(o, Head(u)) \in Seq(Byte)
        /\ Append(o, Head(u)) \o Tail(u) = o \o u
    BY <2>1, HeadMoved
  <2>3. PICK a \in Seq(Byte) : a = Append(o, Head(u))
    BY <2>2
  <2>4. a \o <<>> = a /\ o \o <<>> = o
    BY NoneQueued
  <2>5. Sent' = (a \o <<>>) \o Tail(u) /\ Sent = (o \o <<>>) \o u
    BY <1>1, <2>1, <2>3 DEF Sent
  <2>6. QED
    BY <2>2, <2>3, <2>4, <2>5
<1>5. QED
  BY <1>2, <1>3, <1>4

(* Nothing that was sent is lost until the client exits; and not either if  *)
(* it fails and its FIN is still in flight.                                 *)
Whole == (client = "exit 1" /\ upFin) \/ ~Exited
(* The inductive invariant, first the bytes: while none is lost they are    *)
(* all that was typed, then what was sent is still a first part of it.      *)
Bytes ==
  /\ Numbered(Sent) /\ Len(Sent) <= typed
  /\ Whole => Numbered(Sent \o Unsent) /\ Len(Sent \o Unsent) = typed
(* The thread of start_stdin_reader(): it is done only at the end of stdin  *)
(* or after a reported error, and then all of stdin is in the chunks.       *)
Input ==
  /\ client = "connecting" => thread = "none"
  /\ inputError => thread \in {"failed", "over"}
  /\ thread = "failed" => inputError
  /\ inputDone => thread = "over"
  /\ inputDone /\ ~inputError => stdin = <<>> /\ stdinEnd = "eof"
(* The end of stdin is only sent after all of it.                           *)
EndsUp ==
  /\ writeShutdown =>
       inputDone /\ ~inputError /\ pending = <<>> /\ chunks = <<>>
  /\ upFin => writeShutdown \/ eof
(* The server sees the end of the stream only after all of stdin, and exits *)
(* with success only after it.                                              *)
EndsServer ==
  /\ server = "service" => srvReceived = <<>>
  /\ srvEof => /\ writeShutdown /\ up = <<>>
               /\ Len(srvStdout) + Len(srvReceived) = typed
  /\ server = "exit 0" => srvEof /\ srvReceived = <<>>
(* Both ends of the stream to the server.                                   *)
Ends == EndsUp /\ EndsServer
(* The client sees the end of the stream only after the server or the       *)
(* service has sent it, and reports success only after all of it.           *)
Outcome ==
  /\ downFin => server \in {"exit 0", "service"}
  /\ eof => downFin /\ down = <<>>
  /\ client \in {"draining", "exit 0"} => eof /\ received = <<>>
(* The bytes from the service to the client's stdout.                       *)
Back ==
  /\ Numbered(stdout)
  /\ client # "exit 1" => Numbered((stdout \o received) \o down)

(* The inductive invariant.                                                 *)
Inv == Bytes /\ Input /\ Ends /\ Outcome /\ Back

(* A step that only moves bytes keeps them all.                             *)
LEMMA BytesKept ==
  ASSUME TypeOK', Bytes, UNCHANGED typed,
         ~Whole => ~Whole' /\ UNCHANGED Sent,
         (Sent \o Unsent)' = Sent \o Unsent
  PROVE  Bytes'
<1>1. CASE ~Whole
  BY <1>1 DEF Bytes, Numbered
<1>2. CASE Whole
  <2>1. PICK s \in Seq(Byte), t \in Seq(Byte) : s = Sent' /\ t = Unsent'
    <3>1. Sent' \in Seq(Byte) /\ Unsent' \in Seq(Byte)
      BY QueueTypesNext
    <3>2. QED
      BY <3>1
  <2>2. Numbered(s \o t) /\ Len(s \o t) = typed
    BY <1>2, <2>1 DEF Bytes
  <2>3. Numbered(s) /\ Len(s) <= typed
    BY <2>2, NumberedFront
  <2>4. QED
    BY <2>1, <2>2, <2>3 DEF Bytes, Numbered
<1>3. QED
  BY <1>1, <1>2

(* The invariant holds initially.                                           *)
LEMMA InitInv == Init => Inv
<1> SUFFICES ASSUME Init PROVE Inv
  OBVIOUS
<1>1. Input /\ Outcome
  BY DEF Init, PipeInit, Input, Outcome
<1>2. Ends
  <2>1. ~writeShutdown /\ ~upFin /\ ~srvEof
    BY DEF Init, PipeInit
  <2>2. server # "exit 0" /\ srvReceived = <<>>
    BY DEF Init
  <2>3. QED
    BY <2>1, <2>2 DEF Ends, EndsUp, EndsServer
<1>3. Len(<<>>) = 0 /\ <<>> \o <<>> = <<>>
  OBVIOUS
<1>4. Numbered(<<>>)
  BY <1>3 DEF Numbered
<1>5. Sent = <<>> /\ Unsent = <<>> /\ typed = 0
  BY <1>3 DEF Init, PipeInit, Sent, Unsent
<1>6. Bytes
  <2>1. Sent \o Unsent = <<>>
    BY <1>3, <1>5
  <2>2. QED
    BY <1>3, <1>5, <2>1 DEF Bytes, Numbered
<1>7. Back
  <2>1. stdout = <<>> /\ received = <<>> /\ down = <<>>
    BY DEF Init, PipeInit
  <2>2. (stdout \o received) \o down = <<>>
    BY <1>3, <2>1
  <2>3. QED
    BY <1>4, <2>1, <2>2 DEF Back
<1>8. QED
  BY <1>1, <1>2, <1>6, <1>7 DEF Inv

(* No step disturbs what is known of the reader thread.                     *)
LEMMA InputStep ==
  ASSUME Input, [Next]_vars
  PROVE  Input'
<1>r. CASE ReaderGone
  BY <1>r DEF ReaderGone, stdinVars, Input
<1>1. CASE Type \/ EndStdin
  <2>1. /\ stdinEnd = "open"
        /\ UNCHANGED <<thread, inputDone, inputError, client>>
    BY <1>1 DEF Type, EndStdin, clientVars
  <2>2. QED
    BY <2>1 DEF Input
<1>2. CASE ReadStdin
  BY <1>2 DEF ReadStdin, clientVars, Input
<1>3. CASE StdinFails \/ StdinDone
  <2>1. UNCHANGED <<stdin, stdinEnd, client>>
    BY <1>3 DEF StdinFails, StdinDone, clientVars
  <2>2. CASE StdinFails
    BY <2>1, <2>2 DEF StdinFails, Input
  <2>3. CASE StdinDone
    BY <2>1, <2>3 DEF StdinDone, Input
  <2>4. QED
    BY <1>3, <2>2, <2>3
<1>4. CASE Connect
  <2>1. /\ thread = "none" /\ thread' = "reading" /\ client' = "running"
        /\ UNCHANGED <<stdin, stdinEnd, inputDone, inputError>>
    BY <1>4 DEF Connect, Input
  <2>2. QED
    BY <2>1 DEF Input
<1>5. CASE UNCHANGED <<typed, stdinEnd, stdin, thread, inputDone, inputError>>
           /\ (client' = "connecting" => client = "connecting")
  BY <1>5 DEF Input
<1>6. CASE \/ Receive \/ ReceiveEof \/ Iterate \/ IterateFails \/ PumpFails
           \/ DrainOver
  <2>1. UNCHANGED <<typed, stdinEnd, stdin, thread, inputDone, inputError>>
    BY <1>6 DEF Receive, ReceiveEof, Iterate, IterateFails, PumpFails,
       DrainOver, stdinVars
  <2>2. client' # "connecting" \/ client' = client
    BY <1>6 DEF Receive, ReceiveEof, Iterate, IterateFails, PumpFails, Throw,
       DrainOver, clientVars
  <2>3. QED
    BY <1>5, <2>1, <2>2
<1>7. CASE \/ ServerNext \/ StdoutGone \/ ClientGivesUp
           \/ ServiceReads \/ ServiceWrites \/ ServiceShuts \/ UNCHANGED vars
  <2>1. UNCHANGED <<stdinVars, clientVars>>
    BY <1>7 DEF ServerNext, SrvReceive, SrvReceiveEof, SrvReset, SrvAccept,
       SrvIterate, SrvIterateFails, SrvPumpFails, SrvThrow, StdoutGone,
       ClientGivesUp, ServiceReads, ServiceWrites, ServiceShuts, pipeVars, vars
  <2>2. QED
    BY <1>5, <2>1 DEF stdinVars, clientVars
<1>8. QED
  BY <1>1, <1>r, <1>2, <1>3, <1>4, <1>6, <1>7
     DEF Next, ClientNext, UserNext, StdinNext, LoopNext

(* No step disturbs what is known of the outcomes.                          *)
LEMMA OutcomeStep ==
  ASSUME TypeOK, Input, Outcome, [Next]_vars
  PROVE  Outcome'
<1>1. CASE UNCHANGED <<server, downFin, down, eof, received, client>>
  BY <1>1 DEF Outcome
<1>2. CASE ClientNext /\ UNCHANGED serverVars
  <2>1. UNCHANGED <<server>>
    BY <1>2 DEF serverVars
  <2>2. CASE UserNext \/ StdinNext
    <3>1. UNCHANGED <<streamVars, client>>
      BY <2>2 DEF UserNext, StdinNext, Type, EndStdin, ReaderGone, ReadStdin,
         StdinFails, StdinDone, clientVars
    <3>2. QED
      BY <1>1, <2>1, <3>1 DEF streamVars
  <2>3. CASE Receive \/ ReceiveEof
    <3>1. /\ UNCHANGED downFin
          /\ client = "running" /\ client' = client
      BY <2>3 DEF Receive, ReceiveEof, clientVars
    <3>2. eof' => downFin' /\ down' = <<>>
      BY <2>3 DEF Receive, ReceiveEof, Outcome
    <3>3. QED
      BY <2>1, <3>1, <3>2 DEF Outcome
  <2>4. CASE Connect
    <3>1. /\ client' = "running"
          /\ UNCHANGED <<downFin, down, eof, received>>
      BY <2>4 DEF Connect, streamVars
    <3>2. QED
      BY <2>1, <3>1 DEF Outcome
  <2>5. CASE Iterate
    <3>1. UNCHANGED <<downFin, down, eof>>
      BY <2>5 DEF Iterate
    <3>2. received' = <<>> /\ client' \in {"draining", "running"}
      BY <2>5 DEF Iterate
    <3>3. client' = "draining" => eof
      BY <2>5 DEF Iterate
    <3>4. QED
      BY <2>1, <3>1, <3>2, <3>3 DEF Outcome
  <2>6. CASE IterateFails \/ PumpFails
    <3>1. UNCHANGED <<downFin, down, eof, received>>
      BY <2>6 DEF IterateFails, PumpFails
    <3>2. client' = "exit 1"
      BY <2>6 DEF IterateFails, PumpFails, Throw
    <3>3. QED
      BY <2>1, <3>1, <3>2 DEF Outcome
  <2>7. CASE DrainOver
    <3>1. /\ UNCHANGED <<downFin, down, eof, received>>
          /\ client = "draining" /\ client' = "exit 0"
      BY <2>7 DEF DrainOver
    <3>2. QED
      BY <2>1, <3>1 DEF Outcome
  <2>8. QED
    BY <1>2, <2>2, <2>3, <2>4, <2>5, <2>6, <2>7 DEF ClientNext, LoopNext
<1>3. CASE SrvReceive \/ SrvReceiveEof \/ SrvReset \/ StdoutGone \/ ServiceReads
  BY <1>1, <1>3 DEF SrvReceive, SrvReceiveEof, SrvReset, StdoutGone,
     ServiceReads, pipeVars, streamVars, stdinVars, clientVars
<1>4. CASE SrvAccept \/ SrvIterate \/ SrvIterateFails \/ SrvPumpFails
  <2>1. /\ UNCHANGED <<down, eof, received, client>>
        /\ server \in {"listening", "serving"}
    BY <1>4 DEF SrvAccept, SrvIterate, SrvIterateFails, SrvPumpFails, SrvThrow,
       ServerUp, pipeVars, streamVars, clientVars
  <2>2. ~downFin /\ ~eof
    BY <2>1 DEF Outcome
  <2>3. downFin' => server' = "exit 0"
    <3>1. SrvAccept \/ SrvIterateFails \/ SrvPumpFails => UNCHANGED downFin
      BY DEF SrvAccept, SrvIterateFails, SrvPumpFails, SrvThrow, pipeVars,
         streamVars
    <3>2. SrvIterate => server' = "exit 0" \/ UNCHANGED downFin
      BY DEF SrvIterate
    <3>3. QED
      BY <1>4, <2>2, <3>1, <3>2
  <2>4. QED
    BY <2>1, <2>2, <2>3 DEF Outcome
<1>5. CASE ServiceWrites \/ ServiceShuts
  <2>1. /\ UNCHANGED <<server, eof, received, client>>
        /\ server = "service" /\ ~downFin
    BY <1>5 DEF ServiceWrites, ServiceShuts, serverVars, clientVars
  <2>2. QED
    BY <2>1 DEF Outcome
<1>6. CASE ClientGivesUp
  <2>1. UNCHANGED <<server, downFin, down, eof, received, client>>
    BY <1>6 DEF ClientGivesUp, serverVars, clientVars
  <2>2. QED
    BY <1>1, <2>1
<1>7. CASE UNCHANGED vars
  BY <1>1, <1>7 DEF vars, pipeVars, streamVars, stdinVars, clientVars,
     serverVars
<1>8. QED
  BY <1>2, <1>3, <1>4, <1>5, <1>6, <1>7 DEF Next, ServerNext

(* Nothing can be lost of nothing.                                          *)
LEMMA FrontOfNone ==
  ASSUME NEW n \in 0..Len(up), TypeOK, up = <<>>
  PROVE  Front(up, n) = <<>>
<1>1. n = 0
  BY EmptySeq
<1>2. SubSeq(<<>>, 1, 0) = <<>>
  OBVIOUS
<1>3. QED
  BY <1>1, <1>2 DEF Front

(* Once the end of stdin is sent nothing is left of it at the client.       *)
LEMMA AllSent ==
  ASSUME TypeOK, Bytes, Input, Ends, writeShutdown, Whole
  PROVE  Len(Sent) = typed
<1>1. pending = <<>> /\ chunks = <<>> /\ stdin = <<>>
  BY DEF Ends, EndsUp, EndsServer, Input
<1>2. <<>> \o <<>> = <<>>
  BY ONLY <<>> = <<>>
<1>3. Unsent = <<>>
  BY <1>1, <1>2 DEF Unsent
<1>4. Sent \o Unsent = Sent
  BY <1>3, QueueTypes, NoneQueued
<1>5. QED
  BY <1>4 DEF Bytes

(* No step sends the end of stdin too early, or reads more of it later.     *)
LEMMA EndsUpStep ==
  ASSUME TypeOK, Input, Ends, Outcome, [Next]_vars
  PROVE  EndsUp'
<1>0. EndsUp
  BY DEF Ends
<1>1. CASE /\ UNCHANGED <<writeShutdown, pending, chunks, inputError>>
           /\ inputDone => inputDone'
           /\ eof => eof'
           /\ upFin' => upFin
  BY <1>0, <1>1 DEF EndsUp
<1>2. CASE UserNext \/ StdinNext
  <2>1. /\ UNCHANGED <<writeShutdown, pending, upFin, eof>>
        /\ inputDone => inputDone'
    BY <1>2 DEF UserNext, StdinNext, Type, EndStdin, ReaderGone, ReadStdin,
       StdinFails, StdinDone, stdinVars, clientVars, streamVars
  <2>2. CASE UserNext \/ StdinDone
    <3>1. UNCHANGED <<chunks, inputError>>
      BY <2>2 DEF UserNext, Type, EndStdin, ReaderGone, StdinDone, stdinVars
    <3>2. QED
      BY <1>1, <2>1, <3>1
  <2>3. CASE ReadStdin \/ StdinFails
    <3>1. thread = "reading"
      BY <2>3 DEF ReadStdin, StdinFails
    <3>2. ~writeShutdown
      BY <1>0, <3>1 DEF EndsUp, Input
    <3>3. QED
      BY <1>0, <2>1, <3>2 DEF EndsUp
  <2>4. QED
    BY <1>2, <2>2, <2>3 DEF StdinNext
<1>3. CASE Receive \/ ReceiveEof
  <2>1. UNCHANGED <<writeShutdown, pending, chunks, upFin, inputError,
      inputDone>>
    BY <1>3 DEF Receive, ReceiveEof, stdinVars, clientVars
  <2>2. eof => eof'
    BY <1>3 DEF Receive, ReceiveEof
  <2>3. QED
    BY <1>1, <2>1, <2>2
<1>4. CASE Connect
  <2>1. UNCHANGED <<writeShutdown, pending, chunks, upFin, inputError,
      inputDone, eof>>
    BY <1>4 DEF Connect, streamVars
  <2>3. QED
    BY <1>1, <2>1
<1>5. CASE Iterate
  <2>1. UNCHANGED <<inputDone, inputError, eof>>
    BY <1>5 DEF Iterate
  <2>2. upFin' => writeShutdown' \/ eof
    BY <1>5 DEF Iterate
  <2>3. /\ writeShutdown' =>
             writeShutdown \/ (inputDone /\ pending = <<>> /\ chunks = <<>>)
        /\ pending = <<>> /\ chunks = <<>> => pending' = <<>> /\ chunks' = <<>>
    BY <1>5, IterateSends
  <2>4. pending = <<>> => ~inputError
    BY <1>5 DEF Iterate
  <2>5. QED
    BY <1>0, <2>1, <2>2, <2>3, <2>4 DEF EndsUp
<1>6. CASE IterateFails \/ PumpFails
  <2>1. UNCHANGED <<writeShutdown, pending, chunks, inputError, inputDone, eof>>
    BY <1>6 DEF IterateFails, PumpFails, stdinVars
  <2>2. upFin' => upFin
    BY <1>6 DEF IterateFails, PumpFails, Throw, LeaveInFlight
  <2>3. QED
    BY <1>1, <2>1, <2>2
<1>7. CASE DrainOver
  <2>1. /\ UNCHANGED <<writeShutdown, pending, chunks, inputError, inputDone,
             eof>>
        /\ client = "draining"
    BY <1>7 DEF DrainOver, stdinVars
  <2>2. eof
    BY <2>1 DEF Outcome
  <2>3. QED
    BY <1>0, <2>1, <2>2 DEF EndsUp
<1>8. CASE \/ ServerNext \/ StdoutGone \/ ClientGivesUp
           \/ ServiceReads \/ ServiceWrites \/ ServiceShuts \/ UNCHANGED vars
  <2>1. UNCHANGED <<stdinVars, clientVars, upFin, eof>>
    BY <1>8 DEF ServerNext, SrvReceive, SrvReceiveEof, SrvReset, SrvAccept,
       SrvIterate, SrvIterateFails, SrvPumpFails, SrvThrow, StdoutGone,
       ClientGivesUp, ServiceReads, ServiceWrites, ServiceShuts, pipeVars, vars,
       streamVars
  <2>2. QED
    BY <1>1, <2>1 DEF stdinVars, clientVars
<1>9. QED
  BY <1>2, <1>3, <1>4, <1>5, <1>6, <1>7, <1>8 DEF Next, ClientNext, LoopNext

(* No step lets the server see the end of the stream too early.             *)
LEMMA EndsServerStep ==
  ASSUME TypeOK, Bytes, Input, Ends, Outcome, [Next]_vars
  PROVE  EndsServer'
<1>0. EndsServer
  BY DEF Ends
<1>1. CASE /\ UNCHANGED <<serverVars, typed>>
           /\ writeShutdown => writeShutdown'
           /\ writeShutdown /\ up = <<>> => up' = <<>>
  BY <1>0, <1>1 DEF EndsServer, serverVars
<1>2. CASE ClientNext /\ UNCHANGED serverVars
  <2>1. CASE Type
    <3>1. stdinEnd = "open" /\ UNCHANGED <<writeShutdown, up>>
      BY <2>1 DEF Type, clientVars, streamVars
    <3>2. ~writeShutdown
      BY <3>1 DEF Ends, EndsUp, EndsServer, Input
    <3>3. ~srvEof
      BY <1>0, <3>2 DEF EndsServer
    <3>4. QED
      BY <1>0, <1>2, <3>3 DEF EndsServer, serverVars
  <2>2. CASE \/ EndStdin \/ ReaderGone \/ StdinNext \/ Receive \/ ReceiveEof
             \/ Connect
    <3>1. UNCHANGED <<typed, up, writeShutdown>>
      BY <2>2 DEF EndStdin, ReaderGone, StdinNext, ReadStdin, StdinFails,
         StdinDone, Receive, ReceiveEof, Connect, stdinVars, streamVars,
         clientVars
    <3>2. QED
      BY <1>1, <1>2, <3>1
  <2>3. CASE Iterate
    <3>1. PICK x \in Seq(Byte) : up' = up \o x /\ (writeShutdown' => x = <<>>)
      BY <2>3, IterateSends
    <3>2. writeShutdown => writeShutdown'
      BY <2>3, IterateSends
    <3>3. <<>> \o <<>> = <<>>
      OBVIOUS
    <3>4. writeShutdown /\ up = <<>> => up' = <<>>
      BY <3>1, <3>2, <3>3
    <3>5. UNCHANGED typed
      BY <2>3 DEF Iterate
    <3>6. QED
      BY <1>1, <1>2, <3>2, <3>4, <3>5
  <2>4. CASE DrainOver \/ IterateFails \/ PumpFails
    <3>1. /\ UNCHANGED <<typed, writeShutdown>>
          /\ up' = up \/ \E n \in 0..Len(up) : up' = Front(up, n)
      BY <2>4 DEF DrainOver, IterateFails, PumpFails, Throw, LeaveInFlight,
         stdinVars
    <3>2. up = <<>> => up' = <<>>
      BY <3>1, FrontOfNone
    <3>3. QED
      BY <1>1, <1>2, <3>1, <3>2
  <2>5. QED
    BY <1>2, <2>1, <2>2, <2>3, <2>4 DEF ClientNext, UserNext, LoopNext
<1>3. CASE SrvReceive \/ ServiceReads
  <2>1. /\ up # <<>> /\ UNCHANGED <<server, srvEof>>
        /\ server = "service" => UNCHANGED srvReceived
        /\ server # "exit 0"
    BY <1>3 DEF SrvReceive, ServiceReads, ServerUp
  <2>2. ~srvEof
    BY <1>0, <2>1 DEF EndsServer
  <2>3. QED
    BY <1>0, <2>1, <2>2 DEF EndsServer
<1>4. CASE SrvReceiveEof
  <2>1. /\ ServerUp /\ up = <<>> /\ upFin
        /\ UNCHANGED <<writeShutdown, up, typed, server, srvReceived,
             srvStdout>>
    BY <1>4 DEF SrvReceiveEof, pipeVars, stdinVars, streamVars, clientVars
  <2>2. ~downFin /\ ~eof /\ client # "exit 0"
    BY <2>1 DEF Outcome, ServerUp
  <2>3. writeShutdown
    BY <2>1, <2>2 DEF Ends, EndsUp, EndsServer
  <2>4. Len(Sent) = typed
    BY <2>1, <2>2, <2>3, AllSent DEF Whole, Exited
  <2>5. Len(Sent) = Len(srvStdout) + Len(srvReceived)
    <3>1. Len(up) = 0 /\ Len(srvStdout) \in Nat /\ Len(srvReceived) \in Nat
      BY <2>1, QueueTypes
    <3>2. QED
      BY <3>1, QueueTypes
  <2>6. QED
    BY <1>0, <2>1, <2>3, <2>4, <2>5 DEF EndsServer, ServerUp
<1>5. CASE \/ SrvReset \/ StdoutGone \/ ServiceWrites
           \/ ServiceShuts \/ ClientGivesUp
           \/ UNCHANGED vars
  <2>1. UNCHANGED <<writeShutdown, up, typed, server, srvReceived, srvStdout,
      srvEof>>
    BY <1>5 DEF SrvReset, StdoutGone, ServiceWrites, ServiceShuts,
        ClientGivesUp,
       vars, pipeVars, stdinVars, streamVars, clientVars, serverVars
  <2>2. QED
    BY <1>0, <2>1 DEF EndsServer
<1>6. CASE SrvAccept \/ SrvIterateFails \/ SrvPumpFails
  <2>1. /\ UNCHANGED <<writeShutdown, up, typed, srvReceived, srvStdout,
             srvEof>>
        /\ server' \in {"serving", "exit 1"}
    BY <1>6 DEF SrvAccept, SrvIterateFails, SrvPumpFails, SrvThrow, pipeVars,
       stdinVars, streamVars, clientVars
  <2>2. QED
    BY <1>0, <2>1 DEF EndsServer
<1>7. CASE SrvIterate
  <2>1. /\ UNCHANGED <<writeShutdown, up, typed, srvEof>>
        /\ server = "serving" /\ srvReceived' = <<>>
        /\ srvStdout' = srvStdout \o srvReceived
    BY <1>7 DEF SrvIterate, stdinVars, clientVars
  <2>2. /\ Len(srvStdout') + Len(srvReceived') =
             Len(srvStdout) + Len(srvReceived)
    <3>1. srvStdout \in Seq(Byte) /\ srvReceived \in Seq(Byte)
      BY QueueTypes
    <3>2. Len(srvStdout \o srvReceived) = Len(srvStdout) + Len(srvReceived)
      BY <3>1, Joined
    <3>3. /\ Len(<<>>) = 0 /\ Len(srvStdout) \in Nat
          /\ Len(srvReceived) \in Nat
      BY <3>1
    <3>4. QED
      BY <2>1, <3>2, <3>3
  <2>3. server' = "exit 0" => srvEof
    BY <1>7 DEF SrvIterate
  <2>4. server' # "service" \/ srvReceived' = <<>>
    BY <2>1
  <2>5. QED
    BY <1>0, <2>1, <2>2, <2>3 DEF EndsServer
<1>8. QED
  BY <1>2, <1>3, <1>4, <1>5, <1>6, <1>7 DEF Next, ServerNext

(* What a process that ends leaves in flight is still in order.             *)
LEMMA InFlightBytes ==
  ASSUME TypeOK, Bytes, UNCHANGED <<typed, srvStdout, srvReceived>>,
         NEW n \in 0..Len(up), up' = Front(up, n)
  PROVE  Numbered(Sent') /\ Len(Sent') <= typed
<1>1. PICK q \in Seq(Byte) : q = srvStdout \o srvReceived
  BY QueueTypes
<1>2. PICK f \in Seq(Byte), r \in Seq(Byte) :
        f = Front(up, n) /\ r = Rest(up, n) /\ f \o r = up
  <2>1. up \in Seq(Byte)
    BY QueueTypes
  <2>2. /\ Front(up, n) \in Seq(Byte) /\ Rest(up, n) \in Seq(Byte)
        /\ Front(up, n) \o Rest(up, n) = up
    BY <2>1, Cuts
  <2>3. QED
    BY <2>2
<1>3. (q \o f) \o r = q \o (f \o r)
  <2>1. (q ++ f) ++ r = q ++ (f ++ r)
    BY BytesInOrder
  <2>2. QED
    BY <2>1 DEF ++
<1>4. PICK g \in Seq(Byte) : g = q \o f
  BY Joined
<1>5. g \o r = Sent
  BY <1>1, <1>2, <1>3, <1>4 DEF Sent
<1>6. Numbered(g \o r) /\ Len(g \o r) <= typed
  BY <1>5 DEF Bytes, Numbered
<1>7. Numbered(g) /\ Len(g) <= Len(g \o r)
  BY <1>6, NumberedFront
<1>8. Len(g) <= typed
  <2>1. Sent \in Seq(Byte) /\ typed \in Nat
    BY QueueTypes
  <2>2. Len(g) \in Nat /\ Len(Sent) \in Nat
    BY <2>1
  <2>3. Len(Sent) <= typed /\ Len(g) <= Len(Sent)
    BY <1>5, <1>7 DEF Bytes
  <2>4. QED
    BY <2>1, <2>2, <2>3
<1>9. Sent' = g
  BY <1>1, <1>2, <1>4 DEF Sent
<1>10. QED
  BY <1>7, <1>8, <1>9 DEF Numbered

(* No step loses or reorders bytes to the server, except what the client    *)
(* leaves in flight when it exits: then the last of them.                   *)
LEMMA BytesStep ==
  ASSUME TypeOK, TypeOK', Bytes, Input, Ends, Outcome, [Next]_vars
  PROVE  Bytes'
<1>1. CASE UNCHANGED <<typed, Sent, Unsent, client, upFin>>
  <2>1. UNCHANGED (Sent \o Unsent)
    BY <1>1
  <2>2. UNCHANGED Whole
    BY <1>1 DEF Whole, Exited
  <2>3. QED
    BY <1>1, <2>1, <2>2 DEF Bytes, Numbered
<1>2. CASE ClientNext /\ UNCHANGED serverVars
  <2>1. CASE Type
    <3>1. /\ stdin' = Append(stdin, typed + 1) /\ typed' = typed + 1
          /\ UNCHANGED <<pending, chunks, up, srvStdout, srvReceived>>
      BY <1>2, <2>1 DEF Type, clientVars, streamVars, serverVars
    <3>w. UNCHANGED Whole
      BY <2>1 DEF Type, clientVars, streamVars, Whole, Exited
    <3>2. PICK q \in Seq(Byte) : q = pending \o chunks
      BY QueueTypes, Joined
    <3>3. PICK e \in Byte : e = typed + 1
      BY QueueTypes, SMTT(20) DEF Byte
    <3>t. stdin \in Seq(Byte) /\ Sent \in Seq(Byte) /\ Unsent \in Seq(Byte)
      BY QueueTypes
    <3>4. q \o Append(stdin, e) = Append(q \o stdin, e)
      BY <3>t, LastAppended
    <3>5. Unsent' = Append(Unsent, e)
      BY <3>1, <3>2, <3>3, <3>4 DEF Unsent
    <3>6. UNCHANGED Sent
      BY <3>1 DEF Sent
    <3>7. Sent \o Append(Unsent, e) = Append(Sent \o Unsent, e)
      BY <3>t, LastAppended
    <3>8. PICK s \in Seq(Byte) : s = Sent \o Unsent
      BY <3>t, Joined
    <3>9. (Sent \o Unsent)' = Append(s, e)
      BY <3>5, <3>6, <3>7, <3>8
    <3>10. Whole => Numbered(Append(s, e)) /\ Len(Append(s, e)) = e
      <4>1. Whole => Numbered(s) /\ e = Len(s) + 1
        BY <3>3, <3>8 DEF Bytes
      <4>2. e \in Nat
        BY DEF Byte
      <4>3. Numbered(s) /\ e = Len(s) + 1 =>
              Numbered(Append(s, e)) /\ Len(Append(s, e)) = e
        BY <4>2, NumberedOn
      <4>4. QED
        BY <4>1, <4>3
    <3>11. Numbered(Sent') /\ Len(Sent') <= typed'
      <4>t. typed \in Nat
        BY QueueTypes
      <4>l. Len(Sent) \in Nat
        BY <3>t
      <4>1. /\ Numbered(Sent) /\ Len(Sent) <= typed /\ Len(Sent) \in Nat
            /\ typed \in Nat
        BY <4>t, <4>l DEF Bytes
      <4>2. Len(Sent) <= typed + 1
        BY <4>1
      <4>3. QED
        BY <3>1, <3>6, <4>1, <4>2 DEF Numbered
    <3>12. QED
      BY <3>1, <3>w, <3>3, <3>9, <3>10, <3>11 DEF Bytes, Numbered
  <2>2. CASE \/ EndStdin \/ ReaderGone \/ StdinFails \/ StdinDone
             \/ Receive \/ ReceiveEof
    <3>1. UNCHANGED <<typed, stdin, chunks, pending, up, srvStdout,
                      srvReceived, client, upFin>>
      BY <1>2, <2>2 DEF EndStdin, ReaderGone, StdinFails, StdinDone, Receive,
         ReceiveEof, stdinVars, streamVars, clientVars, serverVars
    <3>2. QED
      BY <1>1, <3>1 DEF Sent, Unsent
  <2>3. CASE Connect
    <3>1. UNCHANGED <<typed, stdin, chunks, pending, up, srvStdout,
                      srvReceived>>
      BY <1>2, <2>3 DEF Connect, streamVars, serverVars
    <3>2. Whole
      BY <2>3 DEF Connect, Whole, Exited
    <3>3. UNCHANGED <<Sent, Unsent>>
      BY <3>1 DEF Sent, Unsent
    <3>4. UNCHANGED (Sent \o Unsent)
      BY <3>3
    <3>5. QED
      BY <3>1, <3>2, <3>4, BytesKept
  <2>4. CASE ReadStdin
    <3>1. UNCHANGED Unsent
      BY <2>4, ReadMoves
    <3>2. UNCHANGED Sent /\ UNCHANGED <<typed, client, upFin>>
      BY <1>2, <2>4 DEF ReadStdin, streamVars, clientVars, serverVars, Sent
    <3>3. QED
      BY <1>1, <3>1, <3>2
  <2>5. CASE Iterate
    <3>1. UNCHANGED (Sent \o Unsent)
      BY <1>2, <2>5, IterateMoves
    <3>2. UNCHANGED typed /\ Whole
      BY <2>5 DEF Iterate, Whole, Exited
    <3>3. QED
      BY <3>1, <3>2, BytesKept
  <2>6. CASE DrainOver \/ IterateFails \/ PumpFails
    <3>1. /\ UNCHANGED <<typed, stdin, chunks, pending, srvStdout, srvReceived>>
          /\ client \in {"connecting", "running", "draining"}
      BY <1>2, <2>6 DEF DrainOver, IterateFails, PumpFails, stdinVars,
         serverVars
    <3>2. \/ UNCHANGED up
          \/ /\ \E n \in 0..Len(up) : up' = Front(up, n)
             /\ Exited' /\ ~upFin'
      BY <2>6 DEF DrainOver, IterateFails, PumpFails, Throw, LeaveInFlight,
         Exited
    <3>3. CASE UNCHANGED up
      <4>1. UNCHANGED <<Sent, Unsent>>
        BY <3>1, <3>3 DEF Sent, Unsent
      <4>2. UNCHANGED (Sent \o Unsent)
        BY <4>1
      <4>3. Whole
        BY <3>1 DEF Whole, Exited
      <4>4. QED
        BY <3>1, <4>2, <4>3, BytesKept
    <3>4. CASE /\ \E n \in 0..Len(up) : up' = Front(up, n)
               /\ Exited' /\ ~upFin'
      <4>1. ~Whole'
        BY <3>4 DEF Whole
      <4>2. PICK n \in 0..Len(up) : up' = Front(up, n)
        BY <3>4
      <4>3. Numbered(Sent') /\ Len(Sent') <= typed
        BY <3>1, <4>2, InFlightBytes
      <4>4. QED
        BY <3>1, <4>1, <4>3 DEF Bytes, Numbered
    <3>5. QED
      BY <3>2, <3>3, <3>4
  <2>7. QED
    BY <1>2, <2>1, <2>2, <2>3, <2>4, <2>5, <2>6
       DEF ClientNext, UserNext, StdinNext, LoopNext
<1>3. CASE SrvReceive \/ SrvIterate \/ ServiceReads
  <2>1. UNCHANGED Sent
    BY <1>3, ServerMoves DEF Ends, EndsUp, EndsServer
  <2>2. UNCHANGED <<typed, stdin, chunks, pending, client, upFin>>
    BY <1>3 DEF SrvReceive, SrvIterate, ServiceReads, stdinVars, clientVars
  <2>3. QED
    BY <1>1, <2>1, <2>2 DEF Unsent
<1>4. CASE \/ SrvReceiveEof \/ SrvReset \/ SrvAccept \/ SrvIterateFails
           \/ SrvPumpFails \/ StdoutGone \/ ServiceWrites \/ ServiceShuts
           \/ ClientGivesUp
           \/ UNCHANGED vars
  <2>1. UNCHANGED <<typed, stdin, chunks, pending, up, srvStdout, srvReceived,
                    client, upFin>>
    BY <1>4 DEF SrvReceiveEof, SrvReset, SrvAccept, SrvIterateFails,
       SrvPumpFails, SrvThrow, StdoutGone, ServiceWrites, ServiceShuts,
       ClientGivesUp, vars, pipeVars, stdinVars, streamVars, clientVars,
       serverVars
  <2>2. QED
    BY <1>1, <2>1 DEF Sent, Unsent
<1>5. QED
  BY <1>2, <1>3, <1>4 DEF Next, ServerNext

(* No step loses or reorders bytes to the client's stdout before it fails.  *)
LEMMA BackStep ==
  ASSUME TypeOK, Back, [Next]_vars
  PROVE  Back'
<1> DEFINE Read == stdout \o received
           All == (stdout \o received) \o down
<1>t. /\ stdout \in Seq(Byte) /\ received \in Seq(Byte) /\ down \in Seq(Byte)
      /\ Read \in Seq(Byte)
  BY QueueTypes, Joined
<1>0. client # "exit 1" => Numbered(Read)
  <2>1. client # "exit 1" => Numbered(Read \o down)
    BY DEF Back
  <2> HIDE DEF Read
  <2>2. QED
    BY <1>t, <2>1, NumberedFront
<1>1. CASE /\ UNCHANGED <<stdout, received, down>>
           /\ client' # "exit 1" => client # "exit 1"
  BY <1>1 DEF Back, Numbered
<1>2. CASE ClientNext
  <2>1. CASE UserNext \/ StdinNext \/ ReceiveEof \/ Connect \/ DrainOver
    <3>1. /\ UNCHANGED <<stdout, received, down>>
          /\ client' # "exit 1" => client # "exit 1"
      BY <2>1 DEF UserNext, StdinNext, Type, EndStdin, ReaderGone, ReadStdin,
         StdinFails, StdinDone, ReceiveEof, Connect, DrainOver, streamVars,
         clientVars
    <3>2. QED
      BY <1>1, <3>1
  <2>2. CASE Receive
    <3>1. /\ down # <<>> /\ down' = Tail(down) /\ client # "exit 1"
          /\ received' = Append(received, Head(down)) /\ UNCHANGED stdout
      BY <2>2 DEF Receive, clientVars
    <3>2. /\ Append(received, Head(down)) \in Seq(Byte)
          /\ Tail(down) \in Seq(Byte)
          /\ Append(received, Head(down)) \o Tail(down) = received \o down
      <4>1. down # <<>>
        BY <3>1
      <4>2. QED
        BY <4>1, <1>t, HeadMoved
    <3>3. PICK o \in Seq(Byte), r \in Seq(Byte), d \in Seq(Byte) :
            o = stdout /\ r = received /\ d = down
      BY <1>t
    <3>4. PICK a \in Seq(Byte), e \in Seq(Byte) :
            a = Append(received, Head(down)) /\ e = Tail(down)
      BY <3>2
    <3>5. /\ (o ++ a) ++ e = o ++ (a ++ e)
          /\ (o ++ r) ++ d = o ++ (r ++ d)
      BY BytesInOrder
    <3>6. /\ (o \o a) \o e = o \o (a \o e)
          /\ (o \o r) \o d = o \o (r \o d)
      BY <3>5 DEF ++
    <3>7. a \o e = r \o d
      BY <3>2, <3>3, <3>4
    <3>8. UNCHANGED All
      BY <3>1, <3>3, <3>4, <3>5, <3>6, <3>7
    <3>9. QED
      BY <3>1, <3>8 DEF Back, Numbered
  <2>3. CASE Iterate
    <3>1. /\ stdout' = Read /\ received' = <<>> /\ UNCHANGED down
          /\ client # "exit 1"
      BY <2>3 DEF Iterate
    <3>2. Read \o <<>> = Read
      BY <1>t, NoneQueued
    <3>3. All' = All
      BY <3>1, <3>2
    <3>4. QED
      BY <1>0, <3>1, <3>3 DEF Back, Numbered
  <2>4. CASE IterateFails \/ PumpFails
    <3>1. stdout' \in {stdout, Read} /\ client' = "exit 1"
      BY <2>4 DEF IterateFails, PumpFails, Throw
    <3>2. stdout' = stdout \/ client # "exit 1"
      BY <2>4 DEF IterateFails, PumpFails
    <3>3. QED
      BY <1>0, <3>1, <3>2 DEF Back, Numbered
  <2>5. QED
    BY <1>2, <2>1, <2>2, <2>3, <2>4 DEF ClientNext, LoopNext
<1>3. CASE \/ ServerNext \/ StdoutGone \/ ServiceReads
           \/ ServiceShuts \/ ClientGivesUp
           \/ UNCHANGED vars
  <2>1. UNCHANGED <<stdout, received, down, client>>
    BY <1>3 DEF ServerNext, SrvReceive, SrvReceiveEof, SrvReset, SrvAccept,
       SrvIterate, SrvIterateFails, SrvPumpFails, SrvThrow, StdoutGone,
       ServiceReads, ServiceShuts, ClientGivesUp, pipeVars, vars, streamVars,
       clientVars
  <2>2. QED
    BY <1>1, <2>1
<1>4. CASE ServiceWrites
  <2>1. /\ down' = Append(down, Len(All) + 1)
        /\ UNCHANGED <<stdout, received, client>>
    BY <1>4 DEF ServiceWrites, clientVars
  <2>2. PICK e \in Byte : e = Len(All) + 1
    BY <1>t, Joined DEF Byte
  <2>3. Read \o Append(down, e) = Append(Read \o down, e)
    <3> HIDE DEF Read
    <3>1. QED
      BY <1>t, LastAppended
  <2>4. All' = Append(All, e)
    BY <2>1, <2>2, <2>3
  <2>5. client # "exit 1" => Numbered(Append(All, e))
    <3>1. All \in Seq(Byte)
      BY <1>t, Joined
    <3>2. e \in Nat
      BY DEF Byte
    <3>3. client # "exit 1" => Numbered(All)
      BY DEF Back
    <3> HIDE DEF All
    <3>4. QED
      BY <2>2, <3>1, <3>2, <3>3, NumberedOn
  <2>6. QED
    BY <2>1, <2>4, <2>5 DEF Back, Numbered
<1>5. QED
  BY <1>2, <1>3, <1>4 DEF Next, ServerNext

(* The invariant is inductive.                                              *)
LEMMA InvStep == TypeOK /\ TypeOK' /\ Inv /\ [Next]_vars => Inv'
<1> SUFFICES ASSUME TypeOK, TypeOK', Inv, [Next]_vars PROVE Inv'
  OBVIOUS
<1>1. Bytes /\ Input /\ Ends /\ Outcome /\ Back
  BY DEF Inv
<1>2. EndsUp' /\ EndsServer'
  BY <1>1, EndsUpStep, EndsServerStep
<1>3. Ends'
  BY <1>2 DEF Ends
<1>4. QED
  BY <1>1, <1>3, InputStep, OutcomeStep, BytesStep, BackStep DEF Inv

(* So both invariants always hold.                                          *)
LEMMA Invariants == Spec => []TypeOK /\ []Inv
BY TypeCorrect, InitInv, InvStep, PTL DEF Spec

(* The bytes in order are that sequence.                                    *)
LEMMA IsNumbered ==
  ASSUME NEW s \in Seq(Byte), Numbered(s)
  PROVE  s = [i \in 1..Len(s) |-> i]
BY DEF Numbered

(* The property follows from the invariant.                                 *)
LEMMA InvGives == TypeOK /\ Inv => SuccessIsComplete
<1> SUFFICES ASSUME TypeOK, Inv PROVE SuccessIsComplete
  OBVIOUS
<1>1. Bytes /\ Input /\ Ends /\ Outcome /\ Back
  BY DEF Inv
<1>2. Numbered(srvStdout) /\ Len(srvStdout) <= typed
  <2>1. PICK q \in Seq(Byte) : q = srvStdout \o srvReceived
    BY QueueTypes
  <2>t. /\ up \in Seq(Byte) /\ srvStdout \in Seq(Byte) /\ typed \in Nat
        /\ srvReceived \in Seq(Byte) /\ Sent \in Seq(Byte)
    BY QueueTypes
  <2>2. Numbered(q \o up) /\ q \o up = Sent
    BY <1>1, <2>1 DEF Bytes, Sent
  <2>3. Numbered(q) /\ Len(q) <= Len(Sent)
    BY <2>t, <2>2, NumberedFront
  <2>4. Numbered(srvStdout \o srvReceived)
    BY <2>1, <2>3 DEF Numbered
  <2>5. Numbered(srvStdout) /\ Len(srvStdout) <= Len(srvStdout \o srvReceived)
    BY <2>t, <2>4, NumberedFront
  <2>6. Len(srvStdout) <= Len(q) /\ Len(Sent) <= typed
    BY <1>1, <2>1, <2>5 DEF Bytes
  <2>7. /\ Len(srvStdout) \in Nat /\ Len(q) \in Nat /\ Len(Sent) \in Nat
    BY <2>t
  <2>8. QED
    BY <2>t, <2>3, <2>5, <2>6, <2>7
<1>3. srvStdout = [i \in 1..Len(srvStdout) |-> i]
  <2>1. srvStdout \in Seq(Byte)
    BY QueueTypes
  <2>2. QED
    BY <1>2, <2>1, IsNumbered
<1>4. stdout = [i \in 1..Len(stdout) |-> i]
  <2>1. stdout \in Seq(Byte) /\ Numbered(stdout)
    BY <1>1, QueueTypes DEF Back
  <2>2. QED
    BY <2>1, IsNumbered
<1>5. client \in {"draining", "exit 0"} => received = <<>> /\ down = <<>>
  BY <1>1 DEF Outcome
<1>n. srvReceived = <<>> =>
        Len(srvStdout) + Len(srvReceived) = Len(srvStdout)
  <2>1. srvStdout \in Seq(Byte)
    BY QueueTypes
  <2>2. Len(srvStdout) \in Nat
    BY <2>1
  <2>3. QED
    BY <2>2, EmptySeq
<1>6. server = "exit 0" \/ (client = "exit 0" /\ server # "service") =>
        stdinEnd = "eof" /\ Len(srvStdout) = typed
  <2> SUFFICES ASSUME server = "exit 0"
                        \/ (client = "exit 0" /\ server # "service")
               PROVE  stdinEnd = "eof" /\ Len(srvStdout) = typed
    OBVIOUS
  <2>1. server = "exit 0"
    BY <1>1 DEF Outcome
  <2>2. srvEof /\ srvReceived = <<>>
    BY <1>1, <2>1 DEF Ends, EndsUp, EndsServer
  <2>3. writeShutdown /\ Len(srvStdout) + Len(srvReceived) = typed
    BY <1>1, <2>2 DEF Ends, EndsUp, EndsServer
  <2>4. stdinEnd = "eof"
    BY <1>1, <2>3 DEF Ends, EndsUp, EndsServer, Input
  <2>5. srvReceived = <<>> /\ Len(srvStdout) + Len(srvReceived) = typed
    BY <2>2, <2>3
  <2>6. QED
    BY <1>n, <2>4, <2>5
<1>7. QED
  BY <1>2, <1>3, <1>4, <1>5, <1>6 DEF SuccessIsComplete

(* README.md, 'Binary-safe stdin/stdout transport': what the server has     *)
(* written is a first part of the client's stdin at any time, and all of it *)
(* once either process reports success; a client that reports success has   *)
(* written all that a service sent before it shut down.                     *)
THEOREM SuccessIsCompleteHolds == Spec => []SuccessIsComplete
BY Invariants, InvGives, PTL

(* The server exits with success only in a pass that finds the end of the   *)
(* stream, and only the client's loop sends one.                            *)
LEMMA NotAfterFailure ==
  ASSUME TypeOK, Inv, [Next]_vars, server # "exit 0", server' = "exit 0"
  PROVE  writeShutdown /\ ~inputError
<1>1. Ends
  BY DEF Inv
<1>2. SrvIterate
  <2>1. CASE \/ SrvReceive \/ SrvReceiveEof \/ SrvReset \/ StdoutGone
             \/ ServiceReads \/ UNCHANGED vars
    BY <2>1 DEF SrvReceive, SrvReceiveEof, SrvReset, StdoutGone, ServiceReads,
       vars, serverVars
  <2>2. CASE SrvAccept \/ SrvIterateFails \/ SrvPumpFails
    BY <2>2 DEF SrvAccept, SrvIterateFails, SrvPumpFails, SrvThrow
  <2>3. CASE UNCHANGED serverVars
    BY <2>3 DEF serverVars
  <2>4. CASE ServiceWrites \/ ServiceShuts \/ ClientGivesUp
    BY <2>3, <2>4 DEF ServiceWrites, ServiceShuts, ClientGivesUp
  <2>5. QED
    BY <2>1, <2>2, <2>3, <2>4 DEF Next, ServerNext
<1>3. srvEof
  BY <1>2 DEF SrvIterate
<1>4. QED
  BY <1>1, <1>3 DEF Ends, EndsUp, EndsServer

(* The server of run_default_server() reports success only after the client *)
(* itself has shut down its write side behind a stdin that was read to its  *)
(* end without an error; no failure of the client looks like that.          *)
THEOREM NoFalseSuccessHolds == Spec => NoFalseSuccess
<1>1. TypeOK /\ Inv /\ [Next]_vars =>
        [server # "exit 0" /\ server' = "exit 0" =>
           writeShutdown /\ ~inputError]_vars
  BY NotAfterFailure
<1>2. QED
  BY <1>1, Invariants, PTL DEF Spec, NoFalseSuccess
=============================================================================
