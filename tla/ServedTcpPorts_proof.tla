------------------------ MODULE ServedTcpPorts_proof ------------------------
(***************************************************************************)
(* Proofs about ServedTcpPorts, for any number of bytes, any buffers and    *)
(* with or without SIGPIPE: type correctness, and that each direction of a  *)
(* proxied connection implements BytePipe.  The lemmas are about the steps  *)
(* that all three proxies take, so that DialledRelay_proof can cite them.   *)
(***************************************************************************)
EXTENDS ServedTcpPorts, StreamLemmas

(* What all proxies do: everything but how a connection begins, and how the *)
(* program ends.                                                            *)
Relay == PeerNext \/ StreamNext \/ ReaderNext \/ HostNext \/ ServiceNext

(* Any number of first bytes leaving a stage.                               *)
LEMMA SeqSplit ==
  ASSUME NEW s \in Seq(Nat), NEW n \in 0..Len(s)
  PROVE  /\ Front(s, n) \in Seq(Nat) /\ Len(Front(s, n)) = n
         /\ Rest(s, n) \in Seq(Nat) /\ Len(Rest(s, n)) = Len(s) - n
         /\ \A i \in 1..n : Front(s, n)[i] = s[i]
         /\ \A i \in 1..(Len(s) - n) : Rest(s, n)[i] = s[n + i]
  <1>1. /\ \A i \in 1..n : s[i] \in Nat
        /\ \A i \in (n + 1)..Len(s) : s[i] \in Nat
        /\ n \in Int /\ Len(s) \in Int
    BY LenProperties
  <1>2. /\ Front(s, n) \in Seq(Nat) /\ Len(Front(s, n)) = n
        /\ \A i \in 1..n : Front(s, n)[i] = s[i]
    BY <1>1, SubSeqProperties DEF Front
  <1>3. /\ Rest(s, n) \in Seq(Nat) /\ Len(Rest(s, n)) = Len(s) - n
        /\ \A i \in 1..(Len(s) - n) : Rest(s, n)[i] = s[n + i]
    BY <1>1, SubSeqProperties DEF Rest
  <1>4. QED
    BY <1>2, <1>3

(* A run is cut into two runs anywhere.                                     *)
LEMMA RunSplit ==
  ASSUME NEW s \in Seq(Nat), NEW n \in 0..Len(s), NEW k \in Nat, Run(s, k)
  PROVE  Run(Front(s, n), k) /\ Run(Rest(s, n), k + n)
  <1>1. \A i \in 1..Len(Front(s, n)) : Front(s, n)[i] = k + i
    BY SeqSplit DEF Run
  <1>2. \A i \in 1..(Len(s) - n) : n + i \in 1..Len(s)
    OBVIOUS
  <1>3. \A i \in 1..Len(Rest(s, n)) : Rest(s, n)[i] = (k + n) + i
    <2>1. Len(Rest(s, n)) = Len(s) - n
      BY SeqSplit
    <2>2. \A i \in 1..(Len(s) - n) : Rest(s, n)[i] = s[n + i]
      BY SeqSplit
    <2>3. QED
      BY <1>2, <2>1, <2>2 DEF Run
  <1>4. QED
    BY <1>1, <1>3 DEF Run

(***************************************************************************)
(* Type correctness.                                                        *)
(***************************************************************************)

(* What tcp_write accepts is part of the data and fits the send buffer.     *)
LEMMA AcceptedRange ==
  ASSUME NEW data \in Seq(Nat), downWire \in Seq(Nat),
         Len(downWire) <= SendBuffer
  PROVE  /\ Accepted(data) \in 0..Len(data)
         /\ Len(downWire) + Accepted(data) <= SendBuffer
  BY BufferAssumption DEF Accepted, Smaller

(* What Take offers the tunnel when n bytes leave chunks.                   *)
TakeData(n) == IF pending = <<>> THEN Front(chunks, n) ELSE pending

(* Types and lengths of what Take leaves behind.                            *)
LEMMA TakeTypes ==
  ASSUME TypeOK, NEW n \in 0..Len(chunks)
  PROVE  /\ TakeData(n) \in Seq(Nat)
         /\ Accepted(TakeData(n)) \in 0..Len(TakeData(n))
         /\ Len(downWire) + Accepted(TakeData(n)) <= SendBuffer
         /\ Len(downWire \o Front(TakeData(n), Accepted(TakeData(n))))
              = Len(downWire) + Accepted(TakeData(n))
         /\ downWire \o Front(TakeData(n), Accepted(TakeData(n))) \in Seq(Nat)
         /\ Rest(TakeData(n), Accepted(TakeData(n))) \in Seq(Nat)
         /\ Rest(chunks, n) \in Seq(Nat)
  <1>1. Rest(chunks, n) \in Seq(Nat) /\ TakeData(n) \in Seq(Nat)
    BY SeqSplit DEF TypeOK, TakeData
  <1>2. /\ Accepted(TakeData(n)) \in 0..Len(TakeData(n))
        /\ Len(downWire) + Accepted(TakeData(n)) <= SendBuffer
    BY <1>1, AcceptedRange DEF TypeOK
  <1>3. /\ Front(TakeData(n), Accepted(TakeData(n))) \in Seq(Nat)
        /\ Len(Front(TakeData(n), Accepted(TakeData(n))))
             = Accepted(TakeData(n))
        /\ Rest(TakeData(n), Accepted(TakeData(n))) \in Seq(Nat)
    BY <1>1, <1>2, SeqSplit
  <1>4. downWire \in Seq(Nat)
    BY DEF TypeOK
  <1>5. /\ downWire \o Front(TakeData(n), Accepted(TakeData(n))) \in Seq(Nat)
        /\ Len(downWire \o Front(TakeData(n), Accepted(TakeData(n))))
             = Len(downWire) + Accepted(TakeData(n))
    BY <1>3, <1>4, SeqConcat
  <1>6. QED
    BY <1>1, <1>2, <1>3, <1>5

(* A connection starts with the right types.                                *)
LEMMA InitType == Init => TypeOK
<1> SUFFICES ASSUME Init PROVE TypeOK
  OBVIOUS
<1>1. Len(downWire) <= SendBuffer /\ Len(toHost) <= SocketBuffer
  BY BufferAssumption, NoBytes DEF Init
<1>2. /\ peerSent \in 0..MaxUp /\ hostSent \in 0..MaxDown
      /\ peerEnd \in Ends /\ hostEnd \in Ends
  BY BoundsAssumption DEF Init, Ends
<1>3. QED
  BY <1>1, <1>2, NoBytes DEF Init, TypeOK

(* Every step keeps them.                                                   *)
LEMMA TypeInductive ==
  ASSUME TypeOK, [Relay]_vars
  PROVE  TypeOK'
<1> USE BoundsAssumption, BufferAssumption, NoBytes
    DEF TypeOK, Ends, peerVars, tunnelVars, loopVars, readerVars, socketVars,
        hostVars
<1>1. CASE PeerSend
  BY <1>1, SeqAppend DEF PeerSend
<1>2. CASE PeerShut
  BY <1>2 DEF PeerShut
<1>3. CASE PeerRead
  BY <1>3, SeqAppend, SeqHeadTail DEF PeerRead
<1>4. CASE PeerReadEof
  BY <1>4 DEF PeerReadEof
<1>5. CASE PeerAbort
  BY <1>5 DEF PeerAbort
<1>6. CASE PeerGivesUp
  BY <1>6 DEF PeerGivesUp
<1>7. CASE StreamRecv
  BY <1>7, SeqAppend, SeqHeadTail DEF StreamRecv
<1>8. CASE StreamRecvEof
  BY <1>8 DEF StreamRecvEof
<1>9. CASE StreamError
  BY <1>9 DEF StreamError
<1>10. CASE ClosedPcbRecv
  BY <1>10 DEF ClosedPcbRecv
<1>11. CASE ReaderCalls
  BY <1>11 DEF ReaderCalls
<1>12. CASE ReaderReceives
  <2>1. PICK n \in 1..Len(fromHost) :
          chunk' = Front(fromHost, n) /\ fromHost' = Rest(fromHost, n)
    BY <1>12 DEF ReaderReceives
  <2>2. chunk' \in Seq(Nat) /\ fromHost' \in Seq(Nat)
    <3>1. fromHost \in Seq(Nat) /\ n \in 0..Len(fromHost)
      OBVIOUS
    <3>2. QED
      BY <2>1, <3>1, SeqSplit
  <2>3. QED
    BY <1>12, <2>2 DEF ReaderReceives
<1>13. CASE ReaderPublishes
  BY <1>13, SeqConcat DEF ReaderPublishes
<1>14. CASE ReaderEof
  BY <1>14 DEF ReaderEof
<1>15. CASE ReaderFails
  BY <1>15 DEF ReaderFails
<1>16. CASE Release
  BY <1>16 DEF Release
<1>17. CASE HostSend
  <2>1. hostSent' \in 0..MaxDown /\ hostEnd' \in Ends
    BY <1>17 DEF HostSend
  <2>2. fromHost' \in Seq(Nat)
    <3>1. hostSent' \in Nat /\ fromHost \in Seq(Nat)
      BY <2>1
    <3>2. Append(fromHost, hostSent') \in Seq(Nat)
      BY <3>1, SeqAppend
    <3>3. fromHost' = fromHost \/ fromHost' = Append(fromHost, hostSent')
      BY <1>17 DEF HostSend
    <3>4. QED
      BY <3>1, <3>2, <3>3
  <2>3. QED
    BY <1>17, <2>1, <2>2 DEF HostSend
<1>18. CASE HostShut
  BY <1>18 DEF HostShut
<1>19. CASE HostRead
  BY <1>19, SeqAppend, SeqHeadTail DEF HostRead
<1>20. CASE HostReadEof
  BY <1>20 DEF HostReadEof
<1>21. CASE HostAbort
  BY <1>21 DEF HostAbort
<1>24. CASE ServiceFailed
  BY <1>24 DEF ServiceFailed, CloseBoth
<1>25. CASE ServiceRead
  BY <1>25 DEF ServiceRead
<1>26. CASE HostWrite
  BY <1>26, SeqAppend, SeqHeadTail DEF HostWrite
<1>27. CASE HostWriteFails
  BY <1>27 DEF HostWriteFails, CloseBoth
<1>28. CASE HostWriteKills
  <2>1. downWire' \in Seq(Nat) /\ Len(downWire') <= SendBuffer
    BY <1>28 DEF HostWriteKills
  <2>2. /\ pc' = "killed" /\ pcb' = "gone" /\ downFin' = FALSE
        /\ socket' = "released" /\ reader' = "done"
    BY <1>28 DEF HostWriteKills
  <2>3. /\ peerSent' \in 0..MaxUp /\ peerFin' \in BOOLEAN
        /\ peerGot' \in Seq(Nat) /\ peerEnd' \in Ends
        /\ upWire' \in Seq(Nat) /\ received' \in Seq(Nat)
        /\ tunnelEof' \in BOOLEAN /\ tunnelFailed' \in BOOLEAN
        /\ writing' \in Seq(Nat) /\ pending' \in Seq(Nat)
        /\ tunnelShut' \in BOOLEAN /\ hostShut' \in BOOLEAN
    BY <1>28 DEF HostWriteKills
  <2>4. /\ chunk' \in Seq(Nat) /\ chunks' \in Seq(Nat)
        /\ hostEof' \in BOOLEAN /\ hostError' \in BOOLEAN
        /\ fromHost' \in Seq(Nat) /\ toHost' \in Seq(Nat)
        /\ Len(toHost') <= SocketBuffer
        /\ hostSent' \in 0..MaxDown /\ hostFin' \in BOOLEAN
        /\ hostGot' \in Seq(Nat) /\ hostEnd' \in Ends
    BY <1>28 DEF HostWriteKills
  <2>5. QED
    BY <2>1, <2>2, <2>3, <2>4
<1>29. CASE TakeFails
  BY <1>29 DEF TakeFails, CloseBoth
<1>30. CASE Take
  <2>1. PICK n \in 0..Len(chunks) :
          /\ chunks' = Rest(chunks, n)
          /\ downWire' = downWire
                          \o Front(TakeData(n), Accepted(TakeData(n)))
          /\ pending' = Rest(TakeData(n), Accepted(TakeData(n)))
          /\ tunnelShut' \in BOOLEAN /\ downFin' \in BOOLEAN
    BY <1>30 DEF Take, TakeData
  <2>2. /\ chunks' \in Seq(Nat) /\ pending' \in Seq(Nat)
        /\ downWire' \in Seq(Nat) /\ Len(downWire') <= SendBuffer
    BY <2>1, TakeTypes
  <2>3. QED
    BY <1>30, <2>1, <2>2 DEF Take
<1>31. CASE CheckFails
  BY <1>31 DEF CheckFails, CloseBoth
<1>32. CASE Check
  <2>1. CASE Drained
    BY <1>32, <2>1, SMTT(20) DEF Check, CloseBoth
  <2>2. CASE ~Drained
    BY <1>32, <2>2 DEF Check
  <2>3. QED
    BY <2>1, <2>2
<1>33. CASE UNCHANGED vars
  BY <1>33 DEF vars
<1>34. QED
  BY <1>1, <1>2, <1>3, <1>4, <1>5, <1>6, <1>7, <1>8, <1>9, <1>10, <1>11,
     <1>12, <1>13, <1>14, <1>15, <1>16, <1>17, <1>18, <1>19, <1>20, <1>21,
     <1>24, <1>25, <1>26, <1>27, <1>28, <1>29, <1>30, <1>31,
     <1>32, <1>33
  DEF Relay, PeerNext, StreamNext, ReaderNext, HostNext, ServiceNext

(***************************************************************************)
(* The inductive invariant.                                                 *)
(***************************************************************************)

(* Where the event loop is, and what that says of the two ends.             *)
LoopState ==
  /\ pc = "new" => reader = "none"
  /\ pc \in {"idle", "write", "check"} => socket = "open"
  /\ pcb = "closed" => pc = "done"
  /\ pc = "killed" => pcb = "gone" /\ reader \in {"none", "done"}
  /\ writing # <<>> => pc \in {"write", "done", "killed"}
  /\ pc \in {"write", "check"} => received = <<>>

(* What is known of the upward stream once its end has been seen.           *)
UpEnd ==
  /\ tunnelEof => peerFin /\ upWire = <<>>
  /\ tunnelFailed => peerEnd = "aborted"
  /\ hostShut => tunnelEof /\ writing = <<>> /\ received = <<>>

(* What is known of the downward stream once its end has been seen.         *)
DownEnd ==
  /\ reader \in {"none", "next", "recv"} => chunk = <<>>
  /\ hostEof => reader = "done"
  /\ socket = "released" => reader # "recv"
  /\ hostEof /\ ~hostError => hostFin /\ fromHost = <<>> /\ chunk = <<>>
  /\ hostError => hostEof /\ (hostEnd = "aborted" \/ pc \in {"done", "killed"})
  /\ tunnelShut => /\ hostEof /\ chunks = <<>> /\ pending = <<>>
                   /\ hostError => hostEnd = "aborted"
  /\ downFin => tunnelShut \/ pc \in {"done", "killed"}

(* Why a connection is finished.                                            *)
Finished ==
  pc = "done" =>
    \/ peerEnd = "aborted" \/ hostEnd = "aborted"
    \/ /\ tunnelEof /\ hostShut /\ hostEof /\ ~hostError
       /\ chunks = <<>> /\ pending = <<>>

Control == LoopState /\ UpEnd /\ DownEnd /\ Finished

(* Every step keeps the four parts.                                         *)
LEMMA ControlInductive ==
  ASSUME TypeOK, Control, [Relay]_vars
  PROVE  Control'
<1> USE DEF TypeOK, Control, LoopState, UpEnd, DownEnd, Finished, peerVars,
            tunnelVars, loopVars, readerVars, socketVars, hostVars
<1>1. CASE PeerSend
  BY <1>1 DEF PeerSend
<1>2. CASE PeerShut
  BY <1>2 DEF PeerShut
<1>3. CASE PeerRead
  BY <1>3 DEF PeerRead
<1>4. CASE PeerReadEof
  BY <1>4 DEF PeerReadEof
<1>5. CASE PeerAbort
  BY <1>5 DEF PeerAbort
<1>6. CASE PeerGivesUp
  BY <1>6 DEF PeerGivesUp
<1>7. CASE StreamRecv
  BY <1>7 DEF StreamRecv, Pumping
<1>8. CASE StreamRecvEof
  BY <1>8 DEF StreamRecvEof, Pumping
<1>9. CASE StreamError
  BY <1>9 DEF StreamError, Pumping
<1>10. CASE ClosedPcbRecv
  BY <1>10 DEF ClosedPcbRecv, Pumping
<1>11. CASE ReaderCalls
  BY <1>11 DEF ReaderCalls
<1>12. CASE ReaderReceives
  BY <1>12 DEF ReaderReceives
<1>13. CASE ReaderPublishes
  BY <1>13 DEF ReaderPublishes
<1>14. CASE ReaderEof
  BY <1>14 DEF ReaderEof
<1>15. CASE ReaderFails
  BY <1>15 DEF ReaderFails
<1>16. CASE Release
  <2>1. LoopState' /\ UpEnd'
    BY <1>16 DEF Release
  <2>2. DownEnd' /\ Finished'
    BY <1>16 DEF Release
  <2>3. QED
    BY <2>1, <2>2
<1>17. CASE HostSend
  <2>1. /\ UNCHANGED <<peerVars, tunnelVars, loopVars, readerVars, socket,
                       toHost, hostFin, hostGot>>
        /\ ~hostFin /\ hostEnd # "aborted"
    BY <1>17 DEF HostSend
  <2>2. LoopState' /\ UpEnd'
    BY <2>1
  <2>3. DownEnd' /\ Finished'
    BY <2>1
  <2>4. QED
    BY <2>2, <2>3
<1>18. CASE HostShut
  BY <1>18 DEF HostShut
<1>19. CASE HostRead
  BY <1>19 DEF HostRead
<1>20. CASE HostReadEof
  BY <1>20 DEF HostReadEof
<1>21. CASE HostAbort
  BY <1>21 DEF HostAbort
<1>24. CASE ServiceFailed
  BY <1>24 DEF ServiceFailed, CloseBoth
<1>25. CASE ServiceRead
  BY <1>25 DEF ServiceRead
<1>26. CASE HostWrite
  BY <1>26 DEF HostWrite
<1>27. CASE HostWriteFails
  BY <1>27 DEF HostWriteFails, CloseBoth
<1>28. CASE HostWriteKills
  BY <1>28 DEF HostWriteKills
<1>29. CASE TakeFails
  BY <1>29 DEF TakeFails, CloseBoth
<1>30. CASE Take
  <2>1. PICK n \in 0..Len(chunks) :
          /\ n = 0 <=> pending # <<>> \/ chunks = <<>>
          /\ chunks' = Rest(chunks, n)
          /\ pending' = Rest(TakeData(n), Accepted(TakeData(n)))
          /\ tunnelShut' = (tunnelShut \/ (TakeData(n) = <<>> /\ hostEof))
          /\ downFin' =
               (downFin \/ (TakeData(n) = <<>> /\ hostEof /\ pcb = "open"))
    BY <1>30 DEF Take, TakeData
  <2>2. chunks = <<>> /\ pending = <<>> => chunks' = <<>> /\ pending' = <<>>
    <3> SUFFICES ASSUME chunks = <<>>, pending = <<>>
                 PROVE  chunks' = <<>> /\ pending' = <<>>
      OBVIOUS
    <3>1. n = 0 /\ TakeData(n) \in Seq(Nat)
      BY <2>1, TakeTypes
    <3>2. Len(chunks') = 0 /\ chunks' \in Seq(Nat)
      <4>1. chunks \in Seq(Nat) /\ Len(chunks) = 0
        BY NoBytes
      <4>2. Rest(chunks, n) \in Seq(Nat) /\ Len(Rest(chunks, n)) = 0 - n
        BY <4>1, SeqSplit
      <4>3. QED
        BY <2>1, <3>1, <4>2
    <3>3. TakeData(n) = <<>>
      <4>1. Len(Front(chunks, n)) = 0 /\ Front(chunks, n) \in Seq(Nat)
        BY <3>1, SeqSplit
      <4>2. QED
        BY <4>1, EmptySeq DEF TakeData
    <3>4. /\ Accepted(TakeData(n)) = 0
          /\ Len(pending') = 0 /\ pending' \in Seq(Nat)
      BY <2>1, <3>1, <3>3, TakeTypes, SeqSplit, NoBytes, SMTT(20)
    <3>5. QED
      BY <3>2, <3>4, EmptySeq
  <2>3. TakeData(n) = <<>> => chunks = <<>> /\ pending = <<>>
    <3> SUFFICES ASSUME TakeData(n) = <<>> PROVE chunks = <<>> /\ pending = <<>>
      OBVIOUS
    <3>1. pending = <<>>
      BY DEF TakeData
    <3>2. n = 0
      BY <3>1, SeqSplit, NoBytes DEF TakeData
    <3>3. QED
      BY <2>1, <3>1, <3>2
  <2>4. /\ hostEof /\ TakeData(n) = <<>> /\ hostError => hostEnd = "aborted"
        /\ pc = "write" /\ pc' = "check" /\ received = <<>> /\ writing = <<>>
    BY <1>30 DEF Take
  <2>5. UNCHANGED <<peerVars, upWire, received, tunnelEof, tunnelFailed, pcb,
                    writing, hostShut, reader, chunk, hostEof, hostError,
                    socketVars, hostVars>>
    BY <1>30 DEF Take
  <2>6. LoopState' /\ UpEnd' /\ Finished'
    BY <2>4, <2>5
  <2>7. DownEnd'
    BY <2>1, <2>2, <2>3, <2>4, <2>5
  <2>8. QED
    BY <2>6, <2>7
<1>31. CASE CheckFails
  BY <1>31 DEF CheckFails, CloseBoth
<1>32. CASE Check
  <2>1. CASE Drained
    BY <1>32, <2>1 DEF Check, CloseBoth, Drained
  <2>2. CASE ~Drained
    BY <1>32, <2>2 DEF Check
  <2>3. QED
    BY <2>1, <2>2
<1>33. CASE UNCHANGED vars
  BY <1>33 DEF vars
<1>34. QED
  BY <1>1, <1>2, <1>3, <1>4, <1>5, <1>6, <1>7, <1>8, <1>9, <1>10, <1>11,
     <1>12, <1>13, <1>14, <1>15, <1>16, <1>17, <1>18, <1>19, <1>20, <1>21,
     <1>24, <1>25, <1>26, <1>27, <1>28, <1>29, <1>30, <1>31,
     <1>32, <1>33
  DEF Relay, PeerNext, StreamNext, ReaderNext, HostNext, ServiceNext

(* Bytes on the way up, stage by stage: the host application has the first  *)
(* Up1, those below Up2 are in the kernel, and so on.                       *)
Up1 == Len(hostGot)
Up2 == Up1 + Len(toHost)
Up3 == Up2 + Len(writing)
Up4 == Up3 + Len(received)
Up5 == Up4 + Len(upWire)

(* They are one run of consecutive bytes, of all that were written unless   *)
(* the connection went down before its end was seen.                        *)
UpOrder ==
  /\ Run(hostGot, 0) /\ Run(toHost, Up1) /\ Run(writing, Up2)
  /\ Run(received, Up3) /\ Run(upWire, Up4)
  /\ Up5 <= peerSent
  /\ pcb # "gone" \/ tunnelEof => Up5 = peerSent

(* What the host application has read, and can still read.                  *)
UpRead == Run(hostGot, 0) /\ Run(toHost, Up1) /\ Up2 <= peerSent

(* Both as long as the host application is reading; but what else is on its *)
(* way does not matter any more once the process is gone, or the peer and   *)
(* the connection.                                                          *)
UpLive == pc # "killed" /\ ~(pc = "done" /\ peerEnd = "aborted")
UpInv == hostEnd = "open" => UpRead /\ (UpLive => UpOrder)

(* The same on the way down.                                                *)
Down1 == Len(peerGot)
Down2 == Down1 + Len(downWire)
Down3 == Down2 + Len(pending)
Down4 == Down3 + Len(chunks)
Down5 == Down4 + Len(chunk)
Down6 == Down5 + Len(fromHost)

DownOrder ==
  /\ Run(peerGot, 0) /\ Run(downWire, Down1) /\ Run(pending, Down2)
  /\ Run(chunks, Down3) /\ Run(chunk, Down4) /\ Run(fromHost, Down5)
  /\ Down6 <= hostSent
  /\ socket # "released" \/ (hostEof /\ ~hostError) => Down6 = hostSent

DownRead == Run(peerGot, 0) /\ Run(downWire, Down1) /\ Down2 <= hostSent

(* As long as the peer is reading, and the process there to send to it.     *)
DownInv == peerEnd = "open" => DownRead /\ (pc # "killed" => DownOrder)

(* Every stage has a length.                                                *)
LEMMA Lengths ==
  ASSUME TypeOK
  PROVE  /\ Len(hostGot) \in Nat /\ Len(toHost) \in Nat /\ Len(writing) \in Nat
         /\ Len(received) \in Nat /\ Len(upWire) \in Nat
         /\ Len(peerGot) \in Nat /\ Len(downWire) \in Nat
         /\ Len(pending) \in Nat /\ Len(chunks) \in Nat /\ Len(chunk) \in Nat
         /\ Len(fromHost) \in Nat
  BY DEF TypeOK

(* And every stage starts at a number.                                      *)
LEMMA Offsets ==
  ASSUME TypeOK
  PROVE  /\ Up1 \in Nat /\ Up2 \in Nat /\ Up3 \in Nat /\ Up4 \in Nat
         /\ Down1 \in Nat /\ Down2 \in Nat /\ Down3 \in Nat /\ Down4 \in Nat
         /\ Down5 \in Nat /\ Up5 \in Nat /\ Down6 \in Nat
<1>1. Up1 \in Nat /\ Up2 \in Nat /\ Up3 \in Nat /\ Up4 \in Nat /\ Up5 \in Nat
  BY Lengths DEF Up1, Up2, Up3, Up4, Up5
<1>2. /\ Down1 \in Nat /\ Down2 \in Nat /\ Down3 \in Nat /\ Down4 \in Nat
      /\ Down5 \in Nat /\ Down6 \in Nat
  BY Lengths DEF Down1, Down2, Down3, Down4, Down5, Down6
<1>3. QED
  BY <1>1, <1>2

upStages == <<hostGot, toHost, writing, received, upWire, peerSent>>

(* A step that leaves what the host application can read alone keeps the    *)
(* invariant, if it leaves what else is on its way alone, or if that does   *)
(* not matter any more.                                                     *)
LEMMA UpKept ==
  ASSUME UpInv, hostEnd' = "open" => hostEnd = "open",
         UNCHANGED <<hostGot, toHost, peerSent>>,
         UpLive' => /\ UpLive /\ UNCHANGED <<writing, received, upWire>>
                    /\ (pcb # "gone" \/ tunnelEof)'
                         => pcb # "gone" \/ tunnelEof
  PROVE  UpInv'
<1> SUFFICES ASSUME hostEnd' = "open" PROVE UpRead' /\ (UpLive' => UpOrder')
  BY DEF UpInv
<1>1. UpRead /\ (UpLive => UpOrder)
  BY DEF UpInv
<1>2. UpRead'
  BY <1>1 DEF UpRead, Up1, Up2, Run
<1>3. ASSUME UpLive' PROVE UpOrder'
  <2>1. UpOrder /\ UNCHANGED <<writing, received, upWire>>
    BY <1>1, <1>3
  <2>2. QED
    BY <1>3, <2>1 DEF UpOrder, Up1, Up2, Up3, Up4, Up5, Run
<1>4. QED
  BY <1>2, <1>3

(* Where all that is on its way is in order, so is what has been read.      *)
LEMMA UpOrderRead ==
  ASSUME TypeOK', UpOrder'
  PROVE  UpRead'
<1>1. PICK a, b, c \in Nat :
        a = Len(writing') /\ b = Len(received') /\ c = Len(upWire')
  BY DEF TypeOK
<1>2. PICK d \in Nat : d = Len(hostGot') + Len(toHost')
  BY DEF TypeOK
<1>3. d + a + b + c <= peerSent' /\ peerSent' \in Nat
  BY <1>1, <1>2, BoundsAssumption
  DEF TypeOK, UpOrder, Up1, Up2, Up3, Up4, Up5
<1>4. d <= peerSent'
  BY <1>3
<1>5. QED
  BY <1>2, <1>4 DEF UpOrder, UpRead, Up1, Up2

(* What the kernel throws away, when nothing can follow it.                 *)
LEMMA UpDropped ==
  ASSUME TypeOK, UpInv, ~UpLive', toHost' = <<>>,
         hostEnd' = "open" => hostEnd = "open", UNCHANGED <<hostGot, peerSent>>
  PROVE  UpInv'
<1> SUFFICES ASSUME hostEnd' = "open" PROVE UpRead'
  BY DEF UpInv
<1>1. UpRead
  BY DEF UpInv
<1>2. Up1 \in Nat /\ Len(toHost) \in Nat /\ peerSent \in Nat
  BY Lengths, Offsets, BoundsAssumption DEF TypeOK
<1>3. Up2' = Up1 + 0 /\ Up2 = Up1 + Len(toHost)
  BY NoBytes DEF Up1, Up2
<1>4. Up2' <= peerSent'
  BY <1>1, <1>2, <1>3 DEF UpRead
<1>5. QED
  BY <1>1, <1>4, RunEmpty DEF UpRead, Run

(* A process that is gone stays gone, and so does a peer.                   *)
LEMMA StaysCut ==
  ASSUME TypeOK, [Relay]_vars
  PROVE  /\ pc = "killed" => pc' = "killed"
         /\ pc = "done" => pc' = "done"
         /\ peerEnd = "aborted" => peerEnd' = "aborted"
         /\ hostEnd = "aborted" => hostEnd' = "aborted"
         /\ hostEnd' = "open" => hostEnd = "open"
         /\ peerEnd' = "open" => peerEnd = "open"
         /\ UpLive' => UpLive
<1> USE DEF peerVars, tunnelVars, loopVars, readerVars, socketVars, hostVars
<1>1. CASE PeerNext
  BY <1>1 DEF PeerNext, PeerSend, PeerShut, PeerRead, PeerReadEof, PeerAbort,
              PeerGivesUp, UpLive
<1>2. CASE StreamNext
  BY <1>2 DEF StreamNext, StreamRecv, StreamRecvEof, StreamError,
              ClosedPcbRecv, UpLive
<1>3. CASE ReaderNext
  BY <1>3 DEF ReaderNext, ReaderCalls, ReaderReceives, ReaderPublishes,
              ReaderEof, ReaderFails, UpLive
<1>4. CASE HostNext
  BY <1>4 DEF HostNext, Release, HostSend, HostShut, HostRead, HostReadEof,
              HostAbort, UpLive
<1>5. CASE ServiceNext
  BY <1>5 DEF ServiceNext, ServiceFailed, ServiceRead, HostWrite,
              HostWriteFails, HostWriteKills, TakeFails, Take, CheckFails,
              Check, CloseBoth, UpLive
<1>6. CASE UNCHANGED vars
  BY <1>6 DEF vars, UpLive
<1>7. QED
  BY <1>1, <1>2, <1>3, <1>4, <1>5, <1>6 DEF Relay

(* What read_available() gives write_all() stays in order.                  *)
LEMMA ReadOrder ==
  ASSUME TypeOK, UpOrder, writing = <<>>,
         writing' = received, received' = <<>>,
         UNCHANGED <<hostGot, toHost, upWire, pcb, tunnelEof, peerSent>>
  PROVE  UpOrder'
<1>1. Up2' = Up2 /\ Up3 = Up2 /\ Up3' = Up4 /\ Up4' = Up4 /\ Up5' = Up5
  BY Lengths, NoBytes DEF Up1, Up2, Up3, Up4, Up5
<1>2. QED
  BY <1>1, RunEmpty DEF UpOrder, Up1, Run

(* A step on the way up moves the first byte of a stage, or all of it, to   *)
(* the next one; every other step leaves the stages alone.                  *)
LEMMA UpInductive ==
  ASSUME TypeOK, Control, UpInv, [Relay]_vars
  PROVE  UpInv'
<1>t. TypeOK'
  BY TypeInductive
<1>s. /\ hostEnd' = "open" => hostEnd = "open"
      /\ UpLive' => UpLive
  BY StaysCut
<1>r. ASSUME hostEnd' = "open", UpLive', UpOrder' PROVE UpInv'
  <2>1. UpRead'
    BY <1>t, <1>r, UpOrderRead
  <2>2. QED
    BY <1>r, <2>1 DEF UpInv
<1> USE DEF peerVars, tunnelVars, loopVars, readerVars, socketVars, hostVars
<1>1. CASE PeerSend
  <2>1. /\ UNCHANGED <<hostGot, toHost, hostEnd, pc>>
        /\ peerSent' = peerSent + 1
    BY <1>1 DEF PeerSend
  <2>2. CASE UpLive'
    <3> SUFFICES ASSUME hostEnd' = "open" PROVE UpInv'
      BY DEF UpInv
    <3>1. UpOrder'
      <4>1. /\ hostEnd = "open" /\ peerSent' = peerSent + 1 /\ ~tunnelEof
            /\ UNCHANGED <<hostGot, toHost, writing, received, pcb, tunnelEof>>
            /\ pc # "killed"
        BY <1>1, <2>2 DEF PeerSend, Control, UpEnd, UpLive
      <4>2. UpOrder
        BY <1>s, <2>2, <4>1 DEF UpInv
      <4>3. CASE pcb = "gone"
        <5>1. upWire' = upWire
          BY <1>1, <4>1, <4>3 DEF PeerSend
        <5>2. Up4' = Up4 /\ Up5' = Up5
          BY <4>1, <5>1 DEF Up1, Up2, Up3, Up4, Up5
        <5>3. Up5 <= peerSent'
          <6>1. Up5 \in Nat
            BY Offsets
          <6>2. peerSent \in Nat
            BY BoundsAssumption DEF TypeOK
          <6>3. QED
            BY <4>1, <4>2, <6>1, <6>2 DEF UpOrder
        <5>4. QED
          BY <4>1, <4>2, <4>3, <5>1, <5>2, <5>3
          DEF UpOrder, Up1, Up2, Up3, Up4, Run
      <4>4. CASE pcb # "gone"
        <5>1. upWire' = Append(upWire, peerSent + 1)
          BY <1>1, <4>1, <4>4 DEF PeerSend
        <5>2. /\ upWire \in Seq(Nat) /\ Up4 \in Nat /\ peerSent \in Nat
              /\ peerSent + 1 = Up4 + Len(upWire) + 1 /\ Run(upWire, Up4)
          <6>1. upWire \in Seq(Nat) /\ peerSent \in Nat /\ Len(upWire) \in Nat
            BY Lengths, BoundsAssumption DEF TypeOK
          <6>2. Up4 \in Nat /\ Up5 = peerSent /\ Up5 = Up4 + Len(upWire)
            BY <4>2, <4>4, Offsets DEF UpOrder, Up5
          <6>3. QED
            BY <4>2, <6>1, <6>2 DEF UpOrder
        <5>3. Run(upWire', Up4) /\ Len(upWire') = Len(upWire) + 1
          BY <5>1, <5>2, RunAppend, SeqAppend
        <5>4. Up4' = Up4 /\ Up5' = peerSent'
          BY <4>1, <5>2, <5>3 DEF Up1, Up2, Up3, Up4, Up5
        <5>5. QED
          BY <4>1, <4>2, <5>3, <5>4 DEF UpOrder, Up1, Up2, Up3, Up4, Run
      <4>5. QED
        BY <4>3, <4>4
    <3>2. QED
      BY <1>r, <2>2, <3>1
  <2>3. CASE ~UpLive'
    <3> SUFFICES ASSUME hostEnd' = "open" PROVE UpRead'
      BY <2>3 DEF UpInv
    <3>1. UpRead
      BY <2>1 DEF UpInv
    <3>2. Up2 \in Nat /\ peerSent \in Nat
      BY Offsets, BoundsAssumption DEF TypeOK
    <3>3. Up2 <= peerSent'
      BY <2>1, <3>1, <3>2 DEF UpRead
    <3>4. QED
      BY <2>1, <3>1, <3>3 DEF UpRead, Up1, Up2, Run
  <2>4. QED
    BY <2>2, <2>3
<1>2. CASE StreamRecv
  <2>0. CASE ~UpLive'
    BY <1>2, <1>s, <2>0, UpKept DEF StreamRecv
  <2> SUFFICES ASSUME hostEnd' = "open", UpLive' PROVE UpOrder'
    BY <1>r, <2>0 DEF UpInv
  <2>1. /\ hostEnd = "open" /\ upWire # <<>>
        /\ received' = Append(received, Head(upWire)) /\ upWire' = Tail(upWire)
        /\ UNCHANGED <<hostGot, toHost, writing, pcb, tunnelEof, peerSent>>
    BY <1>2 DEF StreamRecv
  <2>2. UpOrder
    BY <1>s, <2>1 DEF UpInv
  <2>3. /\ upWire \in Seq(Nat) /\ received \in Seq(Nat)
        /\ Up3 \in Nat /\ Up4 \in Nat /\ Len(upWire) \in Nat
        /\ Len(received) \in Nat
    BY Lengths, Offsets DEF TypeOK
  <2>4. /\ Head(upWire) = Up3 + Len(received) + 1 /\ Run(upWire', Up4 + 1)
        /\ Len(upWire') = Len(upWire) - 1
    BY <2>1, <2>2, <2>3, RunHeadTail, SeqHeadTail DEF UpOrder, Up4
  <2>5. Run(received', Up3) /\ Len(received') = Len(received) + 1
    BY <2>1, <2>2, <2>3, <2>4, RunAppend, SeqAppend, SeqHeadTail DEF UpOrder
  <2>6. Up3' = Up3 /\ Up4' = Up4 + 1 /\ Up5' = Up5
    BY <2>1, <2>3, <2>4, <2>5 DEF Up1, Up2, Up3, Up4, Up5
  <2>7. QED
    BY <2>1, <2>2, <2>4, <2>5, <2>6 DEF UpOrder, Up1, Up2, Up3, Run
<1>3. CASE HostWrite
  <2>1. /\ writing # <<>> /\ pc # "killed" /\ pc # "done" /\ UNCHANGED pc
        /\ toHost' = Append(toHost, Head(writing)) /\ writing' = Tail(writing)
        /\ UNCHANGED <<hostGot, received, upWire, pcb, tunnelEof, peerSent,
                       hostEnd>>
    BY <1>3 DEF HostWrite
  <2> SUFFICES ASSUME hostEnd' = "open" PROVE UpOrder'
    BY <1>r, <2>1 DEF UpInv, UpLive
  <2>2. UpOrder
    BY <2>1 DEF UpInv, UpLive
  <2>3. /\ writing \in Seq(Nat) /\ toHost \in Seq(Nat)
        /\ Up1 \in Nat /\ Up2 \in Nat /\ Len(writing) \in Nat
        /\ Len(toHost) \in Nat
    BY Lengths, Offsets DEF TypeOK
  <2>4. /\ Head(writing) = Up1 + Len(toHost) + 1 /\ Run(writing', Up2 + 1)
        /\ Len(writing') = Len(writing) - 1
    BY <2>1, <2>2, <2>3, RunHeadTail, SeqHeadTail DEF UpOrder, Up2
  <2>5. Run(toHost', Up1) /\ Len(toHost') = Len(toHost) + 1
    BY <2>1, <2>2, <2>3, <2>4, RunAppend, SeqAppend, SeqHeadTail DEF UpOrder
  <2>6. Up1' = Up1 /\ Up2' = Up2 + 1 /\ Up3' = Up3
    BY <2>1, <2>3, <2>4, <2>5 DEF Up1, Up2, Up3
  <2>7. Up4' = Up4 /\ Up5' = Up5
    BY <2>1, <2>6 DEF Up4, Up5
  <2>8. QED
    BY <2>1, <2>2, <2>4, <2>5, <2>6, <2>7 DEF UpOrder, Up1, Run
<1>4. CASE HostRead
  <2>1. /\ hostEnd = "open" /\ toHost # <<>>
        /\ hostGot' = Append(hostGot, Head(toHost)) /\ toHost' = Tail(toHost)
        /\ UNCHANGED <<writing, received, upWire, pcb, tunnelEof, peerSent,
                       hostEnd>>
    BY <1>4 DEF HostRead
  <2>2. UpRead
    BY <2>1 DEF UpInv
  <2>3. /\ hostGot \in Seq(Nat) /\ toHost \in Seq(Nat)
        /\ Up1 \in Nat /\ Len(toHost) \in Nat /\ Len(hostGot) \in Nat
    BY Lengths, Offsets DEF TypeOK
  <2>4. /\ Head(toHost) = 0 + Len(hostGot) + 1 /\ Run(toHost', Up1 + 1)
        /\ Len(toHost') = Len(toHost) - 1
    BY <2>1, <2>2, <2>3, RunHeadTail, SeqHeadTail DEF UpRead, Up1
  <2>5. Run(hostGot', 0) /\ Len(hostGot') = Len(hostGot) + 1
    BY <2>1, <2>2, <2>3, <2>4, RunAppend, SeqAppend, SeqHeadTail DEF UpRead
  <2>6. Up1' = Up1 + 1 /\ Up2' = Up2
    BY <2>1, <2>3, <2>4, <2>5 DEF Up1, Up2
  <2>7. Up3' = Up3 /\ Up4' = Up4 /\ Up5' = Up5
    BY <2>1, <2>6 DEF Up3, Up4, Up5
  <2>8. UpRead'
    BY <2>1, <2>2, <2>4, <2>5, <2>6 DEF UpRead
  <2>9. ASSUME UpLive' PROVE UpOrder'
    <3>1. UpOrder
      BY <1>s, <2>1, <2>9 DEF UpInv
    <3>2. QED
      BY <2>1, <2>4, <2>5, <2>6, <2>7, <3>1 DEF UpOrder, Run
  <2>10. QED
    BY <2>8, <2>9 DEF UpInv
<1>5. CASE ServiceRead
  <2>1. /\ writing = <<>> /\ pc = "idle" /\ UNCHANGED hostEnd
        /\ writing' = received /\ received' = <<>>
        /\ UNCHANGED <<hostGot, toHost, upWire, pcb, tunnelEof, peerSent>>
    BY <1>5 DEF ServiceRead, Control, LoopState
  <2> SUFFICES ASSUME hostEnd' = "open", UpLive' PROVE UpOrder'
    <3>1. CASE UpLive'
      BY <1>r, <3>1 DEF UpInv
    <3>2. CASE ~UpLive'
      BY <1>s, <2>1, <3>2, UpKept
    <3>3. QED
      BY <3>1, <3>2
  <2>2. UpOrder
    BY <1>s, <2>1 DEF UpInv
  <2>3. QED
    BY <2>1, <2>2, ReadOrder
<1>6. CASE StreamError \/ ClosedPcbRecv
  <2>1. /\ UNCHANGED hostEnd /\ upWire' = <<>> /\ pcb' = "gone"
        /\ UNCHANGED <<hostGot, toHost, writing, received, tunnelEof, peerSent>>
    BY <1>6 DEF StreamError, ClosedPcbRecv
  <2>0. CASE ~UpLive'
    BY <1>s, <2>1, <2>0, UpKept
  <2> SUFFICES ASSUME hostEnd' = "open", UpLive' PROVE UpOrder'
    BY <1>r, <2>0 DEF UpInv
  <2>2. UpOrder /\ (tunnelEof => upWire = <<>>)
    BY <1>s, <2>1 DEF UpInv, Control, UpEnd
  <2>3. Up4' = Up4 /\ (tunnelEof => Up5' = Up5)
    BY <2>1, <2>2 DEF Up1, Up2, Up3, Up4, Up5
  <2>4. Up5' <= peerSent'
    <3>1. /\ Up5' = Up4 + 0 /\ Up5 = Up4 + Len(upWire) /\ Up4 \in Nat
          /\ Len(upWire) \in Nat /\ peerSent \in Nat
      BY <2>1, <2>3, Lengths, Offsets, NoBytes, BoundsAssumption
      DEF TypeOK, Up5
    <3>2. QED
      BY <2>1, <2>2, <3>1 DEF UpOrder
  <2>5. QED
    BY <2>1, <2>2, <2>3, <2>4, RunEmpty DEF UpOrder, Up1, Up2, Up3, Run
<1>7. CASE HostAbort
  BY <1>7 DEF HostAbort, UpInv
<1>8. CASE Release
  <2>1. CASE fromHost = <<>>
    BY <1>8, <1>s, <2>1, UpKept DEF Release
  <2>2. CASE fromHost # <<>>
    BY <1>8, <2>2 DEF Release, UpInv
  <2>3. QED
    BY <2>1, <2>2
<1>9. CASE StreamRecvEof
  <2>1. pcb # "gone" /\ UNCHANGED <<upStages, hostEnd>>
    BY <1>9 DEF StreamRecvEof, upStages
  <2>2. QED
    BY <1>s, <2>1, UpKept DEF upStages
<1>10. CASE \/ PeerShut \/ PeerRead \/ PeerReadEof \/ PeerAbort \/ PeerGivesUp
            \/ ReaderNext \/ HostSend \/ HostShut \/ HostReadEof \/ Take
            \/ UNCHANGED vars
  <2>1. UNCHANGED <<upStages, pcb, tunnelEof>>
    BY <1>10 DEF PeerShut, PeerRead, PeerReadEof, PeerAbort, PeerGivesUp,
                 HostSend, HostShut, HostReadEof, ReaderNext, ReaderCalls,
                 ReaderReceives, ReaderPublishes, ReaderEof, ReaderFails, Take,
                 vars, upStages
  <2>2. QED
    BY <1>s, <2>1, UpKept DEF upStages
<1>11. CASE \/ ServiceFailed \/ HostWriteFails \/ HostWriteKills \/ TakeFails
            \/ CheckFails \/ Check
  <2>1. /\ UNCHANGED <<upStages, tunnelEof>>
        /\ pcb' # "gone" => pcb # "gone"
    BY <1>11 DEF ServiceFailed, HostWriteFails, HostWriteKills, TakeFails,
                 CheckFails, Check, CloseBoth, upStages
  <2>2. QED
    BY <1>s, <2>1, UpKept DEF upStages
<1>12. QED
  BY <1>1, <1>2, <1>3, <1>4, <1>5, <1>6, <1>7, <1>8, <1>9, <1>10, <1>11
  DEF Relay, PeerNext, StreamNext, HostNext, ServiceNext

downStages == <<peerGot, downWire, pending, chunks, chunk, fromHost, hostSent>>

(* A step that leaves what the peer can read alone keeps the invariant, if  *)
(* it leaves what else is on its way alone, or the process is gone.         *)
LEMMA DownKept ==
  ASSUME DownInv, peerEnd' = "open" => peerEnd = "open",
         UNCHANGED <<peerGot, downWire, hostSent>>,
         pc' # "killed" =>
           /\ pc # "killed" /\ UNCHANGED <<pending, chunks, chunk, fromHost>>
           /\ (socket # "released" \/ (hostEof /\ ~hostError))'
                => socket # "released" \/ (hostEof /\ ~hostError)
  PROVE  DownInv'
<1> SUFFICES ASSUME peerEnd' = "open"
             PROVE  DownRead' /\ (pc' # "killed" => DownOrder')
  BY DEF DownInv
<1>1. DownRead /\ (pc # "killed" => DownOrder)
  BY DEF DownInv
<1>2. DownRead'
  BY <1>1 DEF DownRead, Down1, Down2, Run
<1>3. ASSUME pc' # "killed" PROVE DownOrder'
  <2>1. DownOrder /\ UNCHANGED <<pending, chunks, chunk, fromHost>>
    BY <1>1, <1>3
  <2>2. QED
    BY <1>3, <2>1
    DEF DownOrder, Down1, Down2, Down3, Down4, Down5, Down6, Run
<1>4. QED
  BY <1>2, <1>3

(* A process that ends loses what its TCP had not sent.                     *)
LEMMA DownCutShort ==
  ASSUME TypeOK, DownInv, pc' = "killed", NEW n \in 0..Len(downWire),
         downWire' = Front(downWire, n),
         UNCHANGED <<peerGot, hostSent, peerEnd>>
  PROVE  DownInv'
<1> SUFFICES ASSUME peerEnd' = "open" PROVE DownRead'
  BY DEF DownInv
<1>1. DownRead
  BY DEF DownInv
<1>2. /\ downWire \in Seq(Nat) /\ Down1 \in Nat /\ Len(downWire) \in Nat
      /\ hostSent \in Nat
  BY Lengths, Offsets, BoundsAssumption DEF TypeOK
<1>3. Len(downWire') = n /\ Run(downWire', Down1)
  BY <1>1, <1>2, SeqSplit, RunSplit DEF DownRead
<1>4. Down1' = Down1 /\ Down2' = Down1 + n /\ Down2 = Down1 + Len(downWire)
  BY <1>3 DEF Down1, Down2
<1>5. Down2' <= hostSent'
  BY <1>1, <1>2, <1>4 DEF DownRead
<1>6. QED
  BY <1>1, <1>3, <1>4, <1>5 DEF DownRead, Run

(* Or all of it.                                                            *)
LEMMA DownLost ==
  ASSUME TypeOK, DownInv, pc' = "killed", downWire' = <<>>,
         UNCHANGED <<peerGot, hostSent, peerEnd>>
  PROVE  DownInv'
<1> SUFFICES ASSUME peerEnd' = "open" PROVE DownRead'
  BY DEF DownInv
<1>1. DownRead
  BY DEF DownInv
<1>2. Down1 \in Nat /\ Len(downWire) \in Nat /\ hostSent \in Nat
  BY Lengths, Offsets, BoundsAssumption DEF TypeOK
<1>3. Down2' = Down1 + 0 /\ Down2 = Down1 + Len(downWire)
  BY NoBytes DEF Down1, Down2
<1>4. Down2' <= hostSent'
  BY <1>1, <1>2, <1>3 DEF DownRead
<1>5. QED
  BY <1>1, <1>4, RunEmpty DEF DownRead, Run

(* Where all that is on its way is in order, so is what has been read.      *)
LEMMA DownOrderRead ==
  ASSUME TypeOK', DownOrder'
  PROVE  DownRead'
<1>1. PICK a, b, c, d \in Nat :
        /\ a = Len(pending') /\ b = Len(chunks') /\ c = Len(chunk')
        /\ d = Len(fromHost')
  BY DEF TypeOK
<1>2. PICK e \in Nat : e = Len(peerGot') + Len(downWire')
  BY DEF TypeOK
<1>3. e + a + b + c + d <= hostSent' /\ hostSent' \in Nat
  BY <1>1, <1>2, BoundsAssumption
  DEF TypeOK, DownOrder, Down1, Down2, Down3, Down4, Down5, Down6
<1>4. e <= hostSent'
  BY <1>3
<1>5. QED
  BY <1>2, <1>4 DEF DownOrder, DownRead, Down1, Down2

(* Take passes the bytes of pending, or of a chunk, on to the tunnel.       *)
LEMMA TakeOrder ==
  ASSUME TypeOK, DownOrder, NEW n \in 0..Len(chunks),
         n = 0 <=> pending # <<>> \/ chunks = <<>>
  PROVE  /\ Run(TakeData(n), Down2)
         /\ Run(Rest(chunks, n), Down2 + Len(TakeData(n)))
         /\ Len(TakeData(n)) + Len(Rest(chunks, n)) = Len(pending) + Len(chunks)
<1>1. /\ pending \in Seq(Nat) /\ chunks \in Seq(Nat) /\ Down2 \in Nat
      /\ Down3 \in Nat /\ Len(pending) \in Nat /\ Len(chunks) \in Nat
  BY Lengths, Offsets DEF TypeOK
<1>2. /\ Run(Front(chunks, n), Down3) /\ Run(Rest(chunks, n), Down3 + n)
      /\ Len(Front(chunks, n)) = n /\ Len(Rest(chunks, n)) = Len(chunks) - n
  BY <1>1, RunSplit, SeqSplit DEF DownOrder
<1>3. CASE pending = <<>>
  <2>1. TakeData(n) = Front(chunks, n) /\ Len(pending) = 0 /\ Down3 = Down2
    BY <1>1, <1>3, NoBytes DEF TakeData, Down3
  <2>2. QED
    BY <1>1, <1>2, <2>1
<1>4. CASE pending # <<>>
  <2>1. TakeData(n) = pending /\ n = 0 /\ Down3 = Down2 + Len(pending)
    BY <1>4 DEF TakeData, Down3
  <2>2. QED
    BY <1>1, <1>2, <2>1 DEF DownOrder
<1>5. QED
  BY <1>3, <1>4

(* A released socket leaves the peer what has been taken from it.           *)
LEMMA ReleaseOrder ==
  ASSUME TypeOK, TypeOK', Control, DownInv,
         socket = "closed", socket' = "released", fromHost' = <<>>,
         UNCHANGED <<peerGot, downWire, pending, chunks, chunk, hostEof,
                     hostError, hostSent, pc, peerEnd>>
  PROVE  DownInv'
<1>0. CASE pc' = "killed"
  BY <1>0, DownKept
<1>1. ASSUME peerEnd' = "open", pc' # "killed" PROVE DownOrder'
  <2>1. DownOrder /\ (hostEof /\ ~hostError => fromHost = <<>>)
    BY <1>1 DEF DownInv, Control, DownEnd
  <2>2. Down5' = Down5 /\ (hostEof /\ ~hostError => Down6' = Down6)
    BY <2>1 DEF Down1, Down2, Down3, Down4, Down5, Down6
  <2>3. Down6' <= hostSent'
    <3>1. /\ Down6' = Down5 + 0 /\ Down6 = Down5 + Len(fromHost)
          /\ Down5 \in Nat /\ Len(fromHost) \in Nat /\ hostSent \in Nat
      BY <2>2, Lengths, Offsets, NoBytes, BoundsAssumption
      DEF TypeOK, Down6
    <3>2. QED
      BY <2>1, <3>1 DEF DownOrder
  <2>4. QED
    BY <2>1, <2>2, <2>3, RunEmpty
    DEF DownOrder, Down1, Down2, Down3, Down4, Run
<1>2. ASSUME DownOrder' PROVE DownRead'
  BY <1>2, DownOrderRead
<1>3. QED
  BY <1>0, <1>1, <1>2 DEF DownInv

(* The steps on the way down may move several bytes.                        *)
LEMMA DownInductive ==
  ASSUME TypeOK, Control, DownInv, [Relay]_vars
  PROVE  DownInv'
<1>t. TypeOK'
  BY TypeInductive
<1>s. /\ peerEnd' = "open" => peerEnd = "open"
      /\ pc' # "killed" => pc # "killed"
  BY StaysCut
<1>r. ASSUME DownOrder' PROVE DownInv'
  <2>1. DownRead'
    BY <1>t, <1>r, DownOrderRead
  <2>2. QED
    BY <1>r, <2>1 DEF DownInv
<1> USE DEF peerVars, tunnelVars, loopVars, readerVars, socketVars, hostVars
<1>1. CASE HostSend
  <2>0. CASE pc = "killed"
    <3> SUFFICES ASSUME peerEnd' = "open" PROVE DownRead'
      BY <1>1, <2>0 DEF DownInv, HostSend
    <3>1. /\ DownRead /\ hostSent' = hostSent + 1
          /\ UNCHANGED <<peerGot, downWire>>
      BY <1>1, <1>s DEF DownInv, HostSend
    <3>2. Down2 \in Nat /\ hostSent \in Nat
      BY Offsets, BoundsAssumption DEF TypeOK
    <3>3. Down2 <= hostSent'
      BY <3>1, <3>2 DEF DownRead
    <3>4. QED
      BY <3>1, <3>3 DEF DownRead, Down1, Down2, Run
  <2> SUFFICES ASSUME peerEnd' = "open", pc # "killed" PROVE DownOrder'
    BY <1>r, <2>0 DEF DownInv
  <2>1. /\ peerEnd = "open" /\ pc # "killed" /\ ~hostFin
        /\ hostSent' = hostSent + 1
        /\ UNCHANGED <<peerGot, downWire, pending, chunks, chunk, socket,
                       hostEof, hostError>>
    BY <1>1 DEF HostSend
  <2>2. DownOrder /\ ~(hostEof /\ ~hostError)
    BY <2>1 DEF DownInv, Control, DownEnd
  <2>3. CASE socket = "released"
    <3>1. fromHost' = fromHost
      BY <1>1, <2>3 DEF HostSend
    <3>2. Down5' = Down5 /\ Down6' = Down6
      BY <2>1, <3>1 DEF Down1, Down2, Down3, Down4, Down5, Down6
    <3>3. Down6 <= hostSent'
      <4>1. Down6 \in Nat
        BY Offsets
      <4>2. hostSent \in Nat
        BY BoundsAssumption DEF TypeOK
      <4>3. QED
        BY <2>1, <2>2, <4>1, <4>2 DEF DownOrder
    <3>4. QED
      BY <2>1, <2>2, <2>3, <3>1, <3>2, <3>3
      DEF DownOrder, Down1, Down2, Down3, Down4, Down5, Run
  <2>4. CASE socket # "released"
    <3>1. fromHost' = Append(fromHost, hostSent + 1)
      BY <1>1, <2>1, <2>4 DEF HostSend
    <3>2. /\ fromHost \in Seq(Nat) /\ Down5 \in Nat /\ hostSent \in Nat
          /\ hostSent + 1 = Down5 + Len(fromHost) + 1 /\ Run(fromHost, Down5)
      <4>1. fromHost \in Seq(Nat) /\ hostSent \in Nat
        BY BoundsAssumption DEF TypeOK
      <4>2. Down5 \in Nat /\ Len(fromHost) \in Nat
        BY Lengths, Offsets
      <4>3. Down5 + Len(fromHost) = hostSent /\ Run(fromHost, Down5)
        BY <2>2, <2>4 DEF DownOrder, Down6
      <4>4. QED
        BY <4>1, <4>2, <4>3
    <3>3. Run(fromHost', Down5) /\ Len(fromHost') = Len(fromHost) + 1
      BY <3>1, <3>2, RunAppend, SeqAppend
    <3>4. Down5' = Down5 /\ Down6' = hostSent'
      BY <2>1, <3>2, <3>3 DEF Down1, Down2, Down3, Down4, Down5, Down6
    <3>5. QED
      BY <2>1, <2>2, <3>3, <3>4
      DEF DownOrder, Down1, Down2, Down3, Down4, Down5, Run
  <2>5. QED
    BY <2>3, <2>4
<1>2. CASE ReaderReceives
  <2> SUFFICES ASSUME peerEnd' = "open" PROVE DownOrder'
    BY <1>r DEF DownInv
  <2>1. /\ peerEnd = "open" /\ pc # "killed" /\ chunk = <<>>
        /\ UNCHANGED <<peerGot, downWire, pending, chunks, socket, hostEof,
                       hostError, hostSent>>
    BY <1>2 DEF ReaderReceives, Control, DownEnd, LoopState
  <2>2. DownOrder
    BY <2>1 DEF DownInv
  <2>3. /\ fromHost \in Seq(Nat) /\ Len(fromHost) \in Nat /\ Down4 \in Nat
        /\ Len(chunk) = 0 /\ Down5 = Down4
    BY <2>1, Lengths, NoBytes
    DEF TypeOK, Down1, Down2, Down3, Down4, Down5
  <2>4. PICK n \in 1..Len(fromHost) :
          chunk' = Front(fromHost, n) /\ fromHost' = Rest(fromHost, n)
    BY <1>2 DEF ReaderReceives
  <2>5. n \in 0..Len(fromHost) /\ Run(fromHost, Down4)
    BY <2>2, <2>3 DEF DownOrder
  <2>6. /\ Run(chunk', Down4) /\ Run(fromHost', Down4 + n)
        /\ Len(chunk') = n /\ Len(fromHost') = Len(fromHost) - n
    BY <2>3, <2>4, <2>5, RunSplit, SeqSplit
  <2>7. Down4' = Down4 /\ Down5' = Down4 + n /\ Down6' = Down6
    BY <2>1, <2>3, <2>5, <2>6 DEF Down1, Down2, Down3, Down4, Down5, Down6
  <2>8. QED
    BY <2>1, <2>2, <2>6, <2>7 DEF DownOrder, Down1, Down2, Down3, Run
<1>3. CASE ReaderPublishes
  <2> SUFFICES ASSUME peerEnd' = "open" PROVE DownOrder'
    BY <1>r DEF DownInv
  <2>1. /\ peerEnd = "open" /\ pc # "killed"
        /\ chunks' = chunks \o chunk /\ chunk' = <<>>
        /\ UNCHANGED <<peerGot, downWire, pending, fromHost, socket, hostEof,
                       hostError, hostSent>>
    BY <1>3 DEF ReaderPublishes, Control, LoopState
  <2>2. DownOrder
    BY <2>1 DEF DownInv
  <2>3. chunks \in Seq(Nat) /\ chunk \in Seq(Nat) /\ Down3 \in Nat
    BY Lengths DEF TypeOK, Down1, Down2, Down3
  <2>4. Run(chunks', Down3) /\ Len(chunks') = Len(chunks) + Len(chunk)
    BY <2>1, <2>2, <2>3, RunConcat, SeqConcat DEF DownOrder, Down4
  <2>5. Down3' = Down3 /\ Down4' = Down5 /\ Down5' = Down5 /\ Down6' = Down6
    BY <2>1, <2>3, <2>4, Lengths, NoBytes
    DEF Down1, Down2, Down3, Down4, Down5, Down6
  <2>6. QED
    BY <2>1, <2>2, <2>4, <2>5, RunEmpty DEF DownOrder, Down1, Down2, Run
<1>4. CASE Take
  <2> SUFFICES ASSUME peerEnd' = "open" PROVE DownOrder'
    BY <1>r DEF DownInv
  <2>1. PICK n \in 0..Len(chunks) :
          /\ n = 0 <=> pending # <<>> \/ chunks = <<>>
          /\ chunks' = Rest(chunks, n)
          /\ downWire' = downWire \o Front(TakeData(n), Accepted(TakeData(n)))
          /\ pending' = Rest(TakeData(n), Accepted(TakeData(n)))
    BY <1>4 DEF Take, TakeData
  <2> DEFINE d == TakeData(n)
             a == Accepted(d)
  <2>2. /\ peerEnd = "open" /\ pc # "killed"
        /\ UNCHANGED <<peerGot, chunk, fromHost, socket, hostEof, hostError,
                       hostSent>>
    BY <1>4 DEF Take
  <2>3. DownOrder
    BY <2>2 DEF DownInv
  <2>4. /\ Run(d, Down2) /\ Run(chunks', Down2 + Len(d))
        /\ Len(d) + Len(chunks') = Len(pending) + Len(chunks)
    BY <2>1, <2>3, TakeOrder
  <2>5. d \in Seq(Nat) /\ a \in 0..Len(d)
    BY TakeTypes
  <2>6. /\ downWire \in Seq(Nat) /\ Down1 \in Nat /\ Down2 \in Nat
        /\ Down2 = Down1 + Len(downWire)
        /\ Len(d) \in Nat /\ Len(downWire) \in Nat
    BY <2>5, Lengths, SMTT(20) DEF TypeOK, Down1, Down2
  <2> HIDE DEF d, a
  <2>7. /\ Run(Front(d, a), Down2) /\ Run(Rest(d, a), Down2 + a)
        /\ Front(d, a) \in Seq(Nat) /\ Len(Front(d, a)) = a
        /\ Len(Rest(d, a)) = Len(d) - a
    BY <2>4, <2>5, <2>6, RunSplit, SeqSplit
  <2>8. /\ downWire' = downWire \o Front(d, a) /\ pending' = Rest(d, a)
    BY <2>1 DEF d, a
  <2>9. Run(downWire', Down1) /\ Len(downWire') = Len(downWire) + a
    BY <2>3, <2>6, <2>7, <2>8, RunConcat, SeqConcat DEF DownOrder
  <2>10. /\ Down1' = Down1 /\ Down2' = Down2 + a /\ Down3' = Down2 + Len(d)
    <3>1. Down1' = Down1
      BY <2>2 DEF Down1
    <3>2. Down2' = Down2 + a
      <4>1. Down2' = Down1' + Len(downWire')
        BY DEF Down2
      <4>2. QED
        BY <3>1, <4>1, <2>5, <2>6, <2>9
    <3>3. Down3' = Down2' + (Len(d) - a)
      BY <2>7, <2>8 DEF Down3
    <3>4. QED
      BY <3>1, <3>2, <3>3, <2>5, <2>6
  <2>11. Len(chunks') \in Nat
    <3>1. chunks \in Seq(Nat)
      BY DEF TypeOK
    <3>2. Rest(chunks, n) \in Seq(Nat)
      BY <2>1, <3>1, SeqSplit
    <3>3. QED
      BY <2>1, <3>2
  <2>12. Down4' = Down4
    <3>1. Down4' = Down3' + Len(chunks')
      BY DEF Down4
    <3>2. Down4 = Down2 + (Len(pending) + Len(chunks))
      BY <2>6, Lengths DEF Down3, Down4
    <3>3. Down4' = Down2 + (Len(d) + Len(chunks'))
      BY <2>6, <2>10, <2>11, <3>1
    <3>4. QED
      BY <2>4, <3>2, <3>3
  <2>13. Down5' = Down5 /\ Down6' = Down6
    BY <2>2, <2>12 DEF Down5, Down6
  <2>14. QED
    BY <2>2, <2>3, <2>4, <2>7, <2>8, <2>9, <2>10, <2>12, <2>13
    DEF DownOrder, Run
<1>5. CASE PeerRead
  <2>1. /\ peerEnd = "open" /\ downWire # <<>> /\ UNCHANGED <<peerEnd, pc>>
        /\ peerGot' = Append(peerGot, Head(downWire))
        /\ downWire' = Tail(downWire)
        /\ UNCHANGED <<pending, chunks, chunk, fromHost, socket, hostEof,
                       hostError, hostSent>>
    BY <1>5 DEF PeerRead
  <2>2. DownRead
    BY <2>1 DEF DownInv
  <2>3. /\ peerGot \in Seq(Nat) /\ downWire \in Seq(Nat)
        /\ Down1 \in Nat /\ Len(downWire) \in Nat /\ Len(peerGot) \in Nat
    BY Lengths, Offsets DEF TypeOK
  <2>4. /\ Head(downWire) = 0 + Len(peerGot) + 1 /\ Run(downWire', Down1 + 1)
        /\ Len(downWire') = Len(downWire) - 1
    BY <2>1, <2>2, <2>3, RunHeadTail, SeqHeadTail DEF DownRead, Down1
  <2>5. Run(peerGot', 0) /\ Len(peerGot') = Len(peerGot) + 1
    BY <2>1, <2>2, <2>3, <2>4, RunAppend, SeqAppend, SeqHeadTail DEF DownRead
  <2>6. Down1' = Down1 + 1 /\ Down2' = Down2
    BY <2>1, <2>3, <2>4, <2>5 DEF Down1, Down2
  <2>7. Down3' = Down3 /\ Down4' = Down4 /\ Down5' = Down5 /\ Down6' = Down6
    BY <2>1, <2>6 DEF Down3, Down4, Down5, Down6
  <2>8. DownRead'
    BY <2>1, <2>2, <2>4, <2>5, <2>6 DEF DownRead
  <2>9. ASSUME pc' # "killed" PROVE DownOrder'
    <3>1. DownOrder
      BY <2>1, <2>9 DEF DownInv
    <3>2. QED
      BY <2>1, <2>4, <2>5, <2>6, <2>7, <3>1 DEF DownOrder, Run
  <2>10. QED
    BY <2>8, <2>9 DEF DownInv
<1>6. CASE Release
  BY <1>6, <1>t, ReleaseOrder DEF Release
<1>7. CASE ReaderCalls \/ ReaderEof \/ ReaderFails
  <2>1. UNCHANGED <<downStages, socket, pc, peerEnd>>
    BY <1>7 DEF ReaderCalls, ReaderEof, ReaderFails, downStages
  <2>2. (socket # "released" \/ (hostEof /\ ~hostError))'
          => socket # "released" \/ (hostEof /\ ~hostError)
    BY <1>7 DEF ReaderCalls, ReaderEof, ReaderFails, Control, DownEnd
  <2>3. QED
    BY <2>1, <2>2, DownKept DEF downStages
<1>8. CASE PeerReadEof \/ PeerAbort \/ PeerGivesUp \/ StreamError
  BY <1>8 DEF PeerReadEof, PeerAbort, PeerGivesUp, StreamError, DownInv
<1>9. CASE ClosedPcbRecv
  BY <1>9 DEF ClosedPcbRecv, DownInv
<1>10. CASE HostWriteKills
  BY <1>10, DownLost DEF HostWriteKills
<1>11. CASE \/ PeerSend \/ PeerShut \/ StreamRecv \/ StreamRecvEof \/ HostShut
            \/ HostRead \/ HostReadEof \/ HostAbort \/ ServiceRead
            \/ HostWrite \/ UNCHANGED vars
  <2>1. UNCHANGED <<downStages, socket, hostEof, hostError>>
    BY <1>11 DEF PeerSend, PeerShut, StreamRecv, StreamRecvEof, HostShut,
                 HostRead, HostReadEof, HostAbort, ServiceRead, HostWrite,
                 vars, downStages
  <2>2. QED
    BY <1>s, <2>1, DownKept DEF downStages
<1>12. CASE \/ ServiceFailed \/ HostWriteFails \/ TakeFails \/ CheckFails
            \/ Check
  <2>1. socket # "released" /\ UNCHANGED downStages
    BY <1>12 DEF ServiceFailed, HostWriteFails, TakeFails, CheckFails, Check,
                 CloseBoth, downStages, Control, LoopState
  <2>2. QED
    BY <1>s, <2>1, DownKept DEF downStages
<1>13. QED
  BY <1>1, <1>2, <1>3, <1>4, <1>5, <1>6, <1>7, <1>8, <1>9, <1>10, <1>11,
     <1>12
  DEF Relay, PeerNext, StreamNext, HostNext, ReaderNext, ServiceNext

(***************************************************************************)
(* What an application sees of a step.                                      *)
(***************************************************************************)

(* The stream to the host application may stop short: the peer has broken   *)
(* off, the process is gone, or the socket was closed before there was a    *)
(* connection.                                                              *)
UpCut ==
  \/ peerEnd = "aborted" \/ pc = "killed"
  \/ pc = "new" /\ socket \in {"closed", "released"}

(* The peer writes or shuts down, the host application reads, reads the end *)
(* or is reset, or breaks off itself; nothing is cut short by that.         *)
UpMove ==
  \/ /\ UNCHANGED peerEnd /\ (pc' = "killed" <=> pc = "killed")
     /\ \/ /\ ~peerFin /\ peerSent' = peerSent + 1
           /\ UNCHANGED <<peerFin, hostGot, hostEnd>>
        \/ peerFin' = TRUE /\ UNCHANGED <<peerSent, hostGot, hostEnd>>
        \/ /\ hostEnd = "open" /\ Len(hostGot) < peerSent
           /\ hostGot' = Append(hostGot, Len(hostGot) + 1)
           /\ UNCHANGED <<peerSent, peerFin, hostEnd>>
        \/ /\ hostEnd = "open" /\ hostEnd' = "eof"
           /\ (peerFin /\ Len(hostGot) = peerSent) \/ UpCut
           /\ UNCHANGED <<peerSent, peerFin, hostGot>>
        \/ /\ hostEnd = "open" /\ hostEnd' = "reset" /\ UpCut
           /\ UNCHANGED <<peerSent, peerFin, hostGot>>
        \/ hostEnd' = "aborted" /\ UNCHANGED <<peerSent, peerFin, hostGot>>
  \/ /\ UNCHANGED <<peerSent, peerFin, hostGot, hostEnd>>
     /\ peerEnd = "aborted" => peerEnd' = "aborted"
     /\ pc = "killed" => pc' = "killed"

(* The same on the way down.                                                *)
DownCut == hostEnd = "aborted" \/ pc = "killed"
DownMove ==
  \/ /\ hostEnd' = "aborted" <=> hostEnd = "aborted"
     /\ pc' = "killed" <=> pc = "killed"
     /\ \/ /\ ~hostFin /\ hostSent' = hostSent + 1
           /\ UNCHANGED <<hostFin, peerGot, peerEnd>>
        \/ hostFin' = TRUE /\ UNCHANGED <<hostSent, peerGot, peerEnd>>
        \/ /\ peerEnd = "open" /\ Len(peerGot) < hostSent
           /\ peerGot' = Append(peerGot, Len(peerGot) + 1)
           /\ UNCHANGED <<hostSent, hostFin, peerEnd>>
        \/ /\ peerEnd = "open" /\ peerEnd' = "eof"
           /\ (hostFin /\ Len(peerGot) = hostSent) \/ DownCut
           /\ UNCHANGED <<hostSent, hostFin, peerGot>>
        \/ /\ peerEnd' = "reset" /\ DownCut
           /\ UNCHANGED <<hostSent, hostFin, peerGot>>
        \/ peerEnd' = "aborted" /\ UNCHANGED <<hostSent, hostFin, peerGot>>
  \/ /\ UNCHANGED <<hostSent, hostFin, peerGot, peerEnd>>
     /\ hostEnd = "aborted" => hostEnd' = "aborted"
     /\ pc = "killed" => pc' = "killed"

(* A socket that is closed while its connection is there cuts the stream    *)
(* short only for a reason.                                                 *)
LEMMA WhyReleased ==
  ASSUME TypeOK, Control, hostEnd = "open", socket \in {"closed", "released"},
         fromHost # <<>> \/ ~hostFin \/ ~hostShut
  PROVE  UpCut
<1>1. pc \in {"new", "done", "killed"}
  BY DEF TypeOK, Control, LoopState
<1>2. CASE pc \in {"new", "killed"}
  BY <1>2 DEF UpCut
<1>3. CASE pc = "done"
  BY <1>3 DEF Control, Finished, DownEnd, UpCut
<1>4. QED
  BY <1>1, <1>2, <1>3

(* Every shared step is one of these for the host application.              *)
LEMMA UpMoves ==
  ASSUME TypeOK, Control, UpInv, [Relay]_vars
  PROVE  UpMove
<1> USE DEF peerVars, tunnelVars, loopVars, readerVars, socketVars, hostVars
<1>1. CASE PeerSend
  BY <1>1 DEF PeerSend, UpMove
<1>2. CASE PeerShut
  BY <1>2 DEF PeerShut, UpMove
<1>3. CASE HostRead
  <2>1. /\ hostEnd = "open" /\ toHost # <<>>
        /\ hostGot' = Append(hostGot, Head(toHost))
        /\ UNCHANGED <<peerSent, peerFin, peerEnd, hostEnd, pc>>
    BY <1>3 DEF HostRead
  <2>2. Run(toHost, Len(hostGot)) /\ Len(hostGot) + Len(toHost) <= peerSent
    BY <2>1 DEF UpInv, UpRead, Up1, Up2
  <2>3. /\ toHost \in Seq(Nat) /\ Len(hostGot) \in Nat /\ peerSent \in Nat
        /\ Len(toHost) \in Nat \ {0}
    BY <2>1, Lengths, SeqHeadTail, BoundsAssumption DEF TypeOK
  <2>4. Head(toHost) = Len(hostGot) + 1
    BY <2>1, <2>2, <2>3, RunHeadTail
  <2>5. Len(hostGot) < peerSent
    BY <2>2, <2>3
  <2>6. QED
    BY <2>1, <2>4, <2>5 DEF UpMove
<1>4. CASE HostReadEof
  <2>1. /\ hostEnd = "open" /\ hostEnd' = "eof" /\ toHost = <<>>
        /\ hostShut \/ socket = "released"
        /\ UNCHANGED <<peerSent, peerFin, peerEnd, hostGot, pc>>
    BY <1>4 DEF HostReadEof
  <2>2. CASE UpCut
    BY <2>1, <2>2 DEF UpMove
  <2>3. CASE ~UpCut
    <3>1. hostShut
      BY <2>1, <2>3, WhyReleased
    <3>2. /\ tunnelEof /\ peerFin
          /\ writing = <<>> /\ received = <<>> /\ upWire = <<>>
      BY <3>1 DEF Control, UpEnd
    <3>3. Up5 = peerSent
      BY <2>1, <2>3, <3>2 DEF UpInv, UpOrder, UpLive, UpCut
    <3>4. Len(hostGot) = peerSent
      BY <2>1, <3>2, <3>3, Lengths, NoBytes DEF Up1, Up2, Up3, Up4, Up5
    <3>5. QED
      BY <2>1, <3>2, <3>4 DEF UpMove
  <2>4. QED
    BY <2>2, <2>3
<1>5. CASE Release \/ HostSend
  <2>1. /\ UNCHANGED <<peerSent, peerFin, peerEnd, hostGot, pc>>
        /\ hostEnd' = hostEnd \/ (hostEnd = "open" /\ hostEnd' = "reset")
    BY <1>5 DEF Release, HostSend
  <2>2. CASE hostEnd' = hostEnd
    BY <2>1, <2>2 DEF UpMove
  <2>3. CASE hostEnd = "open" /\ hostEnd' = "reset"
    <3>1. /\ socket \in {"closed", "released"}
          /\ fromHost # <<>> \/ ~hostFin
      BY <1>5, <2>3 DEF Release, HostSend
    <3>2. UpCut
      BY <2>3, <3>1, WhyReleased
    <3>3. QED
      BY <2>1, <2>3, <3>2 DEF UpMove
  <2>4. QED
    BY <2>1, <2>2, <2>3
<1>6. CASE HostAbort
  BY <1>6 DEF HostAbort, UpMove
<1>7. CASE \/ PeerRead \/ PeerReadEof \/ PeerAbort \/ PeerGivesUp \/ StreamNext
           \/ ReaderNext \/ HostShut \/ ServiceNext \/ UNCHANGED vars
  <2>1. UNCHANGED <<peerSent, peerFin, hostGot, hostEnd>>
    <3>1. CASE \/ PeerRead \/ PeerReadEof \/ PeerAbort \/ PeerGivesUp
               \/ StreamNext \/ HostShut \/ UNCHANGED vars
      BY <3>1 DEF PeerRead, PeerReadEof, PeerAbort, PeerGivesUp, StreamNext,
                  StreamRecv, StreamRecvEof, StreamError, ClosedPcbRecv,
                  HostShut, vars
    <3>2. CASE ReaderNext \/ ServiceNext
      BY <3>2 DEF ReaderNext, ReaderCalls, ReaderReceives, ReaderPublishes,
                  ReaderEof, ReaderFails, ServiceNext, ServiceFailed,
                  ServiceRead, HostWrite, HostWriteFails, HostWriteKills,
                  TakeFails, Take, CheckFails, Check
    <3>3. QED
      BY <1>7, <3>1, <3>2
  <2>2. QED
    BY <2>1, StaysCut DEF UpMove
<1>8. QED
  BY <1>1, <1>2, <1>3, <1>4, <1>5, <1>6, <1>7 DEF Relay, PeerNext, HostNext

(* And one for the peer.                                                    *)
LEMMA DownMoves ==
  ASSUME TypeOK, Control, DownInv, [Relay]_vars
  PROVE  DownMove
<1> USE DEF peerVars, tunnelVars, loopVars, readerVars, socketVars, hostVars
<1>1. CASE HostSend
  BY <1>1 DEF HostSend, DownMove
<1>2. CASE HostShut
  BY <1>2 DEF HostShut, DownMove
<1>3. CASE PeerRead
  <2>1. /\ peerEnd = "open" /\ downWire # <<>>
        /\ peerGot' = Append(peerGot, Head(downWire))
        /\ UNCHANGED <<hostSent, hostFin, hostEnd, peerEnd, pc>>
    BY <1>3 DEF PeerRead
  <2>2. /\ Run(downWire, Len(peerGot))
        /\ Len(peerGot) + Len(downWire) <= hostSent
    BY <2>1 DEF DownInv, DownRead, Down1, Down2
  <2>3. /\ downWire \in Seq(Nat) /\ Len(peerGot) \in Nat /\ hostSent \in Nat
        /\ Len(downWire) \in Nat \ {0}
    BY <2>1, Lengths, SeqHeadTail, BoundsAssumption DEF TypeOK
  <2>4. Head(downWire) = Len(peerGot) + 1
    BY <2>1, <2>2, <2>3, RunHeadTail
  <2>5. Len(peerGot) < hostSent
    BY <2>2, <2>3
  <2>6. QED
    BY <2>1, <2>4, <2>5 DEF DownMove
<1>4. CASE PeerReadEof
  <2>1. /\ peerEnd = "open" /\ peerEnd' = "eof" /\ downWire = <<>> /\ downFin
        /\ UNCHANGED <<hostSent, hostFin, hostEnd, peerGot, pc>>
    BY <1>4 DEF PeerReadEof
  <2>2. CASE DownCut
    BY <2>1, <2>2 DEF DownMove
  <2>3. CASE ~DownCut
    <3>1. /\ hostEof /\ ~hostError /\ chunks = <<>> /\ pending = <<>>
          /\ pc # "killed"
      BY <2>1, <2>3 DEF Control, LoopState, DownEnd, Finished, DownCut
    <3>2. hostFin /\ fromHost = <<>> /\ chunk = <<>>
      BY <3>1 DEF Control, DownEnd
    <3>3. Down6 = hostSent
      BY <2>1, <3>1 DEF DownInv, DownOrder
    <3>4. Len(peerGot) = hostSent
      BY <2>1, <3>1, <3>2, <3>3, Lengths, NoBytes
      DEF Down1, Down2, Down3, Down4, Down5, Down6
    <3>5. QED
      BY <2>1, <3>2, <3>4 DEF DownMove
  <2>4. QED
    BY <2>2, <2>3
<1>5. CASE ClosedPcbRecv
  <2>1. /\ UNCHANGED <<hostSent, hostFin, hostEnd, peerGot, pc>>
        /\ pcb = "closed" /\ upWire # <<>>
        /\ peerEnd' = IF peerEnd = "open" THEN "reset" ELSE peerEnd
    BY <1>5 DEF ClosedPcbRecv
  <2>2. CASE peerEnd # "open"
    BY <2>1, <2>2 DEF DownMove
  <2>3. CASE peerEnd = "open"
    <3>1. DownCut
      BY <2>1, <2>3 DEF Control, LoopState, UpEnd, Finished, DownCut
    <3>2. QED
      BY <2>1, <2>3, <3>1 DEF DownMove
  <2>4. QED
    BY <2>2, <2>3
<1>6. CASE PeerGivesUp
  BY <1>6 DEF PeerGivesUp, DownMove, DownCut
<1>7. CASE PeerAbort
  BY <1>7 DEF PeerAbort, DownMove
<1>8. CASE \/ PeerSend \/ PeerShut \/ StreamRecv \/ StreamRecvEof
           \/ StreamError \/ ReaderNext \/ Release \/ HostRead \/ HostReadEof
           \/ HostAbort \/ ServiceNext \/ UNCHANGED vars
  <2>1. UNCHANGED <<hostSent, hostFin, peerGot, peerEnd>>
    <3>1. CASE \/ PeerSend \/ PeerShut \/ StreamRecv \/ StreamRecvEof
               \/ StreamError \/ Release \/ HostRead \/ HostReadEof
               \/ HostAbort \/ UNCHANGED vars
      BY <3>1 DEF PeerSend, PeerShut, StreamRecv, StreamRecvEof, StreamError,
                  Release, HostRead, HostReadEof, HostAbort, vars
    <3>2. CASE ReaderNext \/ ServiceNext
      BY <3>2 DEF ReaderNext, ReaderCalls, ReaderReceives, ReaderPublishes,
                  ReaderEof, ReaderFails, ServiceNext, ServiceFailed,
                  ServiceRead, HostWrite, HostWriteFails, HostWriteKills,
                  TakeFails, Take, CheckFails, Check
    <3>3. QED
      BY <1>8, <3>1, <3>2
  <2>2. QED
    BY <2>1, StaysCut DEF DownMove
<1>9. QED
  BY <1>1, <1>2, <1>3, <1>4, <1>5, <1>6, <1>7, <1>8
  DEF Relay, PeerNext, StreamNext, HostNext

(***************************************************************************)
(* How a served connection begins.                                          *)
(***************************************************************************)

(* It has no socket before accept_new(), and only SIGPIPE kills it.         *)
Begun ==
  /\ pc = "new" => socket = "none"
  /\ pc = "killed" => hostEnd = "aborted"

(* The shared steps keep it.                                                *)
LEMMA BegunInductive ==
  ASSUME TypeOK, Control, Begun, [Relay]_vars
  PROVE  Begun'
<1> USE DEF Begun, peerVars, tunnelVars, loopVars, readerVars, socketVars,
            hostVars
<1>1. CASE PeerNext \/ StreamNext \/ UNCHANGED vars
  BY <1>1 DEF PeerNext, PeerSend, PeerShut, PeerRead, PeerReadEof, PeerAbort,
              PeerGivesUp, StreamNext, StreamRecv, StreamRecvEof, StreamError,
              ClosedPcbRecv, vars
<1>2. CASE ReaderNext \/ HostNext
  BY <1>2 DEF ReaderNext, ReaderCalls, ReaderReceives, ReaderPublishes,
              ReaderEof, ReaderFails, HostNext, Release, HostSend, HostShut,
              HostRead, HostReadEof, HostAbort
<1>3. CASE ServiceNext
  BY <1>3 DEF ServiceNext, ServiceFailed, ServiceRead, HostWrite,
              HostWriteFails, HostWriteKills, TakeFails, Take, CheckFails,
              Check, CloseBoth
<1>4. QED
  BY <1>1, <1>2, <1>3 DEF Relay

(* The inductive invariant of a served connection.                          *)
IInv == TypeOK /\ Control /\ UpInv /\ DownInv /\ Begun

(* accept_new() keeps the invariant.                                        *)
LEMMA AcceptKeeps ==
  ASSUME IInv, Accept
  PROVE  IInv'
<1> USE DEF IInv, Accept, peerVars, tunnelVars, loopVars, readerVars,
            socketVars, hostVars
<1>1. TypeOK'
  BY DEF TypeOK
<1>2. Control'
  BY DEF TypeOK, Control, LoopState, UpEnd, DownEnd, Finished, Begun
<1>3. UpInv'
  BY UpKept DEF UpLive
<1>4. DownInv'
  BY DownKept DEF Begun
<1>5. Begun'
  BY DEF Begun
<1>6. QED
  BY <1>1, <1>2, <1>3, <1>4, <1>5

(* So does a connection that nobody serves.                                 *)
LEMMA AcceptFailsKeeps ==
  ASSUME IInv, AcceptFails
  PROVE  IInv'
<1> USE DEF IInv, AcceptFails, peerVars, tunnelVars, loopVars, readerVars,
            socketVars, hostVars
<1>1. TypeOK'
  BY DEF TypeOK, Ends
<1>2. Control'
  BY DEF TypeOK, Control, LoopState, UpEnd, DownEnd, Finished, Begun
<1>3. UpInv'
  BY DEF UpInv
<1>4. DownInv'
  BY DownKept
<1>5. Begun'
  BY DEF Begun
<1>6. QED
  BY <1>1, <1>2, <1>3, <1>4, <1>5

(* A served connection is relayed, accepted or refused.                     *)
LEMMA ServedSteps ==
  ASSUME [Next]_vars
  PROVE  [Relay]_vars \/ Accept \/ AcceptFails
BY DEF Next, Relay

(***************************************************************************)
(* The invariant of the specification, and what follows.                    *)
(***************************************************************************)

(* A connection starts with nothing under way.                              *)
LEMMA InitInv == Init => TypeOK /\ Control /\ UpInv /\ DownInv
<1>1. Init => TypeOK
  BY InitType
<1>2. Init => Control
  BY DEF Init, Control, LoopState, UpEnd, DownEnd, Finished
<1>3. Init => UpInv
  BY NoBytes DEF Init, UpInv, UpRead, UpOrder, Up1, Up2, Up3, Up4, Up5, Run
<1>4. Init => DownInv
  BY NoBytes
  DEF Init, DownInv, DownRead, DownOrder, Down1, Down2, Down3, Down4, Down5,
      Down6, Run
<1>5. QED
  BY <1>1, <1>2, <1>3, <1>4

(* It holds at the start and every step keeps it.                           *)
LEMMA Invariant == Spec => []IInv
<1>1. Init => TypeOK /\ Control /\ UpInv /\ DownInv
  BY InitInv
<1>2. Init => Begun
  BY DEF Init, Begun
<1>3. IInv /\ [Next]_vars => IInv'
  <2> SUFFICES ASSUME IInv, [Next]_vars PROVE IInv'
    OBVIOUS
  <2>1. CASE [Relay]_vars
    BY <2>1, TypeInductive, ControlInductive, UpInductive, DownInductive,
       BegunInductive DEF IInv
  <2>2. QED
    BY <2>1, ServedSteps, AcceptKeeps, AcceptFailsKeeps
<1>4. QED
  BY <1>1, <1>2, <1>3, PTL DEF IInv, Spec

(* For any number of bytes and any buffers, every variable keeps its type,  *)
(* and neither the tunnel's nor the socket's send buffer holds more than    *)
(* its size (Accepted, HostWrite).                                          *)
THEOREM TypeCorrect == Spec => []TypeOK
<1>1. IInv => TypeOK
  BY DEF IInv
<1>2. QED
  BY <1>1, Invariant, PTL

(* An orderly teardown never closes the socket under the thread that reads  *)
(* it (HostTcpStream has no lock around the descriptor).                    *)
THEOREM ReaderHasLeft == Spec => []NoCloseUnderReader
<1>1. IInv => NoCloseUnderReader
  BY DEF IInv, Control, Finished, DownEnd, NoCloseUnderReader
<1>2. QED
  BY <1>1, Invariant, PTL

(* Every step is a step of the upward pipe or leaves it alone.              *)
LEMMA UpStep ==
  ASSUME IInv, [Next]_vars
  PROVE  [Up!Next]_(Up!vars)
<1>1. CASE [Relay]_vars
  <2>1. UpMove
    BY <1>1, UpMoves DEF IInv
  <2>2. hostEnd = "open" /\ UpCut => peerEnd = "aborted"
    BY DEF IInv, Begun, UpCut
  <2>3. QED
    BY <2>1, <2>2
    DEF UpMove, Up!Next, Up!Write, Up!Close, Up!Break, Up!Read, Up!End,
        Up!Reset, Up!Abandon, Up!vars
<1>2. CASE Accept
  BY <1>2 DEF Accept, Up!vars, peerVars, hostVars
<1>3. CASE AcceptFails
  <2>1. Up!Abandon
    BY <1>3 DEF AcceptFails, Up!Abandon, peerVars
  <2>2. QED
    BY <2>1 DEF Up!Next
<1>4. QED
  BY <1>1, <1>2, <1>3, ServedSteps

(* Upwards: whatever the threads do, the host application reads the bytes   *)
(* the peer wrote, in order and each once, and the end of the stream only   *)
(* behind the last of them, unless the peer broke off.                      *)
THEOREM UpRefines == Spec => UpIsPipe
<1>1. Init => Up!Init
  BY DEF Init, Up!Init
<1>2. IInv /\ [Next]_vars => [Up!Next]_(Up!vars)
  BY UpStep
<1>3. QED
  BY <1>1, <1>2, Invariant, PTL DEF Spec, UpIsPipe, Up!Spec

(* Every step is a step of the downward pipe or leaves it alone.            *)
LEMMA DownStep ==
  ASSUME IInv, [Next]_vars
  PROVE  [Down!Next]_(Down!vars)
<1>1. CASE [Relay]_vars
  <2>1. DownMove
    BY <1>1, DownMoves DEF IInv
  <2>2. DownCut => hostEnd = "aborted"
    BY DEF IInv, Begun, DownCut
  <2>3. QED
    BY <2>1, <2>2
    DEF DownMove, Down!Next, Down!Write, Down!Close, Down!Break, Down!Read,
        Down!End, Down!Reset, Down!Abandon, Down!vars
<1>2. CASE Accept
  BY <1>2 DEF Accept, Down!vars, peerVars, hostVars
<1>3. CASE AcceptFails
  <2>1. Down!Break
    BY <1>3 DEF AcceptFails, Down!Break, peerVars
  <2>2. QED
    BY <2>1 DEF Down!Next
<1>4. QED
  BY <1>1, <1>2, <1>3, ServedSteps

(* Downwards: the peer likewise reads what the host application wrote, in   *)
(* order and each once, and the end only behind the last byte, unless the   *)
(* host application broke off.                                              *)
THEOREM DownRefines == Spec => DownIsPipe
<1>1. Init => Down!Init
  BY DEF Init, Down!Init
<1>2. IInv /\ [Next]_vars => [Down!Next]_(Down!vars)
  BY DownStep
<1>3. QED
  BY <1>1, <1>2, Invariant, PTL DEF Spec, DownIsPipe, Down!Spec
=============================================================================
