--------------------------- MODULE DataPlane_proof ---------------------------
(***************************************************************************)
(* Proofs about DataPlane for any set of clients and any bounds.            *)
(***************************************************************************)
EXTENDS DataPlane, TLAPS

(***************************************************************************)
(* Facts about the engine: every operator keeps the type of an engine.      *)
(***************************************************************************)

(* The keypairs an engine starts with or adds are keypairs.                 *)
LEMMA KeypairType ==
  /\ NoKeypair \in Keypair
  /\ \A s \in Nat, i \in BOOLEAN : NewKeypair(s, i) \in Keypair
  BY DEF NoKeypair, NewKeypair, Keypair

(* wireguard_start_session and keypair_update keep three typed slots.       *)
LEMMA KeysType ==
  ASSUME NEW keys \in [Slots -> Keypair]
  PROVE  /\ \A s \in Nat, i \in BOOLEAN :
              AddKeypair(keys, s, i) \in [Slots -> Keypair]
         /\ \A slot \in Slots : KeypairUpdate(keys, slot) \in [Slots -> Keypair]
  BY KeypairType DEF AddKeypair, KeypairUpdate, Slots

(* A new engine is an engine.                                               *)
LEMMA NewEngineType == NewEngine \in Engine
  BY KeypairType DEF NewEngine, Engine

(* Initiating keeps an engine an engine.                                    *)
LEMMA InitiateType ==
  ASSUME NEW e \in Engine, NEW i \in Nat PROVE Initiate(e, i) \in Engine
  BY DEF Initiate, Engine

(* Starting a session in either role does.                                  *)
LEMMA StartSessionType ==
  ASSUME NEW e \in Engine, NEW s \in Nat, NEW r \in BOOLEAN
  PROVE  StartSession(e, s, r) \in Engine
  <1>1. e.keys \in [Slots -> Keypair]
    BY DEF Engine
  <1>2. AddKeypair(e.keys, s, r) \in [Slots -> Keypair]
    BY <1>1, KeysType
  <1>3. QED
    BY <1>2 DEF StartSession, Engine

(* Answering an initiation and taking a response do.                        *)
LEMMA HandshakeType ==
  ASSUME NEW e \in Engine, NEW i \in Nat, NEW s \in Nat
  PROVE  /\ AcceptInitiation(e, i, s) \in Engine
         /\ AcceptResponse(e, s) \in Engine
  <1>1. [e EXCEPT !.greatest = i] \in Engine
    BY DEF Engine
  <1>2. StartSession([e EXCEPT !.greatest = i], s, FALSE) \in Engine
    BY <1>1, StartSessionType
  <1>3. StartSession(e, s, TRUE) \in Engine
    BY StartSessionType
  <1>4. QED
    BY <1>2, <1>3 DEF AcceptInitiation, AcceptResponse, Engine

(* Receiving data does.                                                     *)
LEMMA AcceptDataType ==
  ASSUME NEW e \in Engine, NEW slot \in Slots, NEW n \in Nat
  PROVE  AcceptData(e, slot, n) \in Engine
  <1> DEFINE heard == [e.keys EXCEPT ![slot].seen = @ \cup {n},
                                     ![slot].heard = TRUE]
  <1>1. e.keys \in [Slots -> Keypair]
    BY DEF Engine
  <1> DEFINE new == [e.keys[slot] EXCEPT !.seen = @ \cup {n}, !.heard = TRUE]
  <1>a. e.keys[slot] \in Keypair
    BY <1>1
  <1>b. new \in Keypair
    <2>1. PICK k \in Keypair : k = e.keys[slot]
      BY <1>a
    <2>2. [k EXCEPT !.seen = @ \cup {n}, !.heard = TRUE] \in Keypair
      BY DEF Keypair
    <2>3. QED
      BY <2>1, <2>2
  <1>c. heard = [e.keys EXCEPT ![slot] = new]
    BY <1>1
  <1> HIDE DEF new
  <1>2. heard \in [Slots -> Keypair]
    BY <1>1, <1>b, <1>c
  <1>3. KeypairUpdate(heard, slot) \in [Slots -> Keypair]
    BY <1>2, KeysType
  <1>4. QED
    BY <1>3 DEF AcceptData, Engine

(* Counting a packet sent does, and the keypair it used is a keypair.       *)
LEMMA SendType ==
  ASSUME NEW e \in Engine
  PROVE  /\ SendSlot(e) \in Slots
         /\ SendKeypair(e) \in Keypair
         /\ CountSent(e) \in Engine
  <1>1. SendSlot(e) \in Slots
    BY DEF SendSlot, Slots
  <1>2. e.keys \in [Slots -> Keypair]
    BY DEF Engine
  <1>3. SendKeypair(e) \in Keypair
    BY <1>1, <1>2 DEF SendKeypair
  <1>4. [e.keys EXCEPT ![SendSlot(e)].sent = @ + 1] \in [Slots -> Keypair]
    BY <1>1, <1>2 DEF Keypair
  <1>5. CountSent(e) = [e EXCEPT !.keys = [e.keys EXCEPT ![SendSlot(e)].sent =
      @ + 1]]
    BY DEF CountSent, Engine
  <1>6. QED
    BY <1>1, <1>3, <1>4, <1>5 DEF Engine

(* A slot that takes a packet is a slot.                                    *)
LEMMA ReceiversType ==
  ASSUME NEW e, NEW s, NEW n PROVE Receivers(e, s, n) \subseteq Slots
  BY DEF Receivers

(* Expiry keeps an engine an engine.                                        *)
LEMMA ExpireType ==
  ASSUME NEW e \in Engine, NEW slot \in Slots
  PROVE  [e EXCEPT !.keys[slot].expired = TRUE] \in Engine
  <1>1. e.keys \in [Slots -> Keypair]
    BY DEF Engine
  <1>2. [e.keys EXCEPT ![slot].expired = TRUE] \in [Slots -> Keypair]
    BY <1>1 DEF Keypair
  <1>3. QED
    BY <1>2 DEF Engine

(***************************************************************************)
(* Type correctness.                                                        *)
(***************************************************************************)

(* Every packet the two ends build is a packet.                             *)
LEMMA PacketTypes ==
  ASSUME NEW c \in Client, NEW i \in Nat, NEW s \in Nat, NEW k \in Keypair,
         NEW p \in Nat
  PROVE  /\ Meow(c) \in Message /\ Meowed(c) \in Message
         /\ Initiation(c, i) \in Message /\ Response(c, i, s) \in Message
         /\ Data("up", c, k, p) \in Message
         /\ Data("down", c, k, p) \in Message
  BY DEF Meow, Meowed, Initiation, Response, Data, Message, Keypair

(* What each kind of packet carries.                                        *)
LEMMA FieldTypes ==
  ASSUME NEW m \in Message
  PROVE  /\ m.type = "init" => m.init \in Nat
         /\ m.type = "resp" => m.init \in Nat /\ m.session \in Nat
         /\ m.type \in {"up", "down"} =>
              m.session \in Nat /\ m.counter \in Nat /\ m.packet \in Nat
  BY DEF Message

(* An exchange leaves packets in the relay.                                 *)
LEMMA ExchangeType ==
  ASSUME NEW m, NEW out \in SUBSET Message, net \subseteq Message,
         Exchange(m, out)
  PROVE  net' \subseteq Message
  BY DEF Exchange

(* Counting a delivery, whatever the packet.                                *)
LEMMA CountType ==
  ASSUME NEW got \in [Client -> [Packet -> Nat]], NEW c \in Client, NEW p
  PROVE  [got EXCEPT ![c][p] = @ + 1] \in [Client -> [Packet -> Nat]]
  <1>1. \A q \in Packet : got[c][q] + 1 \in Nat
    OBVIOUS
  <1>2. [got[c] EXCEPT ![p] = @ + 1] \in [Packet -> Nat]
    BY <1>1
  <1>3. QED
    BY <1>2

(* The type invariant is inductive.                                         *)
THEOREM TypeCorrect == Spec => []TypeOK
<1>1. Init => TypeOK
  BY NewEngineType, BoundsAssumption DEF Init, TypeOK, Phases
<1>2. TypeOK /\ [Next]_vars => TypeOK'
  <2> SUFFICES ASSUME TypeOK, [Next]_vars PROVE TypeOK'
    OBVIOUS
  <2> USE BoundsAssumption DEF TypeOK, clientVars, serverVars, trafficVars,
                               boundVars, Phases
  <2>1. ASSUME NEW c \in Client, ClientStart(c) PROVE TypeOK'
    BY <2>1, NewEngineType DEF ClientStart
  <2>2. ASSUME NEW c \in Client, SendMeow(c) PROVE TypeOK'
    BY <2>2, Meow(c) \in Message DEF SendMeow, Meow, Message
  <2>3. ASSUME NEW c \in Client, ReceiveMeowed(c) PROVE TypeOK'
    BY <2>3 DEF ReceiveMeowed, Exchange
  <2>4. ASSUME NEW c \in Client, SendInitiation(c) PROVE TypeOK'
    <3>1. initiated'[c] \in Nat
      BY <2>4 DEF SendInitiation
    <3>2. Initiate(client[c], initiated'[c]) \in Engine
      BY <3>1, InitiateType
    <3>3. Initiation(c, initiated'[c]) \in Message
      BY <3>1 DEF Initiation, Message
    <3>4. QED
      BY <2>4, <3>1, <3>2, <3>3 DEF SendInitiation
  <2>5. ASSUME NEW c \in Client, ReceiveResponse(c) PROVE TypeOK'
    <3>1. PICK m \in net : ReceiveResponse(c)!(m)
      BY <2>5 DEF ReceiveResponse
    <3>2. m.session \in Nat
      BY <3>1, FieldTypes
    <3>3. AcceptResponse(client[c], m.session) \in Engine
      BY <3>2, HandshakeType
    <3>4. QED
      BY <3>1, <3>2, <3>3 DEF Exchange
  <2>6. ASSUME NEW c \in Client, Deadline(c) PROVE TypeOK'
    BY <2>6 DEF Deadline
  <2>7. ASSUME NEW c \in Client, ClientExit(c) PROVE TypeOK'
    BY <2>7 DEF ClientExit
  <2>8. ASSUME NEW c \in Client, ClientSend(c) PROVE TypeOK'
    <3>1. upSent'[c] \in 0..MaxPackets
      BY <2>8 DEF ClientSend
    <3>2. Data("up", c, SendKeypair(client[c]), upSent'[c]) \in Message
      BY <3>1, SendType, PacketTypes
    <3>3. CountSent(client[c]) \in Engine
      BY SendType
    <3>4. QED
      BY <2>8, <3>1, <3>2, <3>3 DEF ClientSend
  <2>9. ASSUME NEW c \in Client, ReceiveDown(c) PROVE TypeOK'
    <3>1. PICK m \in net : ReceiveDown(c)!(m)
      BY <2>9 DEF ReceiveDown
    <3>2. PICK slot \in Receivers(client[c], m.session, m.counter) :
            client' = [client EXCEPT ![c] = AcceptData(@, slot, m.counter)]
      BY <3>1
    <3>3. AcceptData(client[c], slot, m.counter) \in Engine
      BY <3>1, <3>2, FieldTypes, ReceiversType, AcceptDataType
    <3>4. downGot' \in [Client -> [Packet -> Nat]]
      BY <3>1, CountType
    <3>5. QED
      BY <3>1, <3>2, <3>3, <3>4 DEF Exchange
  <2>10. ASSUME NEW c \in Client, ClientIgnores(c) PROVE TypeOK'
    BY <2>10 DEF ClientIgnores, Exchange
  <2>11. ASSUME NEW c \in Client, ClientKeypairExpires(c) PROVE TypeOK'
    <3>1. PICK slot \in Slots : ClientKeypairExpires(c)!(slot)
      BY <2>11 DEF ClientKeypairExpires
    <3>2. [client[c] EXCEPT !.keys[slot].expired = TRUE] \in Engine
      BY ExpireType
    <3>3. client' = [client EXCEPT ![c] = [@ EXCEPT !.keys[slot].expired =
        TRUE]]
      BY <3>1
    <3>4. QED
      BY <3>1, <3>2, <3>3
  <2>12. ASSUME NEW c \in Client, ServerMeow(c) PROVE TypeOK'
    <3>1. {Meowed(c)} \in SUBSET Message
      BY DEF Meowed, Message
    <3>2. QED
      BY <2>12, <3>1, ExchangeType DEF ServerMeow
  <2>13. ASSUME NEW c \in Client, ServerInitiation(c) PROVE TypeOK'
    <3>1. PICK m \in net : ServerInitiation(c)!(m)
      BY <2>13 DEF ServerInitiation
    <3>2. m.init \in Nat /\ created' \in Nat
      BY <3>1, FieldTypes
    <3>3. AcceptInitiation(server[c], m.init, created') \in Engine
      BY <3>2, HandshakeType
    <3>4. {Response(c, m.init, created')} \in SUBSET Message
      BY <3>2 DEF Response, Message
    <3>5. QED
      BY <3>1, <3>2, <3>3, <3>4, ExchangeType
  <2>14. ASSUME NEW c \in Client, ServerUp(c) PROVE TypeOK'
    <3>1. PICK m \in net : ServerUp(c)!(m)
      BY <2>14 DEF ServerUp
    <3>2. PICK slot \in Receivers(server[c], m.session, m.counter) :
            server' = [server EXCEPT ![c] = AcceptData(@, slot, m.counter)]
      BY <3>1
    <3>3. AcceptData(server[c], slot, m.counter) \in Engine
      BY <3>1, <3>2, FieldTypes, ReceiversType, AcceptDataType
    <3>4. upGot' \in [Client -> [Packet -> Nat]]
      BY <3>1, CountType
    <3>5. QED
      BY <3>1, <3>2, <3>3, <3>4 DEF Exchange
  <2>15. ASSUME NEW c \in Client, ServerIgnores(c) PROVE TypeOK'
    BY <2>15 DEF ServerIgnores, Exchange
  <2>16. ASSUME NEW c \in Client, ServerSend(c) PROVE TypeOK'
    <3>1. downSent'[c] \in 0..MaxPackets
      BY <2>16 DEF ServerSend
    <3>2. Data("down", c, SendKeypair(server[c]), downSent'[c]) \in Message
      BY <3>1, SendType, PacketTypes
    <3>3. CountSent(server[c]) \in Engine
      BY SendType
    <3>4. QED
      BY <2>16, <3>1, <3>2, <3>3 DEF ServerSend
  <2>17. ASSUME NEW c \in Client, ServerKeypairExpires(c) PROVE TypeOK'
    <3>1. PICK slot \in Slots : ServerKeypairExpires(c)!(slot)
      BY <2>17 DEF ServerKeypairExpires
    <3>2. [server[c] EXCEPT !.keys[slot].expired = TRUE] \in Engine
      BY ExpireType
    <3>3. server' = [server EXCEPT ![c] = [@ EXCEPT !.keys[slot].expired =
        TRUE]]
      BY <3>1
    <3>4. QED
      BY <3>1, <3>2, <3>3
  <2>18. CASE ServerRestart
    BY <2>18, NewEngineType DEF ServerRestart
  <2>19. CASE Lose
    BY <2>19 DEF Lose
  <2>20. CASE UNCHANGED vars
    BY <2>20 DEF vars
  <2>21. QED
    BY <2>1, <2>2, <2>3, <2>4, <2>5, <2>6, <2>7, <2>8, <2>9, <2>10, <2>11,
       <2>12, <2>13, <2>14, <2>15, <2>16, <2>17, <2>18, <2>19, <2>20 DEF Next
<1>3. QED
  BY <1>1, <1>2, PTL DEF Spec

(***************************************************************************)
(* What each engine operator does to the sessions in the three slots.       *)
(***************************************************************************)

(* Two keypairs of one session in one role; the counters may differ.        *)
SameSession(k, j) == j.session = k.session /\ j.initiator = k.initiator

(* Two engines with the same handshake and the same sessions in their slots.*)
Alike(e, f) ==
  /\ f.pending = e.pending /\ f.greatest = e.greatest
  /\ \A slot \in Slots : SameSession(e.keys[slot], f.keys[slot])

(* f has seen what e has, except under slot.                                *)
Learns(e, f, slot, seen) ==
  \A s \in Slots : f.keys[s].seen = IF s = slot THEN seen ELSE e.keys[s].seen

(* keypair_update: the waiting keypair of e is the current one of f.        *)
Promotes(e, f) ==
  /\ f.pending = e.pending /\ f.greatest = e.greatest
  /\ f.keys["prev"] = e.keys["curr"]
  /\ SameSession(e.keys["next"], f.keys["curr"])
  /\ f.keys["next"] = NoKeypair

(* The parts of an engine have their types.                                 *)
LEMMA EngineParts ==
  ASSUME NEW e \in Engine
  PROVE  /\ e.pending \in Nat /\ e.greatest \in Nat
         /\ e.keys \in [Slots -> Keypair]
         /\ \A slot \in Slots : /\ e.keys[slot] \in Keypair
                                /\ e.keys[slot].session \in Nat
                                /\ e.keys[slot].seen \in SUBSET Nat
  BY DEF Engine, Keypair

(* What an engine starts with, and the keypair of a new session.            *)
LEMMA NoKeys ==
  /\ ~Valid(NoKeypair) /\ NoKeypair.session = 0
  /\ NewEngine.pending = 0 /\ NewEngine.greatest = 0
  /\ \A slot \in Slots : NewEngine.keys[slot] = NoKeypair
  /\ \A s, r : /\ NewKeypair(s, r).session = s
               /\ NewKeypair(s, r).initiator = r
               /\ NewKeypair(s, r).seen = {}
  BY DEF Valid, NoKeypair, NewEngine, NewKeypair

(* Initiating replaces the pending handshake and no keypair.                *)
LEMMA InitiateKeys ==
  ASSUME NEW e \in Engine, NEW i
  PROVE  Initiate(e, i).pending = i /\ Initiate(e, i).keys = e.keys
  BY DEF Initiate, Engine

(* Answering an initiation: a fresh responder keypair waits in next.        *)
LEMMA InitiationKeys ==
  ASSUME NEW e \in Engine, NEW i, NEW s
  PROVE  LET f == AcceptInitiation(e, i, s) IN
         /\ f.greatest = i /\ f.pending = 0
         /\ f.keys["prev"] = NoKeypair
         /\ f.keys["curr"] = e.keys["curr"]
         /\ f.keys["next"].session = s /\ ~f.keys["next"].initiator
         /\ f.keys["next"].seen = {}
  BY NoKeys DEF AcceptInitiation, StartSession, AddKeypair, Engine, Slots

(* Taking a response: a fresh initiator keypair is current.                 *)
LEMMA ResponseKeys ==
  ASSUME NEW e \in Engine, NEW s
  PROVE  LET f == AcceptResponse(e, s) IN
         /\ f.greatest = e.greatest /\ f.pending = 0
         /\ f.keys["prev"] = IF Valid(e.keys["next"]) THEN e.keys["next"]
                             ELSE e.keys["curr"]
         /\ f.keys["curr"].session = s /\ f.keys["curr"].initiator
         /\ f.keys["curr"].seen = {}
         /\ f.keys["next"] = NoKeypair
  BY NoKeys DEF AcceptResponse, StartSession, AddKeypair, Engine, Slots

(* Receiving data records its counter, and promotes next if it came under   *)
(* it.                                                                      *)
LEMMA DataKeys ==
  ASSUME NEW e \in Engine, NEW slot \in Slots, NEW n
  PROVE  LET f == AcceptData(e, slot, n)
             seen == e.keys[slot].seen \cup {n}
         IN /\ slot # "next" => Alike(e, f) /\ Learns(e, f, slot, seen)
            /\ slot = "next" => Promotes(e, f) /\ f.keys["curr"].seen = seen
  <1> DEFINE k == [e.keys[slot] EXCEPT !.seen = @ \cup {n}, !.heard = TRUE]
             heard == [e.keys EXCEPT ![slot].seen = @ \cup {n},
                                     ![slot].heard = TRUE]
             f == AcceptData(e, slot, n)
  <1>1. e.keys \in [Slots -> Keypair]
    BY DEF Engine
  <1>2. heard = [e.keys EXCEPT ![slot] = k]
    BY <1>1 DEF Keypair
  <1>3. /\ k.session = e.keys[slot].session
        /\ k.initiator = e.keys[slot].initiator
        /\ k.seen = e.keys[slot].seen \cup {n}
    BY <1>1 DEF Keypair
  <1>4. f = [e EXCEPT !.keys = KeypairUpdate(heard, slot), !.established = TRUE]
    BY DEF AcceptData
  <1>5. f.keys = KeypairUpdate(heard, slot)
    BY <1>4 DEF Engine
  <1>6. f.greatest = e.greatest /\ f.pending = e.pending
    BY <1>4 DEF Engine
  <1> HIDE DEF k, heard, f
  <1>7. ASSUME slot = "next"
        PROVE  /\ f.keys["prev"] = e.keys["curr"]
               /\ f.keys["curr"] = k
               /\ f.keys["next"] = NoKeypair
    BY <1>1, <1>2, <1>5, <1>7 DEF KeypairUpdate, Slots
  <1>8. slot # "next" => f.keys = [e.keys EXCEPT ![slot] = k]
    BY <1>2, <1>5 DEF KeypairUpdate
  <1>9. ASSUME slot # "next"
        PROVE  Alike(e, f) /\ Learns(e, f, slot, k.seen)
    BY <1>1, <1>3, <1>6, <1>8, <1>9 DEF Alike, Learns, SameSession
  <1>10. SameSession(e.keys[slot], k)
    BY <1>3 DEF SameSession
  <1>11. slot = "next" => Promotes(e, f)
    BY <1>6, <1>7, <1>10 DEF Promotes
  <1>12. QED
    BY <1>3, <1>7, <1>9, <1>11 DEF f

(* Sending changes a counter only.                                          *)
LEMMA SentAlike == 
  ASSUME NEW e \in Engine
  PROVE  /\ Alike(e, CountSent(e))
         /\ \A slot \in Slots : CountSent(e).keys[slot].seen = e.keys[slot].seen
  <1>1. SendSlot(e) \in Slots
    BY DEF SendSlot, Slots
  <1>2. CountSent(e) = [e EXCEPT !.keys = [e.keys EXCEPT ![SendSlot(e)].sent =
      @ + 1]]
    BY DEF CountSent, Engine
  <1>3. QED
    BY <1>1, <1>2 DEF Alike, SameSession, Engine, Keypair

(* So does expiry change one flag only.                                     *)
LEMMA ExpiryAlike ==
  ASSUME NEW e \in Engine, NEW slot \in Slots
  PROVE  LET f == [e EXCEPT !.keys[slot].expired = TRUE]
         IN /\ Alike(e, f)
            /\ \A s \in Slots : f.keys[s].seen = e.keys[s].seen
  <1>1. [e EXCEPT !.keys[slot].expired = TRUE]
          = [e EXCEPT !.keys = [e.keys EXCEPT ![slot].expired = TRUE]]
    BY DEF Engine
  <1>3. QED
    BY <1>1 DEF Alike, SameSession, Engine, Keypair

(***************************************************************************)
(* Sessions: which responses the two ends have installed.                   *)
(***************************************************************************)

(* One of the responses R gave client c session s.                          *)
Answered(R, c, s) == \E r \in R : r.client = c /\ r.session = s

(* A client's keypair is one it initiated, of a session it installed.       *)
Initiates(k, mine) == Valid(k) => k.initiator /\ k.session \in mine

(* A client never has a keypair in next: it is always the initiator.        *)
ClientHolds(e, mine) ==
  /\ Initiates(e.keys["prev"], mine)
  /\ Initiates(e.keys["curr"], mine)
  /\ ~Valid(e.keys["next"])

(* A server's keypair for c is a responder's, of a session it gave c.       *)
Responds(R, c, k) == Valid(k) => ~k.initiator /\ Answered(R, c, k.session)

(* The client has installed the session of the keypair.                     *)
Confirmed(k, mine) == Valid(k) => k.session \in mine

(* Only the keypair in next may be one the client does not have yet.        *)
ServerHolds(R, c, e, mine) ==
  /\ \A slot \in Slots : Responds(R, c, e.keys[slot])
  /\ Confirmed(e.keys["prev"], mine)
  /\ Confirmed(e.keys["curr"], mine)

(* A client in phase ph that has created n initiations awaits a response to *)
(* the newest or to none; once up it runs the session of the response to the*)
(* newest, and a session it has installed answers an older initiation than  *)
(* the one it awaits.                                                       *)
Waiting(R, c, ph, e, n, mine) ==
  /\ e.pending \in {0, n}
  /\ ph = "up" =>
       /\ e.pending = 0
       /\ \E r \in R : /\ r.client = c /\ r.init = n
                       /\ r.session = e.keys["curr"].session
  /\ \A r \in R :
       r.client = c /\ r.session \in mine /\ e.pending # 0 => r.init < e.pending

(* Of the responses of this server process to c, the one to the n-th and    *)
(* newest initiation is still in next, or in curr with nothing after it.    *)
Newest(R, c, e, n, base) ==
  \A r \in R :
    r.client = c /\ r.session > base =>
      /\ r.init <= e.greatest
      /\ r.init = n => \/ e.keys["next"].session = r.session
                       \/ /\ e.keys["curr"].session = r.session
                          /\ ~Valid(e.keys["next"])

(* A response answers an initiation that was created, and no two share a    *)
(* session.                                                                 *)
Responses ==
  /\ \A r \in responses : /\ r.type = "resp" /\ r.session \in 1..created
                          /\ r.init \in 1..initiated[r.client]
  /\ \A r, q \in responses : r.session = q.session => r = q

(* Packets in the relay: responses that were created, initiations that were *)
(* created, and data under sessions their client has installed.             *)
Wire ==
  \A m \in net :
    /\ m.type = "resp" => m \in responses
    /\ m.type = "init" => m.init \in 1..initiated[m.client]
    /\ m.type \in {"up", "down"} => m.session \in installed[m.client]

(* The two ends of client c.                                                *)
Peer(c) ==
  /\ \A s \in installed[c] : Answered(responses, c, s)
  /\ ClientHolds(client[c], installed[c])
  /\ ServerHolds(responses, c, server[c], installed[c])
  /\ Waiting(responses, c, phase[c], client[c], initiated[c], installed[c])
  /\ Newest(responses, c, server[c], initiated[c], epoch)

(* The inductive invariant about sessions.                                  *)
Agreed == Responses /\ Wire /\ \A c \in Client : Peer(c)

(* The three slots.                                                         *)
LEMMA SlotNames == "prev" \in Slots /\ "curr" \in Slots /\ "next" \in Slots
  BY DEF Slots

(* Alike engines hold the same promises.                                    *)
LEMMA AlikeHolds ==
  ASSUME NEW e, NEW f, Alike(e, f)
  PROVE  /\ \A mine : ClientHolds(e, mine) => ClientHolds(f, mine)
         /\ \A R, c, mine : ServerHolds(R, c, e, mine)
              => ServerHolds(R, c, f, mine)
         /\ \A R, c, ph, n, mine :
              Waiting(R, c, ph, e, n, mine) => Waiting(R, c, ph, f, n, mine)
         /\ \A R, c, n, base : Newest(R, c, e, n, base)
              => Newest(R, c, f, n, base)
  <1>1. \A slot \in Slots :
          /\ Valid(e.keys[slot]) => Valid(f.keys[slot])
          /\ Valid(f.keys[slot]) => Valid(e.keys[slot])
          /\ \A mine : /\ Initiates(e.keys[slot], mine)
                            => Initiates(f.keys[slot], mine)
                       /\ Confirmed(e.keys[slot], mine)
                            => Confirmed(f.keys[slot], mine)
          /\ \A R, c : Responds(R, c, e.keys[slot])
               => Responds(R, c, f.keys[slot])
    BY DEF Alike, SameSession, Valid, Initiates, Confirmed, Responds
  <1>2. /\ \A mine : ClientHolds(e, mine) => ClientHolds(f, mine)
        /\ \A R, c, mine : ServerHolds(R, c, e, mine)
             => ServerHolds(R, c, f, mine)
    BY <1>1, SlotNames DEF ClientHolds, ServerHolds
  <1>3. \A R, c, ph, n, mine :
              Waiting(R, c, ph, e, n, mine) => Waiting(R, c, ph, f, n, mine)
    BY SlotNames DEF Alike, SameSession, Waiting
  <1>4. \A R, c, n, base : Newest(R, c, e, n, base) => Newest(R, c, f, n, base)
    BY SlotNames, <1>1 DEF Alike, SameSession, Newest
  <1>5. QED
    BY <1>2, <1>3, <1>4

(* A response to another client disturbs none of them.                      *)
LEMMA OthersAnswered ==
  ASSUME NEW R, NEW Q, NEW c, R \subseteq Q,
         \A r \in Q : r.client = c => r \in R
  PROVE  /\ \A s : Answered(R, c, s) => Answered(Q, c, s)
         /\ \A e, mine : ServerHolds(R, c, e, mine)
              => ServerHolds(Q, c, e, mine)
         /\ \A ph, e, n, mine :
              Waiting(R, c, ph, e, n, mine) => Waiting(Q, c, ph, e, n, mine)
         /\ \A e, n, base : Newest(R, c, e, n, base) => Newest(Q, c, e, n, base)
  <1>1. \A s : Answered(R, c, s) => Answered(Q, c, s)
    BY DEF Answered
  <1>2. \A e, mine : ServerHolds(R, c, e, mine) => ServerHolds(Q, c, e, mine)
    BY <1>1 DEF ServerHolds, Responds
  <1>3. \A ph, e, n, mine :
              Waiting(R, c, ph, e, n, mine) => Waiting(Q, c, ph, e, n, mine)
    BY DEF Waiting
  <1>4. QED
    BY <1>1, <1>2, <1>3 DEF Newest

(* What a response carries.                                                 *)
LEMMA ResponseTypes ==
  ASSUME TypeOK, Responses
  PROVE  \A r \in responses :
           /\ r.client \in Client /\ r.session \in Nat \ {0}
           /\ r.session <= created
           /\ r.init \in Nat \ {0} /\ r.init <= initiated[r.client]
           /\ initiated[r.client] \in Nat
  BY DEF TypeOK, Responses, Message

(* A client that takes a response still holds only what it initiated.       *)
LEMMA ClientHoldsNew ==
  ASSUME NEW e \in Engine, NEW mine, ClientHolds(e, mine), NEW s
  PROVE  ClientHolds(AcceptResponse(e, s), mine \cup {s})
  <1> DEFINE f == AcceptResponse(e, s)
  <1>1. ~Valid(e.keys["next"]) /\ Initiates(e.keys["curr"], mine)
    BY DEF ClientHolds
  <1>2. /\ f.keys["prev"] = e.keys["curr"]
        /\ f.keys["curr"].session = s /\ f.keys["curr"].initiator
        /\ f.keys["next"] = NoKeypair
    BY <1>1, ResponseKeys
  <1> HIDE DEF f
  <1>3. Initiates(f.keys["prev"], mine \cup {s})
    BY <1>1, <1>2 DEF Initiates
  <1>4. Initiates(f.keys["curr"], mine \cup {s})
    BY <1>2 DEF Initiates
  <1>5. ~Valid(f.keys["next"])
    BY <1>2, NoKeys
  <1>6. QED
    BY <1>3, <1>4, <1>5 DEF ClientHolds, f

(* A server that answers still holds unconfirmed only what is in next.      *)
LEMMA ServerHoldsNew ==
  ASSUME NEW e \in Engine, NEW R, NEW Q, R \subseteq Q, NEW c, NEW mine,
         ServerHolds(R, c, e, mine), NEW i, NEW s, Answered(Q, c, s)
  PROVE  ServerHolds(Q, c, AcceptInitiation(e, i, s), mine)
  <1> DEFINE f == AcceptInitiation(e, i, s)
  <1>1. /\ f.keys["prev"] = NoKeypair
        /\ f.keys["curr"] = e.keys["curr"]
        /\ f.keys["next"].session = s /\ ~f.keys["next"].initiator
    BY InitiationKeys
  <1> HIDE DEF f
  <1>2. Responds(Q, c, f.keys["prev"]) /\ Confirmed(f.keys["prev"], mine)
    BY <1>1, NoKeys DEF Responds, Confirmed
  <1>3. \A t : Answered(R, c, t) => Answered(Q, c, t)
    BY DEF Answered
  <1>4. Responds(Q, c, f.keys["curr"]) /\ Confirmed(f.keys["curr"], mine)
    BY <1>1, <1>3, SlotNames DEF ServerHolds, Responds
  <1>5. Responds(Q, c, f.keys["next"])
    BY <1>1 DEF Responds
  <1>6. QED
    BY <1>2, <1>4, <1>5 DEF ServerHolds, Slots, f

(* Data under a session of the client confirms it before it is promoted.    *)
LEMMA ServerHoldsUsed ==
  ASSUME NEW e \in Engine, NEW R, NEW c, NEW mine, ServerHolds(R, c, e, mine),
         NEW slot \in Slots, Valid(e.keys[slot]), e.keys[slot].session \in mine,
         NEW n
  PROVE  ServerHolds(R, c, AcceptData(e, slot, n), mine)
  <1> DEFINE f == AcceptData(e, slot, n)
  <1>1. CASE slot # "next"
    BY <1>1, DataKeys, AlikeHolds
  <1>2. CASE slot = "next"
    <2>1. /\ f.keys["prev"] = e.keys["curr"]
          /\ SameSession(e.keys["next"], f.keys["curr"])
          /\ f.keys["next"] = NoKeypair
      BY <1>2, DataKeys, ZenonT(60) DEF Promotes
    <2> HIDE DEF f
    <2>2. Responds(R, c, f.keys["prev"]) /\ Confirmed(f.keys["prev"], mine)
      BY <2>1, SlotNames DEF ServerHolds
    <2>3. Responds(R, c, f.keys["curr"]) /\ Confirmed(f.keys["curr"], mine)
      BY <1>2, <2>1, SlotNames DEF ServerHolds, SameSession, Responds,
          Confirmed, Valid
    <2>4. Responds(R, c, f.keys["next"])
      BY <2>1, NoKeys DEF Responds
    <2>5. QED
      BY <2>2, <2>3, <2>4 DEF ServerHolds, Slots, f
  <1>3. QED
    BY <1>1, <1>2

(* Receiving data keeps the newest session in curr or next.                 *)
LEMMA NewestUsed ==
  ASSUME NEW e \in Engine, NEW R, NEW c, NEW n, NEW base, Newest(R, c, e, n,
      base),
         NEW slot \in Slots, Valid(e.keys[slot]), NEW k,
         \A r \in R : r.session # 0
  PROVE  Newest(R, c, AcceptData(e, slot, k), n, base)
  <1> DEFINE f == AcceptData(e, slot, k)
  <1>1. CASE slot # "next"
    BY <1>1, DataKeys, AlikeHolds
  <1>2. CASE slot = "next"
    <2>1. Promotes(e, f)
      BY <1>2, DataKeys
    <2> HIDE DEF f
    <2>2. Newest(R, c, f, n, base)
      BY <1>2, <2>1, NoKeys DEF Promotes, SameSession, Newest
    <2>3. QED
      BY <2>2 DEF f
  <1>3. QED
    BY <1>1, <1>2

(* Every step of the data plane keeps the ends agreed.                      *)
LEMMA AgreedStep ==
  ASSUME TypeOK, Agreed, [Next]_vars, TypeOK'
  PROVE  Agreed'
<1> USE DEF clientVars, serverVars, trafficVars, boundVars
<1>t. /\ client \in [Client -> Engine] /\ server \in [Client -> Engine]
      /\ phase \in [Client -> Phases] /\ installed \in [Client -> SUBSET Nat]
      /\ initiated \in [Client -> Nat] /\ created \in Nat /\ epoch \in Nat
  BY DEF TypeOK
<1>m. \A m \in net : m.client \in Client
  BY DEF TypeOK, Message
<1>r. \A r \in responses :
        /\ r.client \in Client /\ r.session \in Nat \ {0}
        /\ r.session <= created
        /\ r.init \in Nat \ {0} /\ r.init <= initiated[r.client]
  BY ResponseTypes DEF Agreed
<1>a. Responses /\ Wire /\ \A c \in Client : Peer(c)
  BY DEF Agreed
<1> DEFINE Frame == UNCHANGED <<phase, client, server, created, initiated,
    installed, responses, epoch>>
<1>0. ASSUME Frame, \A m \in net' : m \in net \/ m.type \in {"meow", "meowed"}
      PROVE Agreed'
  <2>1. Wire'
    BY <1>0, <1>a DEF Wire
  <2>2. QED
    BY <1>0, <1>a, <2>1 DEF Agreed, Responses, Peer
<1> HIDE DEF Frame
<1>1. ASSUME NEW c \in Client, ClientStart(c) PROVE Agreed'
  <2>1. /\ phase' = [phase EXCEPT ![c] = "meow"]
        /\ client' = [client EXCEPT ![c] = NewEngine]
        /\ UNCHANGED <<net, initiated, installed, server, created, responses,
             epoch>>
    BY <1>1 DEF ClientStart
  <2>2. ClientHolds(NewEngine, installed[c])
    BY NoKeys, SlotNames DEF ClientHolds, Initiates
  <2>3. Waiting(responses, c, "meow", NewEngine, initiated[c], installed[c])
    BY NoKeys DEF Waiting
  <2>4. ASSUME NEW d \in Client PROVE Peer(d)'
    BY <1>a, <1>t, <2>1, <2>2, <2>3 DEF Peer
  <2>5. QED
    BY <1>a, <2>1, <2>4 DEF Agreed, Responses, Wire
<1>2. ASSUME NEW c \in Client,
             SendMeow(c) \/ ReceiveMeowed(c) \/ Deadline(c) \/ ClientExit(c)
      PROVE Agreed'
  <2>1. /\ \A m \in net' : m \in net \/ m.type = "meow"
        /\ \A d \in Client : phase'[d] = "up" => phase[d] = "up"
        /\ UNCHANGED <<client, initiated, installed, server, created,
             responses, epoch>>
    BY <1>2, <1>t DEF SendMeow, ReceiveMeowed, Deadline, ClientExit, Exchange,
        Meow
  <2>2. \A d \in Client :
          Waiting(responses, d, phase[d], client[d], initiated[d], installed[d])
            => Waiting(responses, d, phase'[d], client[d], initiated[d],
                installed[d])
    BY <2>1 DEF Waiting
  <2>3. Wire'
    BY <1>a, <2>1 DEF Wire
  <2>4. QED
    BY <1>a, <2>1, <2>2, <2>3 DEF Agreed, Responses, Peer
<1>3. ASSUME NEW c \in Client, SendInitiation(c) PROVE Agreed'
  <2> DEFINE i == initiated[c] + 1
             f == Initiate(client[c], i)
  <2>1. /\ initiated' = [initiated EXCEPT ![c] = i]
        /\ client' = [client EXCEPT ![c] = f]
        /\ net' = net \cup {Initiation(c, i)}
        /\ phase[c] = "handshake"
        /\ UNCHANGED <<phase, installed, server, created, responses, epoch>>
    BY <1>3, <1>t DEF SendInitiation
  <2>2. f.pending = i /\ f.keys = client[c].keys
    BY <1>t, InitiateKeys
  <2>3. i \in Nat \ {0} /\ initiated[c] < i /\ initiated[c] \in Nat
    BY <1>t
  <2> HIDE DEF f, i
  <2>4. Responses'
    <3>1. \A d \in Client : initiated[d] \in Nat /\ initiated'[d] \in Nat
        /\ initiated[d] <= initiated'[d]
      BY <1>t, <2>1, <2>3
    <3>2. QED
      BY <1>a, <1>r, <2>1, <3>1 DEF Responses
  <2>5. Wire'
    <3>1. \A d \in Client : initiated[d] \in Nat /\ initiated'[d] \in Nat
        /\ initiated[d] <= initiated'[d]
      BY <1>t, <2>1, <2>3
    <3>2. initiated'[c] = i
      BY <1>t, <2>1
    <3>3. /\ Initiation(c, i).type = "init" /\ Initiation(c, i).client = c
          /\ Initiation(c, i).init = i
      BY DEF Initiation
    <3>4. \A m \in net : m.type = "init" => m.init \in 1..initiated'[m.client]
      BY <1>a, <1>m, <3>1 DEF Wire
    <3>5. QED
      BY <1>a, <2>1, <2>3, <3>2, <3>3, <3>4 DEF Wire
  <2>6. Peer(c)'
    <3>1. /\ initiated'[c] = i /\ client'[c] = f /\ server'[c] = server[c]
          /\ phase'[c] = "handshake" /\ installed'[c] = installed[c]
      BY <1>t, <2>1
    <3>2. ClientHolds(f, installed[c])
      BY <1>a, <2>2 DEF Peer, ClientHolds
    <3>3. Waiting(responses, c, "handshake", f, i, installed[c])
      BY <1>r, <2>2, <2>3 DEF Waiting
    <3>4. Newest(responses, c, server[c], i, epoch)
      BY <1>a, <1>r, <2>3 DEF Peer, Newest
    <3>5. QED
      BY <1>a, <2>1, <3>1, <3>2, <3>3, <3>4 DEF Peer
  <2>7. ASSUME NEW d \in Client, d # c PROVE Peer(d)'
    BY <1>a, <1>t, <2>1, <2>7 DEF Peer
  <2>8. QED
    BY <2>4, <2>5, <2>6, <2>7 DEF Agreed
<1>4. ASSUME NEW c \in Client, ReceiveResponse(c) PROVE Agreed'
  <2>1. PICK m \in net : ReceiveResponse(c)!(m)
    BY <1>4 DEF ReceiveResponse
  <2> DEFINE f == AcceptResponse(client[c], m.session)
  <2>2. /\ client' = [client EXCEPT ![c] = f]
        /\ installed' = [installed EXCEPT ![c] = @ \cup {m.session}]
        /\ phase' = [phase EXCEPT ![c] = "up"]
        /\ net' \subseteq net
        /\ UNCHANGED <<initiated, server, created, responses, epoch>>
    BY <2>1 DEF Exchange
  <2>3. f.pending = 0 /\ f.keys["curr"].session = m.session
    BY <1>t, ResponseKeys
  <2>4. m \in responses /\ m.client = c /\ m.init = initiated[c]
    BY <1>a, <2>1 DEF Wire, MatchesPending, Peer, Waiting
  <2>5. ClientHolds(f, installed[c] \cup {m.session})
    BY <1>a, <1>t, ClientHoldsNew DEF Peer
  <2> HIDE DEF f
  <2>6. Waiting(responses, c, "up", f, initiated[c],
      installed[c] \cup {m.session})
    BY <2>3, <2>4 DEF Waiting
  <2>7. ServerHolds(responses, c, server[c], installed[c] \cup {m.session})
    BY <1>a DEF Peer, ServerHolds, Confirmed
  <2>8. \A s \in installed[c] \cup {m.session} : Answered(responses, c, s)
    BY <1>a, <2>4 DEF Peer, Answered
  <2>9. Peer(c)'
    <3>1. /\ client'[c] = f /\ phase'[c] = "up"
          /\ installed'[c] = installed[c] \cup {m.session}
      BY <1>t, <2>2
    <3>2. QED
      BY <1>a, <2>2, <2>5, <2>6, <2>7, <2>8, <3>1 DEF Peer
  <2>10. ASSUME NEW d \in Client, d # c PROVE Peer(d)'
    BY <1>a, <1>t, <2>2, <2>10 DEF Peer
  <2>11. Wire'
    BY <1>a, <1>t, <1>m, <2>2 DEF Wire
  <2>12. QED
    BY <1>a, <2>2, <2>9, <2>10, <2>11 DEF Agreed, Responses
<1>5. ASSUME NEW c \in Client, ClientSend(c) PROVE Agreed'
  <2> DEFINE f == CountSent(client[c])
             k == SendKeypair(client[c])
  <2>1. /\ client' = [client EXCEPT ![c] = f]
        /\ net' = net \cup {Data("up", c, k, upSent'[c])}
        /\ UNCHANGED <<phase, initiated, installed, server, created, responses,
             epoch>>
    BY <1>5 DEF ClientSend
  <2>2. k.session \in installed[c]
    <3>1. ClientHolds(client[c], installed[c])
      BY <1>a, SMTT(20) DEF Peer
    <3>2. Valid(k) /\ k \in {client[c].keys["prev"], client[c].keys["curr"]}
      BY <1>5 DEF ClientSend, CanEncrypt, SendKeypair, SendSlot
    <3>3. QED
      BY <3>1, <3>2 DEF ClientHolds, Initiates
  <2>3. Alike(client[c], f)
    BY <1>t, SentAlike
  <2> HIDE DEF f, k
  <2>4. Wire'
    BY <1>a, <2>1, <2>2 DEF Wire, Data
  <2>5. ASSUME NEW d \in Client PROVE Peer(d)'
    BY <1>a, <1>t, <2>1, <2>3, AlikeHolds DEF Peer
  <2>6. QED
    BY <1>a, <2>1, <2>4, <2>5 DEF Agreed, Responses
<1>6. ASSUME NEW c \in Client, ReceiveDown(c) PROVE Agreed'
  <2>1. PICK m \in net : ReceiveDown(c)!(m)
    BY <1>6 DEF ReceiveDown
  <2>2. PICK slot \in Receivers(client[c], m.session, m.counter) :
            client' = [client EXCEPT ![c] = AcceptData(@, slot, m.counter)]
    BY <2>1
  <2> DEFINE f == AcceptData(client[c], slot, m.counter)
  <2>3. slot \in Slots /\ slot # "next"
    BY <1>a, <2>2 DEF Receivers, Peer, ClientHolds
  <2>4. Alike(client[c], f)
    BY <1>t, <2>3, DataKeys
  <2>5. /\ client' = [client EXCEPT ![c] = f]
        /\ net' \subseteq net
        /\ UNCHANGED <<phase, initiated, installed, server, created, responses,
             epoch>>
    BY <2>1, <2>2 DEF Exchange
  <2> HIDE DEF f
  <2>6. ASSUME NEW d \in Client PROVE Peer(d)'
    BY <1>a, <1>t, <2>4, <2>5, AlikeHolds DEF Peer
  <2>7. QED
    BY <1>a, <2>5, <2>6 DEF Agreed, Responses, Wire
<1>7. ASSUME NEW c \in Client,
    ClientIgnores(c) \/ ServerIgnores(c) PROVE Agreed'
  BY <1>0, <1>7 DEF ClientIgnores, ServerIgnores, Exchange, Frame
<1>8. ASSUME NEW c \in Client, ClientKeypairExpires(c) PROVE Agreed'
  <2>1. PICK slot \in Slots : ClientKeypairExpires(c)!(slot)
    BY <1>8 DEF ClientKeypairExpires
  <2> DEFINE f == [client[c] EXCEPT !.keys[slot].expired = TRUE]
  <2>2. Alike(client[c], f)
    BY <1>t, ExpiryAlike
  <2>3. /\ client' = [client EXCEPT ![c] = f]
        /\ UNCHANGED <<net, phase, initiated, installed, server, created,
             responses, epoch>>
    BY <2>1
  <2> HIDE DEF f
  <2>4. ASSUME NEW d \in Client PROVE Peer(d)'
    BY <1>a, <1>t, <2>2, <2>3, AlikeHolds DEF Peer
  <2>5. QED
    BY <1>a, <2>3, <2>4 DEF Agreed, Responses, Wire
<1>9. ASSUME NEW c \in Client, ServerMeow(c) PROVE Agreed'
  BY <1>0, <1>9 DEF ServerMeow, Exchange, Meowed, Frame
<1>10. ASSUME NEW c \in Client, ServerInitiation(c) PROVE Agreed'
  <2>1. PICK m \in net : ServerInitiation(c)!(m)
    BY <1>10 DEF ServerInitiation
  <2> DEFINE s == created + 1
             f == AcceptInitiation(server[c], m.init, s)
             r0 == Response(c, m.init, s)
             Q == responses \cup {r0}
  <2>2. /\ server' = [server EXCEPT ![c] = f]
        /\ created' = s
        /\ responses' = Q
        /\ net' \subseteq net \cup {r0}
        /\ UNCHANGED <<phase, client, initiated, installed, epoch>>
    BY <2>1 DEF Exchange
  <2>3. f.greatest = m.init /\ f.keys["next"].session = s
    BY <1>t, InitiationKeys
  <2>4. /\ r0.type = "resp" /\ r0.client = c /\ r0.init = m.init
        /\ r0.session = s /\ r0 \in Q
    BY DEF Response
  <2>5. /\ m.init \in Nat \ {0} /\ m.init <= initiated[c]
        /\ m.init > server[c].greatest
    BY <1>a, <1>t, <2>1 DEF Wire, FreshInitiation
  <2>6. ServerHolds(Q, c, f, installed[c])
    <3>1. Answered(Q, c, s)
      BY <2>4 DEF Answered
    <3>2. QED
      BY <1>a, <1>t, <3>1, ServerHoldsNew DEF Peer
  <2>7. s \in Nat /\ s > created
    BY <1>t
  <2> HIDE DEF f, r0, s
  <2>8. Responses'
    BY <1>a, <1>r, <1>t, <2>2, <2>4, <2>5, <2>7 DEF Responses
  <2>9. Wire'
    BY <1>a, <2>2, <2>4 DEF Wire
  <2>10. s \notin installed[c]
    BY <1>a, <1>r, <1>t, <2>7 DEF Peer, Answered
  <2>11. Waiting(Q, c, phase[c], client[c], initiated[c], installed[c])
    BY <1>a, <2>4, <2>10 DEF Peer, Waiting
  <2>12. Newest(Q, c, f, initiated[c], epoch)
    <3> SUFFICES ASSUME NEW r \in Q, r.client = c, r.session > epoch
                 PROVE  /\ r.init <= f.greatest
                        /\ r.init = initiated[c]
                             => f.keys["next"].session = r.session
      BY DEF Newest
    <3>1. CASE r = r0
      BY <3>1, <2>3, <2>4, <2>5
    <3>2. CASE r \in responses
      <4>1. r.init <= server[c].greatest
        BY <1>a, <3>2 DEF Peer, Newest
      <4>2. r.init \in Nat /\ server[c].greatest \in Nat /\ initiated[c] \in Nat
        BY <1>r, <1>t, <3>2, EngineParts
      <4>3. QED
        BY <4>1, <4>2, <2>3, <2>5
    <3>3. QED
      BY <3>1, <3>2
  <2>13. \A t \in installed[c] : Answered(Q, c, t)
    BY <1>a DEF Peer, Answered
  <2>14. Peer(c)'
    <3>1. server'[c] = f
      BY <1>t, <2>2
    <3>2. QED
      BY <1>a, <2>2, <2>6, <2>11, <2>12, <2>13, <3>1 DEF Peer
  <2>15. ASSUME NEW d \in Client, d # c PROVE Peer(d)'
    <3>1. responses \subseteq Q /\ \A r \in Q : r.client = d => r \in responses
      BY <2>4, <2>15
    <3> HIDE DEF Q
    <3>2. server'[d] = server[d]
      BY <1>t, <2>2, <2>15
    <3>3. /\ \A t \in installed[d] : Answered(Q, d, t)
          /\ ServerHolds(Q, d, server[d], installed[d])
          /\ Newest(Q, d, server[d], initiated[d], epoch)
      BY <1>a, <3>1, OthersAnswered DEF Peer
    <3>4. Waiting(Q, d, phase[d], client[d], initiated[d], installed[d])
      BY <1>a, <3>1, OthersAnswered DEF Peer
    <3>5. QED
      BY <1>a, <2>2, <3>2, <3>3, <3>4 DEF Peer
  <2>16. QED
    BY <2>8, <2>9, <2>14, <2>15 DEF Agreed
<1>11. ASSUME NEW c \in Client, ServerUp(c) PROVE Agreed'
  <2>1. PICK m \in net : ServerUp(c)!(m)
    BY <1>11 DEF ServerUp
  <2>2. PICK slot \in Receivers(server[c], m.session, m.counter) :
            server' = [server EXCEPT ![c] = AcceptData(@, slot, m.counter)]
    BY <2>1
  <2> DEFINE f == AcceptData(server[c], slot, m.counter)
  <2>3. /\ slot \in Slots /\ Valid(server[c].keys[slot])
        /\ server[c].keys[slot].session = m.session
    BY <2>2 DEF Receivers
  <2>4. server[c].keys[slot].session \in installed[c]
    BY <1>a, <2>1, <2>3 DEF Wire
  <2>5. ServerHolds(responses, c, f, installed[c])
    BY <1>a, <1>t, <2>3, <2>4, ServerHoldsUsed DEF Peer
  <2>6. Newest(responses, c, f, initiated[c], epoch)
    <3>1. Newest(responses, c, server[c], initiated[c], epoch)
      BY <1>a DEF Peer
    <3>2. \A r \in responses : r.session # 0
      BY <1>r
    <3>3. QED
      BY <1>t, <2>3, <3>1, <3>2, NewestUsed
  <2>7. /\ server' = [server EXCEPT ![c] = f]
        /\ net' \subseteq net
        /\ UNCHANGED <<phase, client, initiated, installed, created, responses,
             epoch>>
    BY <2>1, <2>2 DEF Exchange
  <2> HIDE DEF f
  <2>8. ASSUME NEW d \in Client PROVE Peer(d)'
    BY <1>a, <1>t, <2>5, <2>6, <2>7 DEF Peer
  <2>9. QED
    BY <1>a, <2>7, <2>8 DEF Agreed, Responses, Wire
<1>12. ASSUME NEW c \in Client, ServerSend(c) PROVE Agreed'
  <2> DEFINE f == CountSent(server[c])
             k == SendKeypair(server[c])
  <2>1. /\ server' = [server EXCEPT ![c] = f]
        /\ net' = net \cup {Data("down", c, k, downSent'[c])}
        /\ UNCHANGED <<phase, client, initiated, installed, created, responses,
             epoch>>
    BY <1>12 DEF ServerSend
  <2>2. k.session \in installed[c]
    <3>1. ServerHolds(responses, c, server[c], installed[c])
      BY <1>a, SMTT(20) DEF Peer
    <3>2. Valid(k) /\ k \in {server[c].keys["prev"], server[c].keys["curr"]}
      BY <1>12 DEF ServerSend, CanEncrypt, SendKeypair, SendSlot
    <3>3. QED
      BY <3>1, <3>2 DEF ServerHolds, Confirmed
  <2>3. Alike(server[c], f)
    BY <1>t, SentAlike
  <2> HIDE DEF f, k
  <2>4. Wire'
    BY <1>a, <2>1, <2>2 DEF Wire, Data
  <2>5. ASSUME NEW d \in Client PROVE Peer(d)'
    BY <1>a, <1>t, <2>1, <2>3, AlikeHolds DEF Peer
  <2>6. QED
    BY <1>a, <2>1, <2>4, <2>5 DEF Agreed, Responses
<1>13. ASSUME NEW c \in Client, ServerKeypairExpires(c) PROVE Agreed'
  <2>1. PICK slot \in Slots : ServerKeypairExpires(c)!(slot)
    BY <1>13 DEF ServerKeypairExpires
  <2> DEFINE f == [server[c] EXCEPT !.keys[slot].expired = TRUE]
  <2>2. Alike(server[c], f)
    BY <1>t, ExpiryAlike
  <2>3. /\ server' = [server EXCEPT ![c] = f]
        /\ UNCHANGED <<net, phase, client, initiated, installed, created,
             responses, epoch>>
    BY <2>1
  <2> HIDE DEF f
  <2>4. ASSUME NEW d \in Client PROVE Peer(d)'
    BY <1>a, <1>t, <2>2, <2>3, AlikeHolds DEF Peer
  <2>5. QED
    BY <1>a, <2>3, <2>4 DEF Agreed, Responses, Wire
<1>14. CASE ServerRestart
  <2>1. /\ \A d \in Client : server'[d] = NewEngine
        /\ epoch' = created
        /\ UNCHANGED <<net, phase, client, initiated, installed, created,
             responses>>
    BY <1>14 DEF ServerRestart
  <2>2. ASSUME NEW d \in Client
        PROVE  /\ ServerHolds(responses, d, NewEngine, installed[d])
               /\ Newest(responses, d, NewEngine, initiated[d], created)
    <3>1. ServerHolds(responses, d, NewEngine, installed[d])
      BY NoKeys, SlotNames DEF ServerHolds, Responds, Confirmed
    <3>2. QED
      BY <1>r, <1>t, <3>1 DEF Newest
  <2>3. ASSUME NEW d \in Client PROVE Peer(d)'
    BY <1>a, <2>1, <2>2 DEF Peer
  <2>4. QED
    BY <1>a, <2>1, <2>3 DEF Agreed, Responses, Wire
<1>15. CASE Lose
  BY <1>0, <1>15 DEF Lose, Frame
<1>16. CASE UNCHANGED vars
  BY <1>0, <1>16 DEF vars, Frame
<1>17. QED
  BY <1>1, <1>2, <1>3, <1>4, <1>5, <1>6, <1>7, <1>8, <1>9, <1>10, <1>11, <1>12,
     <1>13, <1>14, <1>15, <1>16 DEF Next

(* They are at the start.                                                   *)
LEMMA AgreedInit == Init => Agreed
  <1> SUFFICES ASSUME Init PROVE Agreed
    OBVIOUS
  <1>1. Responses /\ Wire
    BY DEF Init, Responses, Wire
  <1>2. ASSUME NEW c \in Client PROVE Peer(c)
    <2>1. /\ client[c] = NewEngine /\ server[c] = NewEngine /\ phase[c] = "off"
          /\ initiated[c] = 0 /\ installed[c] = {} /\ responses = {}
      BY DEF Init
    <2>2. ClientHolds(NewEngine, {}) /\ ServerHolds({}, c, NewEngine, {})
      BY NoKeys, SlotNames DEF ClientHolds, Initiates, ServerHolds, Responds,
          Confirmed
    <2>3. Waiting({}, c, "off", NewEngine, 0, {}) /\ Newest({}, c, NewEngine,
        0, epoch)
      BY NoKeys DEF Waiting, Newest
    <2>4. QED
      BY <2>1, <2>2, <2>3 DEF Peer
  <1>3. QED
    BY <1>1, <1>2 DEF Agreed

(* The inductive invariant holds.                                           *)
THEOREM SessionsAgreed == Spec => []Agreed
<1>1. TypeOK /\ Agreed /\ [Next]_vars /\ TypeOK' => Agreed'
  BY AgreedStep
<1>2. QED
  BY AgreedInit, TypeCorrect, <1>1, PTL DEF Spec

(* It implies the three properties of sessions.                             *)
LEMMA AgreedSafe ==
  ASSUME TypeOK, Agreed
  PROVE  SessionAgreement /\ NoUnconfirmedSession /\ LiveSession
<1>1. NoUnconfirmedSession
  BY DEF Agreed, Wire, NoUnconfirmedSession
<1>2. SessionAgreement
  <2> SUFFICES ASSUME NEW c \in Client, NEW d \in Client,
                      NEW i \in Slots, NEW j \in Slots,
                      Valid(client[c].keys[i]),
                      client[c].keys[i].session = server[d].keys[j].session
               PROVE  /\ c = d /\ client[c].keys[i].initiator
                      /\ ~server[d].keys[j].initiator
    BY DEF SessionAgreement
  <2> DEFINE s == client[c].keys[i].session
  <2>1. i # "next" /\ client[c].keys[i].initiator /\ s \in installed[c]
    BY DEF Agreed, Peer, ClientHolds, Initiates, Slots
  <2>2. Valid(server[d].keys[j])
    BY DEF Valid
  <2>3. ~server[d].keys[j].initiator /\ Answered(responses, d, s)
    BY <2>2 DEF Agreed, Peer, ServerHolds, Responds
  <2>4. Answered(responses, c, s)
    BY <2>1 DEF Agreed, Peer
  <2>5. c = d
    BY <2>3, <2>4 DEF Answered, Agreed, Responses
  <2>6. QED
    BY <2>1, <2>3, <2>5
<1>3. LiveSession
  <2> SUFFICES ASSUME NEW c \in Client, phase[c] = "up",
                      client[c].keys["curr"].session > epoch
               PROVE  Holds(server[c], {"curr", "next"},
                            client[c].keys["curr"].session)
    BY DEF LiveSession
  <2>1. PICK r \in responses : /\ r.client = c /\ r.init = initiated[c]
                               /\ r.session = client[c].keys["curr"].session
    BY DEF Agreed, Peer, Waiting
  <2>2. Newest(responses, c, server[c], initiated[c], epoch)
    BY DEF Agreed, Peer
  <2>3. QED
    BY <2>1, <2>2 DEF Newest, Holds
<1>4. QED
  BY <1>1, <1>2, <1>3

(* Whenever both ends hold a session, they hold it for the same client and  *)
(* in opposite roles, for any number of clients, retries, restarts and      *)
(* packets (wireguard_engine.cpp handle_packet()).                          *)
THEOREM SessionAgreementHolds == Spec => []SessionAgreement
<1>1. TypeOK /\ Agreed => SessionAgreement
  BY AgreedSafe
<1>2. QED
  BY <1>1, TypeCorrect, SessionsAgreed, PTL

(* The server sends no data under a session before a process of that client *)
(* has installed it (encrypt() and the order of keypair_update).            *)
THEOREM NoUnconfirmedSessionHolds == Spec => []NoUnconfirmedSession
<1>1. TypeOK /\ Agreed => NoUnconfirmedSession
  BY AgreedSafe
<1>2. QED
  BY <1>1, TypeCorrect, SessionsAgreed, PTL

(* The server process that answered a client that is up still holds its     *)
(* session, for any number of delayed or repeated initiations.              *)
THEOREM LiveSessionHolds == Spec => []LiveSession
<1>1. TypeOK /\ Agreed => LiveSession
  BY AgreedSafe
<1>2. QED
  BY <1>1, TypeCorrect, SessionsAgreed, PTL

(***************************************************************************)
(* Traffic: no packet is delivered twice, and none that was not sent.       *)
(***************************************************************************)

(* No session is in two slots of an engine.                                 *)
OneSlot(e) ==
  \A i, j \in Slots :
    Valid(e.keys[i]) /\ e.keys[i].session = e.keys[j].session => i = j

(* Whatever slot of e has session s has seen counter n.                     *)
Replayed(e, s, n) ==
  \A slot \in Slots :
    Valid(e.keys[slot]) /\ e.keys[slot].session = s => n \in e.keys[slot].seen

(* The data of one direction between c and the server, e being the engine   *)
(* that receives it: a packet in the relay was sent, is there in one form   *)
(* only, and once delivered is a replay to e.                               *)
Carried(dir, M, c, e, sent, got) ==
  /\ \A m \in M : m.type = dir /\ m.client = c =>
       /\ m.packet \in 1..sent
       /\ got[m.packet] > 0 => Replayed(e, m.session, m.counter)
  /\ \A m, n \in M : /\ m.type = dir /\ m.client = c
                     /\ n.type = dir /\ n.client = c
                     /\ m.packet = n.packet
                     => m = n
  /\ \A p \in Packet : got[p] > 0 => p <= sent

(* Both directions of client c.                                             *)
Flow(c) ==
  /\ OneSlot(client[c]) /\ OneSlot(server[c])
  /\ Carried("up", net, c, server[c], upSent[c], upGot[c])
  /\ Carried("down", net, c, client[c], downSent[c], downGot[c])

(* Only clients on the allow list are peers or are sent data.               *)
Heeded == known \subseteq Allowed /\ \A m \in net : m.type = "down"
    => m.client \in Allowed

(* The inductive invariant about traffic.                                   *)
Flowing == Heeded /\ \A c \in Client : Flow(c)

(* Alike engines that have seen the same counters refuse the same replays.  *)
LEMMA AlikeFlow ==
  ASSUME NEW e, NEW f, Alike(e, f),
         \A slot \in Slots : f.keys[slot].seen = e.keys[slot].seen
  PROVE  /\ OneSlot(e) => OneSlot(f)
         /\ \A s, n : Replayed(e, s, n) => Replayed(f, s, n)
  <1>1. \A slot \in Slots : /\ f.keys[slot].session = e.keys[slot].session
                            /\ Valid(f.keys[slot]) => Valid(e.keys[slot])
    BY DEF Alike, SameSession, Valid
  <1>2. QED
    BY <1>1 DEF OneSlot, Replayed

(* A new engine holds no session at all.                                    *)
LEMMA NewEngineFlow == OneSlot(NewEngine) /\ \A s, n : Replayed(NewEngine, s, n)
  BY NoKeys DEF OneSlot, Replayed

(* Taking a response with a new session forgets no counter of another.      *)
LEMMA ResponseFlow ==
  ASSUME NEW e \in Engine, NEW s \in Nat, OneSlot(e),
         \A slot \in Slots : Valid(e.keys[slot]) => e.keys[slot].session # s
  PROVE  /\ OneSlot(AcceptResponse(e, s))
         /\ \A t, n : t # s /\ Replayed(e, t, n)
              => Replayed(AcceptResponse(e, s), t, n)
  <1> DEFINE f == AcceptResponse(e, s)
  <1>1. \E slot \in Slots : slot # "prev" /\ f.keys["prev"] = e.keys[slot]
    BY ResponseKeys, SlotNames
  <1>2. f.keys["curr"].session = s /\ f.keys["next"] = NoKeypair
    BY ResponseKeys
  <1> HIDE DEF f
  <1>3. OneSlot(f)
    BY <1>1, <1>2, NoKeys DEF OneSlot, Slots, Valid
  <1>4. ASSUME NEW t, NEW n, t # s, Replayed(e, t, n) PROVE Replayed(f, t, n)
    BY <1>1, <1>2, <1>4, NoKeys DEF Replayed, Slots
  <1>5. QED
    BY <1>3, <1>4 DEF f

(* Neither does answering an initiation with one.                           *)
LEMMA InitiationFlow ==
  ASSUME NEW e \in Engine, NEW i, NEW s \in Nat, OneSlot(e),
         \A slot \in Slots : Valid(e.keys[slot]) => e.keys[slot].session # s
  PROVE  /\ OneSlot(AcceptInitiation(e, i, s))
         /\ \A t, n : t # s /\ Replayed(e, t, n)
              => Replayed(AcceptInitiation(e, i, s), t, n)
  <1> DEFINE f == AcceptInitiation(e, i, s)
  <1>1. /\ f.keys["prev"] = NoKeypair /\ f.keys["curr"] = e.keys["curr"]
        /\ f.keys["next"].session = s
    BY InitiationKeys
  <1> HIDE DEF f
  <1>2. e.keys["curr"].session # s \/ ~Valid(e.keys["curr"])
    BY SlotNames
  <1>3. OneSlot(f)
    BY <1>1, <1>2, NoKeys DEF OneSlot, Slots, Valid
  <1>4. ASSUME NEW t, NEW n, t # s, Replayed(e, t, n) PROVE Replayed(f, t, n)
    BY <1>1, <1>4, NoKeys, SlotNames DEF Replayed, Slots
  <1>5. QED
    BY <1>3, <1>4 DEF f

(* Receiving data makes it a replay and forgets no other.                   *)
LEMMA DataFlow ==
  ASSUME NEW e \in Engine, NEW slot \in Slots, NEW n, OneSlot(e),
         Valid(e.keys[slot])
  PROVE  LET f == AcceptData(e, slot, n)
         IN /\ OneSlot(f)
            /\ Replayed(f, e.keys[slot].session, n)
            /\ \A t, k : Replayed(e, t, k) => Replayed(f, t, k)
  <1> DEFINE f == AcceptData(e, slot, n)
             seen == e.keys[slot].seen \cup {n}
  <1>1. CASE slot # "next"
    <2>1. Alike(e, f) /\ Learns(e, f, slot, seen)
      BY <1>1, DataKeys
    <2> HIDE DEF f
    <2>2. \A i \in Slots :
            /\ f.keys[i].session = e.keys[i].session
            /\ Valid(f.keys[i]) => Valid(e.keys[i])
            /\ f.keys[i].seen = IF i = slot THEN seen ELSE e.keys[i].seen
      BY <2>1 DEF Alike, SameSession, Learns, Valid
    <2>3. OneSlot(f)
      BY <2>2 DEF OneSlot
    <2>4. Replayed(f, e.keys[slot].session, n)
      BY <2>2 DEF Replayed, OneSlot
    <2>5. ASSUME NEW t, NEW k, Replayed(e, t, k) PROVE Replayed(f, t, k)
      BY <2>2, <2>5 DEF Replayed
    <2>6. QED
      BY <2>3, <2>4, <2>5 DEF f
  <1>2. CASE slot = "next"
    <2>1. Promotes(e, f) /\ f.keys["curr"].seen = seen
      BY <1>2, DataKeys, ZenonT(60)
    <2> HIDE DEF f
    <2>2. /\ f.keys["prev"] = e.keys["curr"]
          /\ f.keys["curr"].session = e.keys["next"].session
          /\ ~Valid(f.keys["next"]) /\ f.keys["next"].session = 0
      BY <2>1, NoKeys DEF Promotes, SameSession
    <2>3. e.keys["next"].session # e.keys["curr"].session
      BY <1>2, SlotNames DEF OneSlot
    <2>4. OneSlot(f)
      BY <2>2, <2>3 DEF OneSlot, Slots, Valid
    <2>5. Replayed(f, e.keys[slot].session, n)
      BY <1>2, <2>1, <2>2, <2>3 DEF Replayed, Slots
    <2>6. ASSUME NEW t, NEW k, Replayed(e, t, k) PROVE Replayed(f, t, k)
      <3>1. /\ Valid(e.keys["curr"]) /\ e.keys["curr"].session = t
                 => k \in e.keys["curr"].seen
            /\ Valid(e.keys["next"]) /\ e.keys["next"].session = t
                 => k \in e.keys["next"].seen
        BY <2>6, SlotNames DEF Replayed
      <3>2. QED
        BY <1>2, <2>1, <2>2, <3>1 DEF Replayed, Slots
    <2>7. QED
      BY <2>4, <2>5, <2>6 DEF f
  <1>3. QED
    BY <1>1, <1>2

(* Losing and handing over data.                                            *)
LEMMA CarriedLess ==
  ASSUME NEW dir, NEW c, NEW M, NEW N,
         \A m \in N : m.type = dir /\ m.client = c => m \in M
  PROVE  \A e, sent, got :
           Carried(dir, M, c, e, sent, got) => Carried(dir, N, c, e, sent, got)
  BY DEF Carried

(* An engine that refuses no less than before.                              *)
LEMMA CarriedLearned ==
  ASSUME NEW dir, NEW c, NEW M, NEW e, NEW f,
         \A m \in M : m.type = dir /\ m.client = c =>
           (Replayed(e, m.session, m.counter)
               => Replayed(f, m.session, m.counter))
  PROVE  \A sent, got :
           Carried(dir, M, c, e, sent, got) => Carried(dir, M, c, f, sent, got)
  BY DEF Carried

(* Sending the next packet.                                                 *)
LEMMA CarriedSend ==
  ASSUME NEW dir, NEW c, NEW M, NEW e, NEW sent \in Nat, sent < MaxPackets,
         NEW got \in [Packet -> Nat], Carried(dir, M, c, e, sent, got),
         NEW k
  PROVE  Carried(dir, M \cup {Data(dir, c, k, sent + 1)}, c, e, sent + 1, got)
  <1> DEFINE m0 == Data(dir, c, k, sent + 1)
  <1>1. m0.packet = sent + 1
    BY DEF Data
  <1>2. sent + 1 \in Packet /\ ~(got[sent + 1] > 0)
    BY BoundsAssumption DEF Carried, Packet
  <1> HIDE DEF m0
  <1>3. \A m \in M : m.type = dir /\ m.client = c => m.packet \in 1..sent
    BY DEF Carried
  <1>4. \A m \in M \cup {m0} : m.type = dir /\ m.client = c
      => m.packet \in 1..(sent + 1)
    BY <1>1, <1>3
  <1>5. \A m \in M \cup {m0} : m.type = dir /\ m.client = c =>
          (got[m.packet] > 0 => Replayed(e, m.session, m.counter))
    BY <1>1, <1>2 DEF Carried
  <1>6. \A m, n \in M \cup {m0} : /\ m.type = dir /\ m.client = c
                                  /\ n.type = dir /\ n.client = c
                                  /\ m.packet = n.packet
                                  => m = n
    BY <1>1, <1>3 DEF Carried
  <1>7. \A p \in Packet : got[p] > 0 => p <= sent + 1
    BY DEF Carried, Packet
  <1>8. QED
    BY <1>4, <1>5, <1>6, <1>7 DEF Carried, m0

(* Counting a delivery of data that is now a replay.                        *)
LEMMA CarriedDeliver ==
  ASSUME NEW dir, NEW c, NEW M, NEW e, NEW sent \in Nat,
         NEW got \in [Packet -> Nat], Carried(dir, M, c, e, sent, got),
         NEW m0 \in M, m0.type = dir, m0.client = c,
         Replayed(e, m0.session, m0.counter)
  PROVE  Carried(dir, M, c, e, sent, [got EXCEPT ![m0.packet] = @ + 1])
  <1> DEFINE more == [got EXCEPT ![m0.packet] = @ + 1]
  <1>1. \A p \in Packet : p # m0.packet => more[p] = got[p]
    OBVIOUS
  <1>2. m0.packet \in 1..sent
    BY DEF Carried
  <1>3. DOMAIN more = Packet /\ DOMAIN got = Packet
    OBVIOUS
  <1>4. ASSUME NEW m \in M, m.type = dir, m.client = c, more[m.packet] > 0
        PROVE  Replayed(e, m.session, m.counter)
    <2>1. CASE m.packet = m0.packet
      BY <1>4, <2>1 DEF Carried
    <2>2. CASE m.packet # m0.packet
      BY <1>4, <2>2 DEF Carried
    <2>3. QED
      BY <2>1, <2>2
  <1>5. \A p \in Packet : more[p] > 0 => p <= sent
    BY <1>1, <1>2 DEF Carried
  <1> HIDE DEF more
  <1>6. QED
    BY <1>4, <1>5 DEF Carried, more

(* Every step of the data plane keeps traffic in order.                     *)
LEMMA FlowingStep ==
  ASSUME TypeOK, Agreed, Flowing, [Next]_vars, TypeOK'
  PROVE  Flowing'
<1> USE DEF clientVars, serverVars, trafficVars, boundVars
<1>t. /\ client \in [Client -> Engine] /\ server \in [Client -> Engine]
      /\ upSent \in [Client -> 0..MaxPackets]
           /\ downSent \in [Client -> 0..MaxPackets]
      /\ upGot \in [Client -> [Packet -> Nat]]
           /\ downGot \in [Client -> [Packet -> Nat]]
      /\ installed \in [Client -> SUBSET Nat] /\ created \in Nat
  BY DEF TypeOK
<1>b. MaxPackets \in Nat
  BY BoundsAssumption
<1>f. Heeded /\ \A c \in Client : Flow(c)
  BY DEF Flowing
<1> DEFINE NoData == \A m \in net' : m \in net \/ m.type \notin {"up", "down"}
<1>n. ASSUME NoData
      PROVE  \A dir \in {"up", "down"} : \A c, e, sent, got :
               Carried(dir, net, c, e, sent, got)
                   => Carried(dir, net', c, e, sent, got)
  <2> SUFFICES ASSUME NEW dir \in {"up", "down"}, NEW c
               PROVE  \A e, sent, got :
                        Carried(dir, net, c, e, sent, got)
                            => Carried(dir, net', c, e, sent, got)
    OBVIOUS
  <2>1. \A m \in net' : m.type = dir /\ m.client = c => m \in net
    BY <1>n
  <2>2. QED
    BY <2>1, CarriedLess
<1>0. ASSUME NoData, UNCHANGED <<client, server, trafficVars>>,
    known' \subseteq Allowed
      PROVE  Flowing'
  <2>1. Heeded'
    BY <1>0, <1>f DEF Heeded
  <2>2. ASSUME NEW d \in Client PROVE Flow(d)'
    BY <1>0, <1>f, <1>n DEF Flow
  <2>3. QED
    BY <2>1, <2>2 DEF Flowing
<1>c. ASSUME NoData, NEW c \in Client, NEW f,
    client' = [client EXCEPT ![c] = f],
             UNCHANGED <<server, known, trafficVars>>, OneSlot(f),
             Carried("down", net, c, f, downSent[c], downGot[c])
      PROVE  Flowing'
  <2>1. Heeded'
    BY <1>c, <1>f DEF Heeded
  <2>2. ASSUME NEW d \in Client PROVE Flow(d)'
    <3>1. client'[d] = IF d = c THEN f ELSE client[d]
      BY <1>c, <1>t
    <3>2. Carried("down", net', d, client'[d], downSent[d], downGot[d])
      BY <1>c, <1>f, <1>n, <3>1 DEF Flow
    <3>3. OneSlot(client'[d])
      BY <1>c, <1>f, <3>1 DEF Flow
    <3>4. Carried("up", net', d, server[d], upSent[d], upGot[d])
      BY <1>c, <1>f, <1>n DEF Flow
    <3>5. QED
      BY <1>c, <1>f, <3>2, <3>3, <3>4 DEF Flow
  <2>3. QED
    BY <2>1, <2>2 DEF Flowing
<1>s. ASSUME NoData, NEW c \in Client, NEW f,
    server' = [server EXCEPT ![c] = f],
             UNCHANGED <<client, known, trafficVars>>, OneSlot(f),
             Carried("up", net, c, f, upSent[c], upGot[c])
      PROVE  Flowing'
  <2>1. Heeded'
    BY <1>s, <1>f DEF Heeded
  <2>2. ASSUME NEW d \in Client PROVE Flow(d)'
    <3>1. server'[d] = IF d = c THEN f ELSE server[d]
      BY <1>s, <1>t
    <3>2. Carried("up", net', d, server'[d], upSent[d], upGot[d])
      BY <1>s, <1>f, <1>n, <3>1 DEF Flow
    <3>3. OneSlot(server'[d])
      BY <1>s, <1>f, <3>1 DEF Flow
    <3>4. Carried("down", net', d, client[d], downSent[d], downGot[d])
      BY <1>s, <1>f, <1>n DEF Flow
    <3>5. QED
      BY <1>s, <1>f, <3>2, <3>3, <3>4 DEF Flow
  <2>3. QED
    BY <2>1, <2>2 DEF Flowing
<1>1. ASSUME NEW c \in Client, ClientStart(c) PROVE Flowing'
  <2>1. \A m \in net : Replayed(NewEngine, m.session, m.counter)
    BY NewEngineFlow
  <2>2. Carried("down", net, c, NewEngine, downSent[c], downGot[c])
    BY <1>f, <2>1, CarriedLearned DEF Flow
  <2>3. NoData /\ client' = [client EXCEPT ![c] = NewEngine]
               /\ UNCHANGED <<server, known, trafficVars>>
    BY <1>1 DEF ClientStart
  <2> HIDE DEF NoData
  <2>4. QED
    BY <1>c, <2>2, <2>3, NewEngineFlow
<1>2. ASSUME NEW c \in Client,
             \/ SendMeow(c) \/ ReceiveMeowed(c) \/ Deadline(c) \/ ClientExit(c)
             \/ ClientIgnores(c) \/ ServerIgnores(c)
      PROVE  Flowing'
  BY <1>0, <1>2, <1>f DEF SendMeow, ReceiveMeowed, Deadline, ClientExit,
       ClientIgnores, ServerIgnores, Exchange, Meow, Heeded
<1>3. ASSUME NEW c \in Client, SendInitiation(c) PROVE Flowing'
  <2> DEFINE f == Initiate(client[c], initiated'[c])
  <2>1. NoData /\ client' = [client EXCEPT ![c] = f]
               /\ UNCHANGED <<server, known, trafficVars>>
    BY <1>3 DEF SendInitiation, Initiation
  <2>2. f.keys = client[c].keys
    BY <1>t, InitiateKeys
  <2> HIDE DEF f, NoData
  <2>3. OneSlot(f)
    BY <1>f, <2>2 DEF Flow, OneSlot
  <2>4. \A s, n : Replayed(client[c], s, n) => Replayed(f, s, n)
    BY <2>2 DEF Replayed
  <2>5. Carried("down", net, c, f, downSent[c], downGot[c])
    BY <1>f, <2>4, CarriedLearned DEF Flow
  <2>6. QED
    BY <1>c, <2>1, <2>3, <2>5
<1>4. ASSUME NEW c \in Client, ReceiveResponse(c) PROVE Flowing'
  <2>1. PICK m \in net : ReceiveResponse(c)!(m)
    BY <1>4 DEF ReceiveResponse
  <2> DEFINE f == AcceptResponse(client[c], m.session)
  <2>2. NoData /\ client' = [client EXCEPT ![c] = f]
               /\ UNCHANGED <<server, known, trafficVars>>
    BY <2>1 DEF Exchange
  <2>3. m.session \in Nat /\ m.session \notin installed[c]
    <3>1. m \in responses
      BY <2>1 DEF Agreed, Wire
    <3>2. m.client = c /\ m.init = client[c].pending /\ client[c].pending # 0
      BY <2>1 DEF MatchesPending
    <3>3. m.session \in installed[c] => m.init < client[c].pending
      BY <3>1, <3>2 DEF Agreed, Peer, Waiting
    <3>4. m.init \in Nat /\ m.session \in Nat
      BY <3>1, ResponseTypes DEF Agreed
    <3>5. QED
      BY <3>2, <3>3, <3>4
  <2>4. \A slot \in Slots : Valid(client[c].keys[slot])
                              => client[c].keys[slot].session # m.session
    BY <2>3 DEF Agreed, Peer, ClientHolds, Initiates, Slots
  <2>5. OneSlot(f) /\ \A t, n : t # m.session /\ Replayed(client[c], t, n)
      => Replayed(f, t, n)
    BY <1>f, <1>t, <2>3, <2>4, ResponseFlow DEF Flow
  <2> HIDE DEF f, NoData
  <2>6. \A d \in net : d.type = "down" /\ d.client = c =>
          (Replayed(client[c], d.session, d.counter)
              => Replayed(f, d.session, d.counter))
    BY <2>3, <2>5 DEF Agreed, Wire
  <2>7. Carried("down", net, c, f, downSent[c], downGot[c])
    BY <1>f, <2>6, CarriedLearned DEF Flow
  <2>8. QED
    BY <1>c, <2>2, <2>5, <2>7
<1>5. ASSUME NEW c \in Client, ClientSend(c) PROVE Flowing'
  <2> DEFINE f == CountSent(client[c])
             k == SendKeypair(client[c])
             m0 == Data("up", c, k, upSent[c] + 1)
  <2>1. /\ client' = [client EXCEPT ![c] = f]
        /\ net' = net \cup {m0}
        /\ upSent' = [upSent EXCEPT ![c] = @ + 1]
        /\ upSent[c] < MaxPackets
        /\ UNCHANGED <<server, known, downSent, upGot, downGot>>
    BY <1>5, <1>t DEF ClientSend
  <2>2. Alike(client[c],
      f) /\ \A slot \in Slots : f.keys[slot].seen = client[c].keys[slot].seen
    BY <1>t, SentAlike
  <2>3. m0.type = "up" /\ m0.client = c
    BY DEF Data
  <2>4. Carried("up", net \cup {m0}, c, server[c], upSent[c] + 1, upGot[c])
    <3>1. Carried("up", net, c, server[c], upSent[c], upGot[c])
      BY <1>f DEF Flow
    <3>2. upSent[c] \in Nat /\ upSent[c] < MaxPackets
        /\ upGot[c] \in [Packet -> Nat]
      BY <1>t, <1>b, <2>1
    <3>3. QED
      BY <3>1, <3>2, CarriedSend
  <2> HIDE DEF f, k, m0
  <2>5. OneSlot(f) /\ \A s, n : Replayed(client[c], s, n) => Replayed(f, s, n)
    BY <1>f, <2>2, AlikeFlow DEF Flow
  <2>6. ASSUME NEW d \in Client PROVE Flow(d)'
    <3>1. /\ client'[d] = IF d = c THEN f ELSE client[d]
          /\ upSent'[d] = IF d = c THEN upSent[c] + 1 ELSE upSent[d]
      BY <1>t, <2>1
    <3>2. Carried("down", net, d, client'[d], downSent[d], downGot[d])
      BY <1>f, <2>5, <3>1, CarriedLearned DEF Flow
    <3>3. \A m \in net' : m.type = "down" /\ m.client = d => m \in net
      BY <2>1, <2>3
    <3>4. Carried("down", net', d, client'[d], downSent[d], downGot[d])
      BY <3>2, <3>3, CarriedLess
    <3>5. d # c => \A m \in net' : m.type = "up" /\ m.client = d => m \in net
      BY <2>1, <2>3
    <3>6. Carried("up", net', d, server[d], upSent'[d], upGot[d])
      BY <1>f, <2>1, <2>4, <3>1, <3>5, CarriedLess DEF Flow
    <3>7. OneSlot(client'[d])
      BY <1>f, <2>5, <3>1 DEF Flow
    <3>8. QED
      BY <1>f, <2>1, <3>4, <3>6, <3>7 DEF Flow
  <2>7. Heeded'
    BY <1>f, <2>1, <2>3 DEF Heeded
  <2>8. QED
    BY <2>6, <2>7 DEF Flowing
<1>6. ASSUME NEW c \in Client, ReceiveDown(c) PROVE Flowing'
  <2>1. PICK m \in net : ReceiveDown(c)!(m)
    BY <1>6 DEF ReceiveDown
  <2>2. PICK slot \in Receivers(client[c], m.session, m.counter) :
            client' = [client EXCEPT ![c] = AcceptData(@, slot, m.counter)]
    BY <2>1
  <2> DEFINE f == AcceptData(client[c], slot, m.counter)
             more == [downGot[c] EXCEPT ![m.packet] = @ + 1]
  <2>3. /\ client' = [client EXCEPT ![c] = f]
        /\ downGot' = [downGot EXCEPT ![c] = more]
        /\ net' \subseteq net
        /\ UNCHANGED <<server, known, upSent, downSent, upGot>>
    BY <2>1, <2>2 DEF Exchange
  <2>4. /\ slot \in Slots /\ Valid(client[c].keys[slot])
        /\ client[c].keys[slot].session = m.session
    BY <2>2 DEF Receivers
  <2>5. /\ OneSlot(f) /\ Replayed(f, m.session, m.counter)
        /\ \A t, n : Replayed(client[c], t, n) => Replayed(f, t, n)
    BY <1>f, <1>t, <2>4, DataFlow DEF Flow
  <2> HIDE DEF f
  <2>6. Carried("down", net, c, f, downSent[c], downGot[c])
    BY <1>f, <2>5, CarriedLearned DEF Flow
  <2>7. Carried("down", net, c, f, downSent[c], more)
    <3>1. downSent[c] \in Nat /\ downGot[c] \in [Packet -> Nat]
      BY <1>t, <1>b
    <3>2. m.type = "down" /\ m.client = c /\ Replayed(f, m.session, m.counter)
      BY <2>1, <2>5
    <3>3. QED
      BY <2>6, <3>1, <3>2, CarriedDeliver
  <2> HIDE DEF more
  <2>8. ASSUME NEW d \in Client PROVE Flow(d)'
    <3>1. /\ client'[d] = IF d = c THEN f ELSE client[d]
          /\ downGot'[d] = IF d = c THEN more ELSE downGot[d]
      BY <1>t, <2>3
    <3>2. Carried("down", net, d, client'[d], downSent[d], downGot'[d])
      BY <1>f, <2>7, <3>1 DEF Flow
    <3>3. OneSlot(client'[d])
      BY <1>f, <2>5, <3>1 DEF Flow
    <3>4. Carried("up", net', d, server[d], upSent[d], upGot[d])
      BY <1>f, <1>n, <2>3 DEF Flow
    <3>5. Carried("down", net', d, client'[d], downSent[d], downGot'[d])
      BY <1>n, <2>3, <3>2
    <3>6. QED
      BY <1>f, <2>3, <3>3, <3>4, <3>5 DEF Flow
  <2>9. Heeded'
    BY <1>f, <2>3 DEF Heeded
  <2>10. QED
    BY <2>8, <2>9 DEF Flowing
<1>7. ASSUME NEW c \in Client, ClientKeypairExpires(c) PROVE Flowing'
  <2>1. PICK slot \in Slots : ClientKeypairExpires(c)!(slot)
    BY <1>7 DEF ClientKeypairExpires
  <2> DEFINE f == [client[c] EXCEPT !.keys[slot].expired = TRUE]
  <2>2. /\ Alike(client[c], f)
        /\ \A s \in Slots : f.keys[s].seen = client[c].keys[s].seen
    BY <1>t, ExpiryAlike
  <2>3. NoData /\ client' = [client EXCEPT ![c] = f]
               /\ UNCHANGED <<server, known, trafficVars>>
    BY <2>1
  <2> HIDE DEF f, NoData
  <2>4. OneSlot(f) /\ \A s, n : Replayed(client[c], s, n) => Replayed(f, s, n)
    BY <1>f, <2>2, AlikeFlow DEF Flow
  <2>5. Carried("down", net, c, f, downSent[c], downGot[c])
    BY <1>f, <2>4, CarriedLearned DEF Flow
  <2>6. QED
    BY <1>c, <2>3, <2>4, <2>5
<1>8. ASSUME NEW c \in Client, ServerMeow(c) PROVE Flowing'
  BY <1>0, <1>8, <1>f DEF ServerMeow, Exchange, Meowed, Heeded
<1>9. ASSUME NEW c \in Client, ServerInitiation(c) PROVE Flowing'
  <2>1. PICK m \in net : ServerInitiation(c)!(m)
    BY <1>9 DEF ServerInitiation
  <2> DEFINE s == created + 1
             f == AcceptInitiation(server[c], m.init, s)
  <2>2. NoData /\ server' = [server EXCEPT ![c] = f]
               /\ UNCHANGED <<client, known, trafficVars>>
    BY <2>1 DEF Exchange, Response
  <2>3. \A d \in Client : \A t :
          Answered(responses, d, t) => t # s /\ t \in Nat
    BY <1>t, ResponseTypes DEF Agreed, Answered
  <2>4. \A slot \in Slots : Valid(server[c].keys[slot])
                              => server[c].keys[slot].session # s
    BY <2>3 DEF Agreed, Peer, ServerHolds, Responds
  <2>a. server[c] \in Engine /\ s \in Nat
    BY <1>t
  <2>b. OneSlot(server[c])
    BY <1>f DEF Flow
  <2>5. OneSlot(f) /\ \A t, n : t # s /\ Replayed(server[c], t, n)
      => Replayed(f, t, n)
    BY <2>4, <2>a, <2>b, InitiationFlow
  <2> HIDE DEF f, NoData, s
  <2>6. \A d \in net : d.type = "up" /\ d.client = c =>
          (Replayed(server[c], d.session, d.counter)
              => Replayed(f, d.session, d.counter))
    BY <2>3, <2>5 DEF Agreed, Wire, Peer
  <2>7. Carried("up", net, c, f, upSent[c], upGot[c])
    BY <1>f, <2>6, CarriedLearned DEF Flow
  <2>8. QED
    BY <1>s, <2>2, <2>5, <2>7
<1>10. ASSUME NEW c \in Client, ServerUp(c) PROVE Flowing'
  <2>1. PICK m \in net : ServerUp(c)!(m)
    BY <1>10 DEF ServerUp
  <2>2. PICK slot \in Receivers(server[c], m.session, m.counter) :
            server' = [server EXCEPT ![c] = AcceptData(@, slot, m.counter)]
    BY <2>1
  <2> DEFINE f == AcceptData(server[c], slot, m.counter)
             more == [upGot[c] EXCEPT ![m.packet] = @ + 1]
  <2>3. /\ server' = [server EXCEPT ![c] = f]
        /\ upGot' = [upGot EXCEPT ![c] = more]
        /\ net' \subseteq net
        /\ UNCHANGED <<client, known, upSent, downSent, downGot>>
    BY <2>1, <2>2 DEF Exchange
  <2>4. /\ slot \in Slots /\ Valid(server[c].keys[slot])
        /\ server[c].keys[slot].session = m.session
    BY <2>2 DEF Receivers
  <2>5. /\ OneSlot(f) /\ Replayed(f, m.session, m.counter)
        /\ \A t, n : Replayed(server[c], t, n) => Replayed(f, t, n)
    BY <1>f, <1>t, <2>4, DataFlow DEF Flow
  <2> HIDE DEF f
  <2>6. Carried("up", net, c, f, upSent[c], upGot[c])
    BY <1>f, <2>5, CarriedLearned DEF Flow
  <2>7. Carried("up", net, c, f, upSent[c], more)
    <3>1. upSent[c] \in Nat /\ upGot[c] \in [Packet -> Nat]
      BY <1>t, <1>b
    <3>2. m.type = "up" /\ m.client = c /\ Replayed(f, m.session, m.counter)
      BY <2>1, <2>5
    <3>3. QED
      BY <2>6, <3>1, <3>2, CarriedDeliver
  <2> HIDE DEF more
  <2>8. ASSUME NEW d \in Client PROVE Flow(d)'
    <3>1. /\ server'[d] = IF d = c THEN f ELSE server[d]
          /\ upGot'[d] = IF d = c THEN more ELSE upGot[d]
      BY <1>t, <2>3
    <3>2. Carried("up", net, d, server'[d], upSent[d], upGot'[d])
      BY <1>f, <2>7, <3>1 DEF Flow
    <3>3. OneSlot(server'[d])
      BY <1>f, <2>5, <3>1 DEF Flow
    <3>4. Carried("down", net', d, client[d], downSent[d], downGot[d])
      BY <1>f, <1>n, <2>3 DEF Flow
    <3>5. Carried("up", net', d, server'[d], upSent[d], upGot'[d])
      BY <1>n, <2>3, <3>2
    <3>6. QED
      BY <1>f, <2>3, <3>3, <3>4, <3>5 DEF Flow
  <2>9. Heeded'
    BY <1>f, <2>3 DEF Heeded
  <2>10. QED
    BY <2>8, <2>9 DEF Flowing
<1>11. ASSUME NEW c \in Client, ServerSend(c) PROVE Flowing'
  <2> DEFINE f == CountSent(server[c])
             k == SendKeypair(server[c])
             m0 == Data("down", c, k, downSent[c] + 1)
  <2>1. /\ server' = [server EXCEPT ![c] = f]
        /\ net' = net \cup {m0}
        /\ downSent' = [downSent EXCEPT ![c] = @ + 1]
        /\ downSent[c] < MaxPackets /\ c \in known
        /\ UNCHANGED <<client, known, upSent, upGot, downGot>>
    BY <1>11, <1>t DEF ServerSend
  <2>2. Alike(server[c],
      f) /\ \A slot \in Slots : f.keys[slot].seen = server[c].keys[slot].seen
    BY <1>t, SentAlike
  <2>3. m0.type = "down" /\ m0.client = c
    BY DEF Data
  <2>4. Carried("down", net \cup {m0}, c, client[c], downSent[c] + 1,
      downGot[c])
    <3>1. Carried("down", net, c, client[c], downSent[c], downGot[c])
      BY <1>f DEF Flow
    <3>2. downSent[c] \in Nat /\ downSent[c] < MaxPackets
        /\ downGot[c] \in [Packet -> Nat]
      BY <1>t, <1>b, <2>1
    <3>3. QED
      BY <3>1, <3>2, CarriedSend
  <2> HIDE DEF f, k, m0
  <2>5. OneSlot(f) /\ \A s, n : Replayed(server[c], s, n) => Replayed(f, s, n)
    BY <1>f, <2>2, AlikeFlow DEF Flow
  <2>6. ASSUME NEW d \in Client PROVE Flow(d)'
    <3>1. /\ server'[d] = IF d = c THEN f ELSE server[d]
          /\ downSent'[d] = IF d = c THEN downSent[c] + 1 ELSE downSent[d]
      BY <1>t, <2>1
    <3>2. Carried("up", net, d, server'[d], upSent[d], upGot[d])
      BY <1>f, <2>5, <3>1, CarriedLearned DEF Flow
    <3>3. \A m \in net' : m.type = "up" /\ m.client = d => m \in net
      BY <2>1, <2>3
    <3>4. Carried("up", net', d, server'[d], upSent[d], upGot[d])
      BY <3>2, <3>3, CarriedLess
    <3>5. d # c => \A m \in net' : m.type = "down" /\ m.client = d => m \in net
      BY <2>1, <2>3
    <3>6. Carried("down", net', d, client[d], downSent'[d], downGot[d])
      BY <1>f, <2>1, <2>4, <3>1, <3>5, CarriedLess DEF Flow
    <3>7. OneSlot(server'[d])
      BY <1>f, <2>5, <3>1 DEF Flow
    <3>8. QED
      BY <1>f, <2>1, <3>4, <3>6, <3>7 DEF Flow
  <2>7. Heeded'
    BY <1>f, <2>1, <2>3 DEF Heeded
  <2>8. QED
    BY <2>6, <2>7 DEF Flowing
<1>12. ASSUME NEW c \in Client, ServerKeypairExpires(c) PROVE Flowing'
  <2>1. PICK slot \in Slots : ServerKeypairExpires(c)!(slot)
    BY <1>12 DEF ServerKeypairExpires
  <2> DEFINE f == [server[c] EXCEPT !.keys[slot].expired = TRUE]
  <2>2. /\ Alike(server[c], f)
        /\ \A s \in Slots : f.keys[s].seen = server[c].keys[s].seen
    BY <1>t, ExpiryAlike
  <2>3. NoData /\ server' = [server EXCEPT ![c] = f]
               /\ UNCHANGED <<client, known, trafficVars>>
    BY <2>1
  <2> HIDE DEF f, NoData
  <2>4. OneSlot(f) /\ \A s, n : Replayed(server[c], s, n) => Replayed(f, s, n)
    BY <1>f, <2>2, AlikeFlow DEF Flow
  <2>5. Carried("up", net, c, f, upSent[c], upGot[c])
    BY <1>f, <2>4, CarriedLearned DEF Flow
  <2>6. QED
    BY <1>s, <2>3, <2>4, <2>5
<1>13. CASE ServerRestart
  <2>1. /\ \A d \in Client : server'[d] = NewEngine
        /\ known' = {}
        /\ UNCHANGED <<net, client, trafficVars>>
    BY <1>13 DEF ServerRestart
  <2>2. ASSUME NEW d \in Client PROVE Flow(d)'
    <3>1. \A m \in net : Replayed(NewEngine, m.session, m.counter)
      BY NewEngineFlow
    <3>2. Carried("up", net, d, NewEngine, upSent[d], upGot[d])
      BY <1>f, <3>1, CarriedLearned DEF Flow
    <3>3. QED
      BY <1>f, <2>1, <3>2, NewEngineFlow DEF Flow
  <2>3. Heeded'
    BY <1>f, <2>1 DEF Heeded
  <2>4. QED
    BY <2>2, <2>3 DEF Flowing
<1>14. CASE Lose
  BY <1>0, <1>14, <1>f DEF Lose, Heeded
<1>15. CASE UNCHANGED vars
  BY <1>0, <1>15, <1>f DEF vars, Heeded
<1>16. QED
  BY <1>1, <1>2, <1>3, <1>4, <1>5, <1>6, <1>7, <1>8, <1>9, <1>10, <1>11, <1>12,
     <1>13, <1>14, <1>15 DEF Next

(* It is at the start.                                                      *)
LEMMA FlowingInit == Init => Flowing
  <1> SUFFICES ASSUME Init PROVE Flowing
    OBVIOUS
  <1>1. Heeded
    BY DEF Init, Heeded
  <1>2. ASSUME NEW c \in Client PROVE Flow(c)
    <2>1. /\ client[c] = NewEngine /\ server[c] = NewEngine /\ net = {}
          /\ upSent[c] = 0 /\ downSent[c] = 0
          /\ upGot[c] = [p \in Packet |-> 0]
               /\ downGot[c] = [p \in Packet |-> 0]
      BY DEF Init
    <2>2. \A dir : Carried(dir, {}, c, NewEngine, 0, [p \in Packet |-> 0])
      BY DEF Carried
    <2>3. QED
      BY <2>1, <2>2, NewEngineFlow DEF Flow
  <1>3. QED
    BY <1>1, <1>2 DEF Flowing

(* What the server takes from a client is a first delivery of a packet sent.*)
LEMMA DeliversUp ==
  ASSUME TypeOK, Flowing, NEW c \in Client, ServerUp(c)
  PROVE  \E p \in Packet : UpChannel!Deliver(c, p)
<1>1. PICK m \in net : ServerUp(c)!(m)
  BY DEF ServerUp
<1>2. PICK slot \in Receivers(server[c], m.session, m.counter) : TRUE
  BY <1>1
<1>3. Carried("up", net, c, server[c], upSent[c], upGot[c])
  BY DEF Flowing, Flow
<1>4. /\ upGot \in [Client -> [Packet -> Nat]] /\ upSent[c] \in 0..MaxPackets
      /\ MaxPackets \in Nat
  BY BoundsAssumption DEF TypeOK
<1>5. m.packet \in 1..upSent[c] /\ ~(upGot[c][m.packet] > 0)
  BY <1>1, <1>2, <1>3 DEF Carried, Replayed, Receivers, NotReplayed
<1>6. m.packet \in Packet /\ m.packet <= upSent[c] /\ upGot[c][m.packet] = 0
  BY <1>4, <1>5 DEF Packet
<1>7. upGot' = [upGot EXCEPT ![c][m.packet] = 1]
  BY <1>1, <1>4, <1>6
<1>8. c \in Allowed
  BY <1>1 DEF Flowing, Heeded
<1>9. QED
  BY <1>1, <1>6, <1>7, <1>8 DEF UpChannel!Deliver

(* So is what a client takes from the server.                               *)
LEMMA DeliversDown ==
  ASSUME TypeOK, Flowing, NEW c \in Client, ReceiveDown(c)
  PROVE  \E p \in Packet : DownChannel!Deliver(c, p)
<1>1. PICK m \in net : ReceiveDown(c)!(m)
  BY DEF ReceiveDown
<1>2. PICK slot \in Receivers(client[c], m.session, m.counter) : TRUE
  BY <1>1
<1>3. Carried("down", net, c, client[c], downSent[c], downGot[c])
  BY DEF Flowing, Flow
<1>4. /\ downGot \in [Client -> [Packet -> Nat]]
           /\ downSent[c] \in 0..MaxPackets
      /\ MaxPackets \in Nat
  BY BoundsAssumption DEF TypeOK
<1>5. m.packet \in 1..downSent[c] /\ ~(downGot[c][m.packet] > 0)
  BY <1>1, <1>2, <1>3 DEF Carried, Replayed, Receivers, NotReplayed
<1>6. m.packet \in Packet /\ m.packet <= downSent[c] /\ downGot[c][m.packet] = 0
  BY <1>4, <1>5 DEF Packet
<1>7. downGot' = [downGot EXCEPT ![c][m.packet] = 1]
  BY <1>1, <1>4, <1>6
<1>8. c \in Allowed
  BY <1>1 DEF Flowing, Heeded
<1>9. QED
  BY <1>1, <1>6, <1>7, <1>8 DEF DownChannel!Deliver

(* Every step is a step of both datagram channels, or leaves them alone.    *)
LEMMA TrafficStep ==
  ASSUME TypeOK, Flowing, [Next]_vars
  PROVE  /\ [UpChannel!Next]_<<upSent, upGot>>
         /\ [DownChannel!Next]_<<downSent, downGot>>
<1> USE DEF clientVars, serverVars, trafficVars, boundVars
<1>1. ASSUME NEW c \in Client, ClientSend(c)
      PROVE  UpChannel!Send(c) /\ UNCHANGED <<downSent, downGot>>
  BY <1>1 DEF ClientSend, UpChannel!Send
<1>2. ASSUME NEW c \in Client, ServerSend(c)
      PROVE  DownChannel!Send(c) /\ UNCHANGED <<upSent, upGot>>
  BY <1>2 DEF ServerSend, DownChannel!Send
<1>3. ASSUME NEW c \in Client, ServerUp(c)
      PROVE  (\E p \in Packet : UpChannel!Deliver(c,
          p)) /\ UNCHANGED <<downSent, downGot>>
  BY <1>3, DeliversUp DEF ServerUp
<1>4. ASSUME NEW c \in Client, ReceiveDown(c)
      PROVE  (\E p \in Packet : DownChannel!Deliver(c,
          p)) /\ UNCHANGED <<upSent, upGot>>
  BY <1>4, DeliversDown DEF ReceiveDown
<1>5. ASSUME NEW c \in Client,
             \/ ClientStart(c) \/ SendMeow(c) \/ ReceiveMeowed(c)
             \/ SendInitiation(c) \/ ReceiveResponse(c) \/ Deadline(c)
             \/ ClientExit(c) \/ ClientIgnores(c) \/ ClientKeypairExpires(c)
             \/ ServerMeow(c) \/ ServerInitiation(c) \/ ServerIgnores(c)
             \/ ServerKeypairExpires(c)
      PROVE  UNCHANGED trafficVars
  BY <1>5 DEF ClientStart, SendMeow, ReceiveMeowed, SendInitiation,
      ReceiveResponse,
     Deadline, ClientExit, ClientIgnores, ClientKeypairExpires, ServerMeow,
     ServerInitiation, ServerIgnores, ServerKeypairExpires
<1>6. ServerRestart \/ Lose \/ UNCHANGED vars => UNCHANGED trafficVars
  BY DEF ServerRestart, Lose, vars
<1>7. QED
  BY <1>1, <1>2, <1>3, <1>4, <1>5, <1>6
     DEF Next, UpChannel!Next, DownChannel!Next, UpChannel!Packet,
         DownChannel!Packet, Packet

(* The data plane implements a datagram service each way: a packet a trusted*)
(* client sent (or was sent), delivered at most once, whatever the relay    *)
(* repeats, the clients restart and the server forgets (encrypt,            *)
(* handle_packet, handle_frame).                                            *)
THEOREM TrafficRefines == Spec => TrafficIsDatagrams
<1>1. TypeOK /\ Agreed /\ Flowing /\ [Next]_vars /\ TypeOK' => Flowing'
  BY FlowingStep
<1>2. Spec => []Flowing
  BY <1>1, FlowingInit, TypeCorrect, SessionsAgreed, PTL DEF Spec
<1>3. Init => UpChannel!Init /\ DownChannel!Init
  BY DEF Init, UpChannel!Init, DownChannel!Init, UpChannel!Packet,
      DownChannel!Packet, Packet
<1>4. TypeOK /\ Flowing /\ [Next]_vars =>
        /\ [UpChannel!Next]_<<upSent, upGot>>
        /\ [DownChannel!Next]_<<downSent, downGot>>
  BY TrafficStep
<1>5. QED
  BY <1>2, <1>3, <1>4, TypeCorrect, PTL
     DEF Spec, TrafficIsDatagrams, UpChannel!Spec, DownChannel!Spec
=============================================================================
