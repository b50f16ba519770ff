-------------------------- MODULE DialledRelay_proof --------------------------
(***************************************************************************)
(* Proofs about the two proxies that dial, for any requests, any number of  *)
(* bytes and any buffers: the dialogue that the threads of SocksProxy hold  *)
(* with the application on one socket, and that the connections of          *)
(* SocksProxy and of LocalTcpForwarder implement BytePipe, both ways.       *)
(***************************************************************************)
EXTENDS SocksProxy, StreamLemmas

(***************************************************************************)
(* The inductive invariant.                                                 *)
(***************************************************************************)

(* What the proxy may tell an application.                                  *)
Reply == Refusals \cup {"method", "no method", "success"}

(* The dialogue's variables keep their types.                               *)
SocksTypes ==
  /\ faults \in Requests /\ asked \in 0..Parts /\ parsed \in 0..asked
  /\ handshake \in {"none", "reading", "ready", "adopted", "over"}
  /\ replied \in BOOLEAN
  /\ replies \in Seq(Reply) /\ answers \in Seq(Reply)

(* No check of the first n parts of the request fails.                      *)
Sound(n) ==
  \A i \in DOMAIN Checks : Checks[i].part <= n => Checks[i].fault \notin faults

(* Where the handshake thread is, and what has been told by then: nothing   *)
(* before the greeting, the chosen method behind it, and no request with a  *)
(* fault comes out of the thread.                                           *)
Stage ==
  /\ handshake = "none" => parsed = 0 /\ Replies = <<>>
  /\ handshake = "reading" =>
       /\ parsed < Parts /\ Sound(parsed)
       /\ pc # "killed" =>
            Replies = IF parsed >= 2 THEN <<"method">> ELSE <<>>
  /\ handshake \in {"ready", "adopted"} => faults = {}
  /\ handshake = "ready" /\ pc # "killed" => Replies = <<"method">>

(* Where the event loop is with the connection, and what that says of the   *)
(* dialogue: it has the connection only once the request is adopted, and    *)
(* until "success" is told it only waits.                                   *)
Loop ==
  /\ handshake # "none" => accepted = "taken"
  /\ handshake # "adopted" => pc \in {"new", "killed"}
  /\ handshake = "adopted" => pc # "new"
  /\ replied => dial = "connected" /\ handshake = "adopted"
  /\ ~replied => pc \in {"new", "idle", "done", "killed"}
  /\ pc = "idle" /\ ~replied => Replies = <<"method">>
  /\ socket \in {"closed", "released"} =>
       pc \in {"done", "killed"} \/ handshake = "over"

(* One reply to the greeting, one to the request.                           *)
Shape ==
  /\ Len(Replies) <= 2
  /\ Len(Replies) = 1 => Replies[1] \in {"method", "no method"}
  /\ Len(Replies) = 2 =>
       Replies[1] = "method" /\ Replies[2] \in Refusals \cup {"success"}

(* Before "success" nothing of the service is on its way to the application.*)
(* The reset of the socket may overtake "success", and then takes the data  *)
(* with it, too.                                                            *)
Data ==
  /\ ~replied => /\ toHost = <<>> /\ hostGot = <<>>
                 /\ \A i \in DOMAIN Replies : Replies[i] # "success"
  /\ replied => \/ Replies = <<"method", "success">>
                \/ socket = "released" /\ toHost = <<>> /\ hostGot = <<>>
  /\ hostGot # <<>> => replies = <<>>

(* A refusal of a faulty request is the reply to its first fault.           *)
Blame ==
  faults # {} =>
    \A i \in DOMAIN Replies : Replies[i] # "method" =>
      \E k \in DOMAIN Checks :
        /\ Replies[i] = Checks[k].reply /\ Checks[k].fault \in faults
        /\ \A j \in DOMAIN Checks : Checks[j].fault \in faults => k <= j

(* The invariant: together the parts are inductive.                         *)
DialogueInv == SocksTypes /\ Stage /\ Loop /\ Shape /\ Data /\ Blame

(***************************************************************************)
(* Short sequences, and the sequence of replies.                            *)
(***************************************************************************)

(* What follows the only one is the second.                                 *)
LEMMA SecondAppended ==
  ASSUME NEW S, NEW s \in Seq(S), NEW e \in S, Len(s) = 1
  PROVE  /\ Append(s, e) \in Seq(S) /\ Len(Append(s, e)) = 2
         /\ Append(s, e)[1] = s[1] /\ Append(s, e)[2] = e
<1>1. Append(s, e) \in Seq(S)
  BY AppendProperties
<1>2. Len(Append(s, e)) = 2
  <2>1. Len(Append(s, e)) = Len(s) + 1
    BY AppendProperties
  <2>2. QED
    BY <2>1
<1>3. Append(s, e)[1] = s[1]
  <2>1. 1 \in 1..Len(s)
    OBVIOUS
  <2>2. QED
    BY <2>1, AppendProperties
<1>4. Append(s, e)[2] = e
  <2>1. Append(s, e)[Len(s) + 1] = e
    BY AppendProperties
  <2>2. Len(s) + 1 = 2
    OBVIOUS
  <2>3. QED
    BY <2>1, <2>2
<1>5. QED
  BY <1>1, <1>2, <1>3, <1>4

(* Sequences of two elements are equal when the elements are.               *)
LEMMA TwoSame ==
  ASSUME NEW S, NEW s \in Seq(S), NEW t \in Seq(S),
         Len(s) = 2, Len(t) = 2, s[1] = t[1], s[2] = t[2]
  PROVE  s = t
<1>1. \A i \in 1..Len(s) : s[i] = t[i]
  <2>1. ASSUME NEW i \in 1..Len(s) PROVE i = 1 \/ i = 2
    OBVIOUS
  <2>2. QED
    BY <2>1
<1>2. QED
  BY <1>1, SeqEqual, ZenonT(60)

(* A pair is what appending makes of a single element.                      *)
LEMMA Pair ==
  ASSUME NEW S, NEW a \in S, NEW b \in S
  PROVE  Append(<<a>>, b) = <<a, b>>
<1>1. /\ <<a>> \in Seq(S) /\ Len(<<a>>) = 1 /\ <<a>>[1] = a
      /\ <<a, b>> \in Seq(S) /\ Len(<<a, b>>) = 2
      /\ <<a, b>>[1] = a /\ <<a, b>>[2] = b
  OBVIOUS
<1> DEFINE s == <<a>>
           t == <<a, b>>
<1>2. /\ s \in Seq(S) /\ Len(s) = 1 /\ s[1] = a
      /\ t \in Seq(S) /\ Len(t) = 2 /\ t[1] = a /\ t[2] = b
  BY <1>1
<1> HIDE DEF s, t
<1>3. s \in Seq(S) /\ Len(s) = 1
  BY <1>2
<1>4. PICK u : u = Append(s, b)
  OBVIOUS
<1>5. u \in Seq(S) /\ Len(u) = 2 /\ u[1] = s[1] /\ u[2] = b
  BY <1>3, <1>4, SecondAppended
<1>6. u[1] = t[1] /\ u[2] = t[2]
  BY <1>2, <1>5
<1>7. u = t
  BY <1>2, <1>5, <1>6, TwoSame
<1>8. QED
  BY <1>4, <1>7 DEF s, t

(* The sequence of replies, by its elements.                                *)
LEMMA Told ==
  ASSUME SocksTypes
  PROVE  /\ Replies \in Seq(Reply) /\ Len(Replies) \in Nat
         /\ DOMAIN Replies = 1..Len(Replies)
         /\ Len(answers) \in Nat /\ Len(answers) <= Len(Replies)
         /\ \A i \in 1..Len(answers) : Replies[i] = answers[i]
         /\ \A i \in 1..Len(Replies) : Replies[i] \in Reply
         /\ replies = <<>> => Replies = answers
         /\ Len(Replies) = 0 => Replies = <<>>
<1>1. replies \in Seq(Reply) /\ answers \in Seq(Reply)
  BY DEF SocksTypes
<1>2. /\ Replies \in Seq(Reply) /\ Len(Replies) = Len(answers) + Len(replies)
      /\ \A i \in 1..Len(Replies) :
           Replies[i] = IF i <= Len(answers) THEN answers[i]
                        ELSE replies[i - Len(answers)]
  BY <1>1, ConcatProperties DEF Replies
<1>3. Len(replies) \in Nat /\ Len(answers) \in Nat
  BY <1>1
<1>4. replies = <<>> => Replies = answers
  BY <1>1, NoneQueued DEF Replies
<1>5. Len(Replies) = 0 => Replies = <<>>
  BY <1>2, NoneQueued
<1>6. \A i \in 1..Len(answers) : Replies[i] = answers[i]
  BY <1>2, <1>3
<1>7. DOMAIN Replies = 1..Len(Replies) /\ Len(Replies) \in Nat
  BY <1>2
<1>8. \A i \in 1..Len(Replies) : Replies[i] \in Reply
  BY <1>2
<1>9. QED
  BY <1>2, <1>3, <1>4, <1>5, <1>6, <1>7, <1>8

(* A reply more.                                                            *)
LEMMA Tells ==
  ASSUME SocksTypes, NEW r \in Reply,
         replies' = Append(replies, r), answers' = answers
  PROVE  /\ replies' \in Seq(Reply) /\ answers' \in Seq(Reply)
         /\ Replies' = Append(Replies, r)
         /\ Replies = <<>> => Replies' = <<r>>
         /\ Replies = <<"method">> => Replies' = <<"method", r>>
<1>1. replies \in Seq(Reply) /\ answers \in Seq(Reply)
  BY DEF SocksTypes
<1>2. /\ Append(replies, r) \in Seq(Reply)
      /\ answers \o Append(replies, r) = Append(answers \o replies, r)
  BY <1>1, LastAppended
<1>3. Replies' = answers' \o replies'
  BY DEF Replies
<1>4. Replies' = Append(Replies, r)
  BY <1>2, <1>3 DEF Replies
<1>5. Append(<<>>, r) = <<r>>
  OBVIOUS
<1>6. Append(<<"method">>, r) = <<"method", r>>
  <2>1. "method" \in Reply
    BY DEF Reply
  <2>2. QED
    BY <2>1, Pair
<1>7. QED
  BY <1>1, <1>2, <1>4, <1>5, <1>6

(* None more.                                                               *)
LEMMA TellsNothing ==
  ASSUME SocksTypes, UNCHANGED <<replies, answers>>
  PROVE  /\ replies' \in Seq(Reply) /\ answers' \in Seq(Reply)
         /\ Replies' = Replies
BY DEF SocksTypes, Replies

(***************************************************************************)
(* The tests of begin_handshake().                                          *)
(***************************************************************************)

(* The table of begin_handshake()'s tests: where in the request each is made*)
(* ...                                                                      *)
LEMMA CheckParts ==
  /\ DOMAIN Checks = 1..7
  /\ Checks[1].part = 1 /\ Checks[2].part = 2 /\ Checks[3].part = 3
  /\ Checks[4].part = 3 /\ Checks[5].part = 3 /\ Checks[6].part = 5
  /\ Checks[7].part = 5
<1>1. DOMAIN Checks = 1..7
  BY DEF Checks
<1>2. Checks[1].part = 1
  BY DEF Checks
<1>3. Checks[2].part = 2
  BY DEF Checks
<1>4. Checks[3].part = 3
  BY DEF Checks
<1>5. Checks[4].part = 3
  BY DEF Checks
<1>6. Checks[5].part = 3
  BY DEF Checks
<1>7. Checks[6].part = 5
  BY DEF Checks
<1>8. Checks[7].part = 5
  BY DEF Checks
<1>9. QED
  BY <1>1, <1>2, <1>3, <1>4, <1>5, <1>6, <1>7, <1>8

(* ... and what is told if it fails.                                        *)
LEMMA CheckReplies ==
  /\ Checks[1].reply = "none" /\ Checks[2].reply = "no method"
  /\ Checks[3].reply = "none" /\ Checks[4].reply = "bad command"
  /\ Checks[5].reply = "bad address type" /\ Checks[6].reply = "failure"
  /\ Checks[7].reply = "unreachable"
<1>1. Checks[1].reply = "none"
  BY DEF Checks
<1>2. Checks[2].reply = "no method"
  BY DEF Checks
<1>3. Checks[3].reply = "none"
  BY DEF Checks
<1>4. Checks[4].reply = "bad command"
  BY DEF Checks
<1>5. Checks[5].reply = "bad address type"
  BY DEF Checks
<1>6. Checks[6].reply = "failure"
  BY DEF Checks
<1>7. Checks[7].reply = "unreachable"
  BY DEF Checks
<1>8. QED
  BY <1>1, <1>2, <1>3, <1>4, <1>5, <1>6, <1>7

(* There are seven.                                                         *)
LEMMA Indices ==
  \A i \in 1..7 : i = 1 \/ i = 2 \/ i = 3 \/ i = 4 \/ i = 5 \/ i = 6 \/ i = 7
OBVIOUS

(* The tests are listed in the order of the parts they read.                *)
LEMMA ChecksInOrder ==
  /\ \A i \in 1..7 : /\ Checks[i].part \in {1, 2, 3, 5}
                     /\ Checks[i].part = 1 => i = 1
                     /\ Checks[i].part = 2 => i = 2
  /\ \A i, j \in 1..7 : Checks[i].part < Checks[j].part => i < j
<1>1. ASSUME NEW i \in 1..7
      PROVE  /\ Checks[i].part \in {1, 2, 3, 5}
             /\ Checks[i].part = 1 => i = 1
             /\ Checks[i].part = 2 => i = 2
  BY CheckParts, Indices
<1>2. ASSUME NEW i \in 1..7, NEW j \in 1..7, Checks[i].part < Checks[j].part
      PROVE  i < j
  <2>0. SUFFICES ASSUME j <= i PROVE FALSE
    OBVIOUS
  <2>1. CASE i = 1
    <3>1. j = 1
      BY <2>0, <2>1, Indices
    <3>2. Checks[j].part \in {1}
      BY CheckParts, <3>1
    <3>3. Checks[i].part = 1
      BY CheckParts, <2>1
    <3>4. QED
      BY <1>2, <3>2, <3>3
  <2>2. CASE i = 2
    <3>1. j = 1 \/ j = 2
      BY <2>0, <2>2, Indices
    <3>2. Checks[j].part \in {1, 2}
      BY CheckParts, <3>1
    <3>3. Checks[i].part = 2
      BY CheckParts, <2>2
    <3>4. QED
      BY <1>2, <3>2, <3>3
  <2>3. CASE i = 3
    <3>1. j = 1 \/ j = 2 \/ j = 3
      BY <2>0, <2>3, Indices
    <3>2. Checks[j].part \in {1, 2, 3}
      BY CheckParts, <3>1
    <3>3. Checks[i].part = 3
      BY CheckParts, <2>3
    <3>4. QED
      BY <1>2, <3>2, <3>3
  <2>4. CASE i = 4
    <3>1. j = 1 \/ j = 2 \/ j = 3 \/ j = 4
      BY <2>0, <2>4, Indices
    <3>2. Checks[j].part \in {1, 2, 3}
      BY CheckParts, <3>1
    <3>3. Checks[i].part = 3
      BY CheckParts, <2>4
    <3>4. QED
      BY <1>2, <3>2, <3>3
  <2>5. CASE i = 5
    <3>1. j = 1 \/ j = 2 \/ j = 3 \/ j = 4 \/ j = 5
      BY <2>0, <2>5, Indices
    <3>2. Checks[j].part \in {1, 2, 3}
      BY CheckParts, <3>1
    <3>3. Checks[i].part = 3
      BY CheckParts, <2>5
    <3>4. QED
      BY <1>2, <3>2, <3>3
  <2>6. CASE i = 6
    <3>1. j = 1 \/ j = 2 \/ j = 3 \/ j = 4 \/ j = 5 \/ j = 6
      BY <2>0, <2>6, Indices
    <3>2. Checks[j].part \in {1, 2, 3, 5}
      BY CheckParts, <3>1
    <3>3. Checks[i].part = 5
      BY CheckParts, <2>6
    <3>4. QED
      BY <1>2, <3>2, <3>3
  <2>7. CASE i = 7
    <3>1. j = 1 \/ j = 2 \/ j = 3 \/ j = 4 \/ j = 5 \/ j = 6 \/ j = 7
      BY <2>0, <2>7, Indices
    <3>2. Checks[j].part \in {1, 2, 3, 5}
      BY CheckParts, <3>1
    <3>3. Checks[i].part = 5
      BY CheckParts, <2>7
    <3>4. QED
      BY <1>2, <3>2, <3>3
  <2>8. QED
    BY <2>1, <2>2, <2>3, <2>4, <2>5, <2>6, <2>7, Indices
<1>3. QED
  BY <1>1, <1>2

(* A reply is a refusal, and but for "none" it names its test.              *)
LEMMA RepliesToChecks ==
  /\ \A i \in 1..7 : /\ Checks[i].reply \in Refusals \cup {"none", "no method"}
                     /\ Checks[i].reply = "no method" => i = 2
  /\ \A i, j \in 1..7 :
       Checks[i].reply = Checks[j].reply => i = j \/ Checks[i].reply = "none"
<1>1. ASSUME NEW i \in 1..7
      PROVE  /\ Checks[i].reply \in Refusals \cup {"none", "no method"}
             /\ Checks[i].reply = "no method" => i = 2
  <2>1. CASE i = 1
    <3>1. Checks[i].reply = "none"
      BY CheckReplies, <2>1
    <3>2. QED
      BY <2>1, <3>1 DEF Refusals
  <2>2. CASE i = 2
    <3>1. Checks[i].reply = "no method"
      BY CheckReplies, <2>2
    <3>2. QED
      BY <2>2, <3>1 DEF Refusals
  <2>3. CASE i = 3
    <3>1. Checks[i].reply = "none"
      BY CheckReplies, <2>3
    <3>2. QED
      BY <2>3, <3>1 DEF Refusals
  <2>4. CASE i = 4
    <3>1. Checks[i].reply = "bad command"
      BY CheckReplies, <2>4
    <3>2. QED
      BY <2>4, <3>1 DEF Refusals
  <2>5. CASE i = 5
    <3>1. Checks[i].reply = "bad address type"
      BY CheckReplies, <2>5
    <3>2. QED
      BY <2>5, <3>1 DEF Refusals
  <2>6. CASE i = 6
    <3>1. Checks[i].reply = "failure"
      BY CheckReplies, <2>6
    <3>2. QED
      BY <2>6, <3>1 DEF Refusals
  <2>7. CASE i = 7
    <3>1. Checks[i].reply = "unreachable"
      BY CheckReplies, <2>7
    <3>2. QED
      BY <2>7, <3>1 DEF Refusals
  <2>8. QED
    BY <2>1, <2>2, <2>3, <2>4, <2>5, <2>6, <2>7, Indices
<1>2. ASSUME NEW i \in 1..7, NEW j \in 1..7, Checks[i].reply = Checks[j].reply
      PROVE  i = j \/ Checks[i].reply = "none"
  <2>1. CASE i = 1
    BY CheckReplies, <2>1
  <2>2. CASE i = 2
    <3>1. Checks[i].reply = "no method"
      BY CheckReplies, <2>2
    <3>2. Checks[j].reply = "no method"
      BY <1>2, <3>1
    <3>3. j # 1
      BY CheckReplies, <3>2
    <3>4. j # 3
      BY CheckReplies, <3>2
    <3>5. j # 4
      BY CheckReplies, <3>2
    <3>6. j # 5
      BY CheckReplies, <3>2
    <3>7. j # 6
      BY CheckReplies, <3>2
    <3>8. j # 7
      BY CheckReplies, <3>2
    <3>9. QED
      BY <2>2, <3>3, <3>4, <3>5, <3>6, <3>7, <3>8, Indices
  <2>3. CASE i = 3
    BY CheckReplies, <2>3
  <2>4. CASE i = 4
    <3>1. Checks[i].reply = "bad command"
      BY CheckReplies, <2>4
    <3>2. Checks[j].reply = "bad command"
      BY <1>2, <3>1
    <3>3. j # 1
      BY CheckReplies, <3>2
    <3>4. j # 2
      BY CheckReplies, <3>2
    <3>5. j # 3
      BY CheckReplies, <3>2
    <3>6. j # 5
      BY CheckReplies, <3>2
    <3>7. j # 6
      BY CheckReplies, <3>2
    <3>8. j # 7
      BY CheckReplies, <3>2
    <3>9. QED
      BY <2>4, <3>3, <3>4, <3>5, <3>6, <3>7, <3>8, Indices
  <2>5. CASE i = 5
    <3>1. Checks[i].reply = "bad address type"
      BY CheckReplies, <2>5
    <3>2. Checks[j].reply = "bad address type"
      BY <1>2, <3>1
    <3>3. j # 1
      BY CheckReplies, <3>2
    <3>4. j # 2
      BY CheckReplies, <3>2
    <3>5. j # 3
      BY CheckReplies, <3>2
    <3>6. j # 4
      BY CheckReplies, <3>2
    <3>7. j # 6
      BY CheckReplies, <3>2
    <3>8. j # 7
      BY CheckReplies, <3>2
    <3>9. QED
      BY <2>5, <3>3, <3>4, <3>5, <3>6, <3>7, <3>8, Indices
  <2>6. CASE i = 6
    <3>1. Checks[i].reply = "failure"
      BY CheckReplies, <2>6
    <3>2. Checks[j].reply = "failure"
      BY <1>2, <3>1
    <3>3. j # 1
      BY CheckReplies, <3>2
    <3>4. j # 2
      BY CheckReplies, <3>2
    <3>5. j # 3
      BY CheckReplies, <3>2
    <3>6. j # 4
      BY CheckReplies, <3>2
    <3>7. j # 5
      BY CheckReplies, <3>2
    <3>8. j # 7
      BY CheckReplies, <3>2
    <3>9. QED
      BY <2>6, <3>3, <3>4, <3>5, <3>6, <3>7, <3>8, Indices
  <2>7. CASE i = 7
    <3>1. Checks[i].reply = "unreachable"
      BY CheckReplies, <2>7
    <3>2. Checks[j].reply = "unreachable"
      BY <1>2, <3>1
    <3>3. j # 1
      BY CheckReplies, <3>2
    <3>4. j # 2
      BY CheckReplies, <3>2
    <3>5. j # 3
      BY CheckReplies, <3>2
    <3>6. j # 4
      BY CheckReplies, <3>2
    <3>7. j # 5
      BY CheckReplies, <3>2
    <3>8. j # 6
      BY CheckReplies, <3>2
    <3>9. QED
      BY <2>7, <3>3, <3>4, <3>5, <3>6, <3>7, <3>8, Indices
  <2>8. QED
    BY <2>1, <2>2, <2>3, <2>4, <2>5, <2>6, <2>7, Indices
<1>3. QED
  BY <1>1, <1>2

(* FirstFailed is what its name says.                                       *)
LEMMA FirstIsFirst ==
  ASSUME NEW part, Failed(part) # {}
  PROVE  /\ FirstFailed(part) \in Failed(part)
         /\ \A j \in Failed(part) : FirstFailed(part) <= j
<1>1. Failed(part) \subseteq 1..7
  BY CheckParts DEF Failed
<1>2. \E i \in Failed(part) : \A j \in Failed(part) : i <= j
  <2>1. ASSUME NEW S \in SUBSET (1..7),
               ~ \E i \in S : \A j \in S : i <= j
        PROVE  S = {}
    <3>1. 1 \notin S
      BY <2>1
    <3>2. 2 \notin S
      BY <2>1, <3>1, Indices
    <3>3. 3 \notin S
      BY <2>1, <3>1, <3>2, Indices
    <3>4. 4 \notin S
      BY <2>1, <3>1, <3>2, <3>3, Indices
    <3>5. 5 \notin S
      BY <2>1, <3>1, <3>2, <3>3, <3>4, Indices
    <3>6. 6 \notin S
      BY <2>1, <3>1, <3>2, <3>3, <3>4, <3>5, Indices
    <3>7. 7 \notin S
      BY <2>1, <3>1, <3>2, <3>3, <3>4, <3>5, <3>6, Indices
    <3>8. QED
      BY <3>1, <3>2, <3>3, <3>4, <3>5, <3>6, <3>7, Indices
  <2>2. QED
    BY <1>1, <2>1
<1>3. QED
  BY <1>2 DEF FirstFailed

(* What the handshake thread finds and writes after one more part.          *)
LEMMA Responds ==
  ASSUME NEW n \in 0..4, Sound(n)
  PROVE  /\ Failed(n + 1) = {} =>
              /\ Sound(n + 1)
              /\ Response(n + 1) = IF n + 1 = 2 THEN <<"method">> ELSE <<>>
         /\ Failed(n + 1) # {} =>
              \E k \in 1..7 :
                /\ Checks[k].part = n + 1 /\ Checks[k].fault \in faults
                /\ \A j \in 1..7 : Checks[j].fault \in faults => k <= j
                /\ Response(n + 1) = IF Checks[k].reply = "none" THEN <<>>
                                     ELSE <<Checks[k].reply>>
<1>1. ASSUME Failed(n + 1) = {}
      PROVE  /\ Sound(n + 1)
             /\ Response(n + 1) = IF n + 1 = 2 THEN <<"method">> ELSE <<>>
  <2>1. ASSUME NEW i \in DOMAIN Checks, Checks[i].part <= n + 1
        PROVE  Checks[i].fault \notin faults
    <3>1. Checks[i].part \in {1, 2, 3, 5}
      BY CheckParts, ChecksInOrder
    <3>2. Checks[i].part <= n \/ Checks[i].part = n + 1
      BY <2>1, <3>1
    <3>3. QED
      BY <1>1, <3>2 DEF Sound, Failed
  <2>2. Response(n + 1) = IF n + 1 = 2 THEN <<"method">> ELSE <<>>
    BY <1>1 DEF Response
  <2>3. QED
    BY <2>1, <2>2 DEF Sound
<1>2. ASSUME Failed(n + 1) # {}
      PROVE  \E k \in 1..7 :
               /\ Checks[k].part = n + 1 /\ Checks[k].fault \in faults
               /\ \A j \in 1..7 : Checks[j].fault \in faults => k <= j
               /\ Response(n + 1) = IF Checks[k].reply = "none" THEN <<>>
                                    ELSE <<Checks[k].reply>>
  <2>1. PICK k : k = FirstFailed(n + 1)
    OBVIOUS
  <2>2. k \in Failed(n + 1) /\ \A j \in Failed(n + 1) : k <= j
    BY <1>2, <2>1, FirstIsFirst
  <2>3. /\ k \in 1..7 /\ Checks[k].part = n + 1 /\ Checks[k].fault \in faults
    BY <2>2, CheckParts DEF Failed
  <2>4. ASSUME NEW j \in 1..7, Checks[j].fault \in faults
        PROVE  k <= j
    <3>1. CASE Checks[j].part = n + 1
      BY <2>2, <2>4, <3>1, CheckParts DEF Failed
    <3>2. CASE Checks[j].part # n + 1
      <4>1. ~(Checks[j].part <= n)
        BY <2>4, CheckParts DEF Sound
      <4>2. Checks[j].part \in {1, 2, 3, 5}
        BY ChecksInOrder
      <4>3. Checks[k].part < Checks[j].part
        BY <2>3, <3>2, <4>1, <4>2
      <4>4. k < j
        BY <2>3, <4>3, ChecksInOrder
      <4>5. QED
        BY <2>3, <4>4
    <3>3. QED
      BY <3>1, <3>2
  <2>5. Response(n + 1) = IF Checks[k].reply = "none" THEN <<>>
                          ELSE <<Checks[k].reply>>
    BY <1>2, <2>1 DEF Response
  <2>6. QED
    BY <2>3, <2>4, <2>5
<1>3. QED
  BY <1>1, <1>2

(* A request that has passed all checks has no fault.                       *)
LEMMA PassedIsFaultless ==
  ASSUME faults \in Requests, Sound(5)
  PROVE  faults = {}
<1>1. \A i \in DOMAIN Checks : Checks[i].fault \notin faults
  <2>1. ASSUME NEW i \in DOMAIN Checks PROVE Checks[i].part <= 5
    BY CheckParts, ChecksInOrder
  <2>2. QED
    BY <2>1 DEF Sound
<1>2. faults \subseteq {Checks[i].fault : i \in DOMAIN Checks}
  BY RequestsAssumption
<1>3. QED
  BY <1>1, <1>2

(***************************************************************************)
(* The steps.                                                               *)
(***************************************************************************)

(* Steps that do not touch the dialogue.                                    *)
LEMMA DialogueKept ==
  ASSUME DialogueInv, UNCHANGED socksVars, pc = "killed" => pc' = "killed"
  PROVE  (SocksTypes /\ Stage /\ Shape /\ Blame)' /\ Replies' = Replies
<1>1. /\ faults' = faults /\ asked' = asked /\ parsed' = parsed
      /\ handshake' = handshake /\ replied' = replied
      /\ replies' = replies /\ answers' = answers
  BY DEF socksVars
<1>2. Replies' = Replies
  BY <1>1 DEF Replies
<1>3. SocksTypes'
  BY <1>1 DEF DialogueInv, SocksTypes
<1>4. Stage'
  BY <1>1, <1>2 DEF DialogueInv, Stage, Sound
<1>5. Shape'
  BY <1>2 DEF DialogueInv, Shape
<1>6. Blame'
  BY <1>1, <1>2 DEF DialogueInv, Blame
<1>7. QED
  BY <1>2, <1>3, <1>4, <1>5, <1>6

(* Moves of the event loop and of the socket that leave the dialogue alone. *)
LoopMoves ==
  /\ dial' = dial \/ dial' = "connected"
  /\ accepted' = accepted \/ accepted # "taken"
  /\ \/ pc' = pc
     \/ pc' = "killed"
     \/ pc' = "done" /\ pc = "idle"
     \/ replied /\ pc \notin {"new", "done", "killed"} /\ pc' # "new"
  /\ \/ socket' = socket
     \/ socket' = "open"
     \/ pc' \in {"done", "killed"}
     \/ socket = "closed"

(* They keep what is known of the loop; and a process stays killed.         *)
LEMMA LoopKept ==
  ASSUME DialogueInv, UNCHANGED socksVars, LoopMoves
  PROVE  Loop' /\ (pc = "killed" => pc' = "killed")
<1>1. /\ handshake' = handshake /\ replied' = replied
      /\ Replies' = Replies
  BY DEF socksVars, Replies
<1>2. (handshake # "none" => accepted = "taken")'
  BY <1>1 DEF LoopMoves, DialogueInv, Loop
<1>3. (handshake # "adopted" => pc \in {"new", "killed"})'
  BY <1>1 DEF LoopMoves, DialogueInv, Loop
<1>4. (handshake = "adopted" => pc # "new")'
  BY <1>1 DEF LoopMoves, DialogueInv, Loop
<1>5. (replied => dial = "connected" /\ handshake = "adopted")'
  BY <1>1 DEF LoopMoves, DialogueInv, Loop
<1>6. (~replied => pc \in {"new", "idle", "done", "killed"})'
  BY <1>1 DEF LoopMoves, DialogueInv, Loop
<1>7. (pc = "idle" /\ ~replied => Replies = <<"method">>)'
  BY <1>1 DEF LoopMoves, DialogueInv, Loop
<1>8. (socket \in {"closed", "released"} =>
         pc \in {"done", "killed"} \/ handshake = "over")'
  BY <1>1 DEF LoopMoves, DialogueInv, Loop
<1>9. pc = "killed" => pc' = "killed"
  BY DEF LoopMoves
<1>10. QED
  BY <1>2, <1>3, <1>4, <1>5, <1>6, <1>7, <1>8, <1>9 DEF Loop

(* No byte is written or read, only dropped.                                *)
DataStays ==
  /\ toHost' \in {toHost, <<>>} /\ hostGot' = hostGot
  /\ socket = "released" /\ replied => socket' = "released"

(* That keeps what is known of the service's bytes.                         *)
LEMMA DataKept ==
  ASSUME DialogueInv, UNCHANGED socksVars, DataStays
  PROVE  Data'
<1>1. replied' = replied /\ replies' = replies /\ Replies' = Replies
  BY DEF socksVars, Replies
<1>2. QED
  BY <1>1 DEF DialogueInv, Data, DataStays

(* So a step with both properties keeps the invariant.                      *)
LEMMA Undisturbed ==
  ASSUME DialogueInv, UNCHANGED socksVars, LoopMoves, DataStays
  PROVE  DialogueInv'
BY DialogueKept, LoopKept, DataKept DEF DialogueInv

(* The application reads a byte of the service.                             *)
LEMMA BytesRead ==
  ASSUME DialogueInv, HostRead, replies = <<>>,
         UNCHANGED <<dialVars, socksVars>>
  PROVE  DialogueInv'
<1>1. LoopMoves
  BY DEF HostRead, LoopMoves, loopVars, dialVars
<1>2. Data'
  <2>1. /\ replied' = replied /\ replies' = <<>> /\ Replies' = Replies
        /\ toHost # <<>> /\ socket' = socket
    BY DEF socksVars, Replies, HostRead
  <2>2. replied /\ Replies = <<"method", "success">>
    BY <2>1 DEF DialogueInv, Data
  <2>3. QED
    BY <2>1, <2>2 DEF Data
<1>3. QED
  BY <1>1, <1>2, DialogueKept, LoopKept DEF DialogueInv

(* write_all() writes a byte of the service.                                *)
LEMMA BytesWritten ==
  ASSUME DialogueInv, replied, Served!HostWrite,
         UNCHANGED <<dialVars, socksVars>>
  PROVE  DialogueInv'
<1>1. LoopMoves
  BY DEF Served!HostWrite, LoopMoves, dialVars
<1>2. Data'
  <2>1. /\ replied' = replied /\ replies' = replies /\ Replies' = Replies
        /\ hostGot' = hostGot /\ pc = "write"
    BY DEF socksVars, Replies, Served!HostWrite, Served!hostVars
  <2>2. Replies = <<"method", "success">>
    BY <2>1 DEF DialogueInv, Data, Loop
  <2>3. hostGot # <<>> => replies = <<>>
    BY DEF DialogueInv, Data
  <2>4. QED
    BY <2>1, <2>2, <2>3 DEF Data
<1>3. QED
  BY <1>1, <1>2, DialogueKept, LoopKept DEF DialogueInv

(* The application's steps: asking, reading, connecting, writing, ending.   *)
LEMMA ApplicationKeeps ==
  ASSUME DialogueInv, Application
  PROVE  DialogueInv'
<1>1. CASE Ask
  <2>1. /\ asked \in 0..Parts /\ asked < Parts /\ asked' = asked + 1
    BY <1>1 DEF Ask, DialogueInv, SocksTypes
  <2>2. asked' \in 0..Parts /\ parsed \in 0..asked'
    BY <2>1 DEF Parts, DialogueInv, SocksTypes
  <2>3. /\ UNCHANGED allVars /\ faults' = faults /\ parsed' = parsed
        /\ handshake' = handshake /\ replied' = replied
        /\ replies' = replies /\ answers' = answers
    BY <1>1 DEF Ask
  <2>4. SocksTypes'
    BY <2>2, <2>3 DEF DialogueInv, SocksTypes
  <2>5. Replies' = Replies
    BY <2>3 DEF Replies
  <2>6. /\ pc' = pc /\ dial' = dial /\ accepted' = accepted
        /\ socket' = socket /\ toHost' = toHost /\ hostGot' = hostGot
    BY <2>3 DEF allVars, vars, loopVars, dialVars, socketVars, hostVars
  <2>7. (Stage /\ Loop)'
    BY <2>3, <2>5, <2>6 DEF DialogueInv, Stage, Loop, Sound
  <2>8. (Shape /\ Data /\ Blame)'
    BY <2>3, <2>5, <2>6 DEF DialogueInv, Shape, Data, Blame
  <2>9. QED
    BY <2>4, <2>7, <2>8 DEF DialogueInv
<1>2. CASE HostReadReply
  <2>1. /\ UNCHANGED allVars /\ faults' = faults /\ parsed' = parsed
        /\ asked' = asked /\ handshake' = handshake /\ replied' = replied
        /\ answers' = Append(answers, Head(replies))
        /\ replies' = Tail(replies) /\ replies # <<>>
    BY <1>2 DEF HostReadReply
  <2>2. /\ answers' \in Seq(Reply) /\ replies' \in Seq(Reply)
        /\ answers' \o replies' = answers \o replies
    BY <2>1, HeadMoved DEF DialogueInv, SocksTypes
  <2>3. SocksTypes'
    BY <2>1, <2>2 DEF DialogueInv, SocksTypes
  <2>4. Replies' = Replies
    BY <2>2 DEF Replies
  <2>5. /\ pc' = pc /\ dial' = dial /\ accepted' = accepted
        /\ socket' = socket /\ toHost' = toHost /\ hostGot' = hostGot
    BY <2>1 DEF allVars, vars, loopVars, dialVars, socketVars, hostVars
  <2>6. (Stage /\ Loop)'
    BY <2>1, <2>4, <2>5 DEF DialogueInv, Stage, Loop, Sound
  <2>7. (Shape /\ Blame)'
    BY <2>1, <2>4 DEF DialogueInv, Shape, Blame
  <2>8. hostGot = <<>>
    BY <2>1 DEF DialogueInv, Data
  <2>9. Data'
    BY <2>1, <2>4, <2>5, <2>8 DEF DialogueInv, Data
  <2>10. QED
    BY <2>3, <2>6, <2>7, <2>9 DEF DialogueInv
<1>3. CASE replies = <<>> /\ HostRead /\ UNCHANGED <<dialVars, socksVars>>
  BY <1>3, BytesRead
<1>4. CASE HostReadEof /\ UNCHANGED <<dialVars, socksVars>>
  <2>1. LoopMoves /\ DataStays
    BY <1>4 DEF HostReadEof, LoopMoves, DataStays, loopVars, socketVars,
                dialVars
  <2>2. QED
    BY <1>4, <2>1, Undisturbed
<1>5. CASE HostConnects /\ UNCHANGED socksVars
  <2>1. ~replied
    BY <1>5 DEF HostConnects, DialogueInv, Loop
  <2>2. LoopMoves /\ DataStays
    BY <1>5, <2>1 DEF HostConnects, LoopMoves, DataStays, loopVars, hostVars
  <2>3. QED
    BY <1>5, <2>2, Undisturbed
<1>6. CASE HostSend /\ UNCHANGED <<dialVars, socksVars>>
  <2>1. LoopMoves /\ DataStays
    BY <1>6 DEF HostSend, LoopMoves, DataStays, loopVars, dialVars
  <2>2. QED
    BY <1>6, <2>1, Undisturbed
<1>7. CASE HostShut /\ UNCHANGED <<dialVars, socksVars>>
  <2>1. LoopMoves /\ DataStays
    BY <1>7 DEF HostShut, LoopMoves, DataStays, loopVars, socketVars, dialVars
  <2>2. QED
    BY <1>7, <2>1, Undisturbed
<1>8. CASE HostAbort /\ UNCHANGED <<dialVars, socksVars>>
  <2>1. LoopMoves /\ DataStays
    BY <1>8 DEF HostAbort, LoopMoves, DataStays, loopVars, dialVars
  <2>2. QED
    BY <1>8, <2>1, Undisturbed
<1>9. QED
  BY <1>1, <1>2, <1>3, <1>4, <1>5, <1>6, <1>7, <1>8
  DEF Application, ApplicationReads

(* Peer, lwIP, reader thread, acceptor, dial and the end of the program.    *)
LEMMA OthersKeep ==
  ASSUME DialogueInv,
         \/ (PeerNext \/ StreamNext \/ ReaderNext) /\ UNCHANGED dialVars
         \/ AcceptorNext \/ DialNext \/ Exit \/ UNCHANGED allVars,
         UNCHANGED socksVars
  PROVE  DialogueInv'
<1>1. CASE PeerNext /\ UNCHANGED dialVars
  <2>1. LoopMoves /\ DataStays
    BY <1>1 DEF PeerNext, PeerSend, PeerShut, PeerRead, PeerReadEof, PeerAbort,
         PeerGivesUp, LoopMoves, DataStays, loopVars, socketVars, hostVars,
         dialVars
  <2>2. QED
    BY <2>1, Undisturbed
<1>2. CASE StreamNext /\ UNCHANGED dialVars
  <2>1. LoopMoves /\ DataStays
    BY <1>2 DEF StreamNext, StreamRecv, StreamRecvEof, StreamError,
         ClosedPcbRecv, LoopMoves, DataStays, loopVars, socketVars, hostVars,
         dialVars
  <2>2. QED
    BY <2>1, Undisturbed
<1>3. CASE ReaderNext /\ UNCHANGED dialVars
  <2>1. LoopMoves /\ DataStays
    BY <1>3 DEF ReaderNext, ReaderCalls, ReaderReceives, ReaderPublishes,
         ReaderEof, ReaderFails, LoopMoves, DataStays, loopVars, socketVars,
         hostVars, dialVars
  <2>2. QED
    BY <2>1, Undisturbed
<1>4. CASE AcceptorNext
  <2>1. LoopMoves /\ DataStays
    BY <1>4 DEF AcceptorNext, AcceptorAccepts, AcceptorFails, LoopMoves,
         DataStays, vars, loopVars, socketVars, hostVars
  <2>2. QED
    BY <2>1, Undisturbed
<1>5. CASE DialNext
  <2>1. LoopMoves /\ DataStays
    BY <1>5 DEF DialNext, StreamConnected, Refused, LoopMoves, DataStays, vars,
         loopVars, socketVars, hostVars, dialVars
  <2>2. QED
    BY <2>1, Undisturbed
<1>6. CASE Exit
  <2>1. LoopMoves /\ DataStays
    BY <1>6 DEF Exit, LoopMoves, DataStays, hostVars
  <2>2. QED
    BY <2>1, Undisturbed
<1>7. CASE UNCHANGED allVars
  <2>1. LoopMoves /\ DataStays
    BY <1>7 DEF LoopMoves, DataStays, allVars, vars, loopVars, socketVars,
         hostVars, dialVars
  <2>2. QED
    BY <2>1, Undisturbed
<1>8. QED
  BY <1>1, <1>2, <1>3, <1>4, <1>5, <1>6, <1>7

(* The relay behind the replies.                                            *)
LEMMA RelayKeeps ==
  ASSUME DialogueInv, Relay
  PROVE  DialogueInv'
<1>1. replied /\ UNCHANGED socksVars /\ UNCHANGED dialVars
  BY DEF Relay
<1>2. CASE Served!HostWrite
  BY <1>1, <1>2, BytesWritten
<1>3. CASE Served!ServiceFailed \/ Served!HostWriteFails \/ Served!TakeFails
           \/ Served!CheckFails
  <2>1. LoopMoves /\ DataStays
    BY <1>1, <1>3 DEF Served!ServiceFailed, Served!HostWriteFails,
       Served!TakeFails, Served!CheckFails, Served!CloseBoth, LoopMoves,
       DataStays, Served!hostVars, dialVars, DialogueInv, Loop
  <2>2. QED
    BY <1>1, <2>1, Undisturbed
<1>4. CASE Served!ServiceRead \/ Served!Take
  <2>1. LoopMoves /\ DataStays
    BY <1>1, <1>4 DEF Served!ServiceRead, Served!Take, LoopMoves, DataStays,
       Served!socketVars, Served!hostVars, dialVars
  <2>2. QED
    BY <1>1, <2>1, Undisturbed
<1>5. CASE Served!HostWriteKills
  <2>1. LoopMoves /\ DataStays
    BY <1>1, <1>5 DEF Served!HostWriteKills, LoopMoves, DataStays,
       Served!hostVars, dialVars
  <2>2. QED
    BY <1>1, <2>1, Undisturbed
<1>6. CASE Served!Check
  <2>1. LoopMoves /\ DataStays
    <3>1. CASE Served!Drained
      BY <1>1, <1>6, <3>1 DEF Served!Check, Served!CloseBoth, LoopMoves,
         DataStays, Served!hostVars, dialVars, DialogueInv, Loop
    <3>2. CASE ~Served!Drained
      BY <1>1, <1>6, <3>2 DEF Served!Check, LoopMoves, DataStays,
         Served!hostVars, dialVars
    <3>3. QED
      BY <3>1, <3>2
  <2>2. QED
    BY <1>1, <2>1, Undisturbed
<1>7. QED
  BY <1>2, <1>3, <1>4, <1>5, <1>6 DEF Relay, Served!ServiceNext

(* A reply that cannot be written.                                          *)
LEMMA NoReplyKeeps ==
  ASSUME DialogueInv, ReplyFails \/ ReplyKills
  PROVE  DialogueInv'
<1>1. CASE ReplyFails
  <2>1. LoopMoves /\ DataStays /\ UNCHANGED socksVars
    BY <1>1 DEF ReplyFails, Served!CloseBoth, LoopMoves, DataStays, hostVars,
       dialVars
  <2>2. QED
    BY <2>1, Undisturbed
<1>2. CASE ReplyKills
  <2>1. LoopMoves /\ DataStays /\ UNCHANGED socksVars
    BY <1>2 DEF ReplyKills, LoopMoves, DataStays, hostVars
  <2>2. QED
    BY <2>1, Undisturbed
<1>3. QED
  BY <1>1, <1>2

(* A socket that is reset takes the replies with it that were not read.     *)
LEMMA RepliesDropped ==
  ASSUME DialogueInv, socket = "closed", socket' = "released",
         replies' = <<>>, toHost' = <<>>, hostGot' = hostGot,
         UNCHANGED <<pc, dial, accepted, faults, asked, parsed, handshake,
                     replied, answers>>
  PROVE  DialogueInv'
<1>1. /\ Len(Replies) \in Nat /\ Len(answers) \in Nat
      /\ DOMAIN Replies = 1..Len(Replies)
      /\ Len(answers) <= Len(Replies)
      /\ \A i \in 1..Len(answers) : Replies[i] = answers[i]
      /\ replies = <<>> => Replies = answers
  BY Told DEF DialogueInv
<1>2. SocksTypes'
  BY NoneQueued DEF DialogueInv, SocksTypes
<1>3. Replies' = answers /\ DOMAIN answers = 1..Len(answers)
  BY NoneQueued DEF Replies, DialogueInv, SocksTypes
<1>4. \A i \in DOMAIN answers : i \in DOMAIN Replies /\ answers[i] = Replies[i]
  BY <1>1, <1>3
<1>5. pc \in {"done", "killed"} \/ handshake = "over"
  BY DEF DialogueInv, Loop
<1>6. (Stage /\ Loop)'
  <2>1. CASE handshake = "none"
    <3>1. parsed = 0 /\ Replies = <<>>
      BY <2>1 DEF DialogueInv, Stage
    <3>2. Len(answers) = 0
      BY <1>1, <3>1, NoneQueued
    <3>3. answers = <<>>
      BY <3>2, NoneQueued DEF DialogueInv, SocksTypes
    <3>4. Stage'
      BY <1>3, <2>1, <3>1, <3>3 DEF Stage
    <3>5. Loop'
      BY <1>5, <2>1 DEF DialogueInv, Loop
    <3>6. QED
      BY <3>4, <3>5
  <2>2. CASE handshake \in {"reading", "ready"}
    <3>1. pc = "killed"
      BY <1>5, <2>2 DEF DialogueInv, Loop
    <3>2. Stage'
      BY <2>2, <3>1 DEF DialogueInv, Stage, Sound
    <3>3. Loop'
      BY <2>2, <3>1 DEF DialogueInv, Loop
    <3>4. QED
      BY <3>2, <3>3
  <2>3. CASE handshake = "adopted"
    <3>1. pc \in {"done", "killed"}
      BY <1>5, <2>3
    <3>2. Stage'
      BY <2>3 DEF DialogueInv, Stage
    <3>3. Loop'
      BY <2>3, <3>1 DEF DialogueInv, Loop
    <3>4. QED
      BY <3>2, <3>3
  <2>4. CASE handshake = "over"
    <3>1. Stage'
      BY <2>4 DEF Stage
    <3>2. Loop'
      BY <2>4 DEF DialogueInv, Loop
    <3>3. QED
      BY <3>1, <3>2
  <2>5. QED
    BY <2>1, <2>2, <2>3, <2>4 DEF DialogueInv, SocksTypes
<1>7. Shape'
  <2>1. Len(answers) <= 2
    <3>1. Len(Replies) <= 2
      BY DEF DialogueInv, Shape
    <3>2. QED
      BY <1>1, <3>1
  <2>2. ASSUME Len(answers) = 1 PROVE answers[1] \in {"method", "no method"}
    <3>1. Len(Replies) \in {1, 2}
      <4>1. Len(Replies) <= 2
        BY DEF DialogueInv, Shape
      <4>2. QED
        BY <1>1, <2>2, <4>1
    <3>2. answers[1] = Replies[1]
      <4>1. 1 \in 1..Len(answers)
        BY <2>2
      <4>2. QED
        BY <1>1, <4>1
    <3>3. Replies[1] \in {"method", "no method"}
      BY <3>1 DEF DialogueInv, Shape
    <3>4. QED
      BY <3>2, <3>3
  <2>3. ASSUME Len(answers) = 2
        PROVE  /\ answers[1] = "method"
               /\ answers[2] \in Refusals \cup {"success"}
    <3>1. Len(Replies) = 2
      <4>1. Len(Replies) <= 2
        BY DEF DialogueInv, Shape
      <4>2. QED
        BY <1>1, <2>3, <4>1
    <3>2. answers[1] = Replies[1] /\ answers[2] = Replies[2]
      <4>1. 1 \in 1..Len(answers) /\ 2 \in 1..Len(answers)
        BY <2>3
      <4>2. QED
        BY <1>1, <4>1
    <3>3. /\ Replies[1] = "method"
          /\ Replies[2] \in Refusals \cup {"success"}
      BY <3>1 DEF DialogueInv, Shape
    <3>4. QED
      BY <3>2, <3>3
  <2>4. QED
    BY <1>3, <2>1, <2>2, <2>3 DEF Shape
<1>8. Data'
  <2>1. CASE ~replied
    BY <1>3, <1>4, <2>1 DEF DialogueInv, Data
  <2>2. CASE replied /\ hostGot = <<>>
    BY <2>2 DEF Data
  <2>3. CASE replied /\ hostGot # <<>>
    <3>1. Replies' = Replies
      BY <1>1, <1>3, <2>3 DEF DialogueInv, Data
    <3>2. Replies = <<"method", "success">>
      BY <2>3 DEF DialogueInv, Data
    <3>3. QED
      BY <2>3, <3>1, <3>2 DEF Data
  <2>4. QED
    BY <2>1, <2>2, <2>3
<1>9. Blame'
  BY <1>3, <1>4 DEF DialogueInv, Blame
<1>10. QED
  BY <1>2, <1>6, <1>7, <1>8, <1>9 DEF DialogueInv

(* The kernel's release of a closed socket.                                 *)
LEMMA ReleaseKeeps ==
  ASSUME DialogueInv, SocksRelease
  PROVE  DialogueInv'
<1>1. /\ socket = "closed" /\ socket' = "released"
      /\ toHost' \in {toHost, <<>>} /\ replies' \in {<<>>, replies}
      /\ replies' = replies \/ toHost' = <<>>
      /\ hostGot' = hostGot
      /\ UNCHANGED <<loopVars, dialVars, faults, asked, parsed, handshake,
                     replied, answers>>
  BY DEF SocksRelease
<1>2. CASE replies' = replies
  <2>1. LoopMoves /\ DataStays /\ UNCHANGED socksVars
    BY <1>1, <1>2 DEF LoopMoves, DataStays, loopVars, dialVars, socksVars
  <2>2. QED
    BY <2>1, Undisturbed
<1>3. CASE replies' = <<>> /\ toHost' = <<>>
  <2>1. UNCHANGED <<pc, dial, accepted, faults, asked, parsed, handshake,
                    replied, answers>>
    BY <1>1 DEF loopVars, dialVars
  <2>2. QED
    BY <1>1, <1>3, <2>1, RepliesDropped
<1>4. QED
  BY <1>1, <1>2, <1>3

(* accept_new() starts the handshake thread.                                *)
LEMMA BeginKeeps ==
  ASSUME DialogueInv, BeginHandshake
  PROVE  DialogueInv'
<1>1. /\ pc = "new" /\ accepted' = "taken" /\ handshake' = "reading"
      /\ UNCHANGED <<vars, dial, faults, asked, parsed, replied, replies,
                     answers>>
      /\ handshake = "none"
  BY DEF BeginHandshake, DialogueInv, Loop
<1>2. /\ pc' = pc /\ socket' = socket /\ toHost' = toHost /\ hostGot' = hostGot
      /\ Replies' = Replies
  BY <1>1 DEF vars, loopVars, socketVars, hostVars, Replies
<1>3. parsed = 0 /\ Replies = <<>> /\ ~replied
  BY <1>1 DEF DialogueInv, Stage, Loop
<1>4. Sound(0)
  <2>1. \A i \in DOMAIN Checks : Checks[i].part \in {1, 2, 3, 5}
    BY CheckParts, ChecksInOrder
  <2>2. \A i \in DOMAIN Checks : ~(Checks[i].part <= 0)
    BY <2>1
  <2>3. QED
    BY <2>2 DEF Sound
<1>5. SocksTypes'
  BY <1>1 DEF DialogueInv, SocksTypes
<1>6. Stage'
  <2>1. Sound(0)'
    BY <1>1, <1>4 DEF Sound
  <2>2. parsed' = 0 /\ 0 < Parts /\ Sound(parsed)' /\ Replies' = <<>>
    BY <1>1, <1>2, <1>3, <2>1 DEF Parts, Sound
  <2>3. QED
    BY <1>1, <2>2 DEF Stage
<1>7. Loop'
  BY <1>1, <1>2, <1>3 DEF DialogueInv, Loop
<1>8. (Shape /\ Data /\ Blame)'
  BY <1>1, <1>2 DEF DialogueInv, Shape, Data, Blame
<1>9. QED
  BY <1>5, <1>6, <1>7, <1>8 DEF DialogueInv

(* What there is to know of a sequence of one ...                           *)
LEMMA Single ==
  ASSUME NEW e, NEW t, t = <<e>>
  PROVE  /\ Len(t) = 1 /\ Len(t) <= 2 /\ Len(t) # 2
         /\ t[1] = e /\ \A i \in DOMAIN t : t[i] = e
<1>1. Len(t) = 1 /\ t[1] = e /\ DOMAIN t = 1..1
  OBVIOUS
<1>2. \A i \in 1..1 : i = 1
  OBVIOUS
<1>3. QED
  BY <1>1, <1>2

(* ... and of a sequence of two.                                            *)
LEMMA Double ==
  ASSUME NEW d, NEW e, NEW t, t = <<d, e>>
  PROVE  /\ Len(t) = 2 /\ Len(t) <= 2 /\ Len(t) # 1
         /\ t[1] = d /\ t[2] = e /\ \A i \in DOMAIN t : t[i] \in {d, e}
<1>1. Len(t) = 2 /\ t[1] = d /\ t[2] = e /\ DOMAIN t = 1..2
  OBVIOUS
<1>2. \A i \in 1..2 : i = 1 \/ i = 2
  OBVIOUS
<1>3. QED
  BY <1>1, <1>2

(* The reply to the greeting.                                               *)
LEMMA OneTold ==
  ASSUME NEW r \in {"method", "no method"}, Replies' = <<r>>
  PROVE  Shape' /\ \A i \in DOMAIN Replies' : Replies'[i] = r
<1>1. PICK t : t = Replies'
  OBVIOUS
<1>2. /\ Len(t) = 1 /\ Len(t) <= 2 /\ Len(t) # 2
      /\ t[1] = r /\ \A i \in DOMAIN t : t[i] = r
  BY <1>1, Single
<1>3. QED
  BY <1>1, <1>2 DEF Shape

(* The reply to the request behind it.                                      *)
LEMMA TwoTold ==
  ASSUME NEW r \in Refusals \cup {"success"}, Replies' = <<"method", r>>
  PROVE  Shape' /\ \A i \in DOMAIN Replies' : Replies'[i] \in {"method", r}
<1>1. PICK t : t = Replies'
  OBVIOUS
<1>2. /\ Len(t) = 2 /\ Len(t) <= 2 /\ Len(t) # 1
      /\ t[1] = "method" /\ t[2] = r
      /\ \A i \in DOMAIN t : t[i] \in {"method", r}
  BY <1>1, Double
<1>3. QED
  BY <1>1, <1>2 DEF Shape

(* One read_exact() with the tests behind it: the first of them that fails  *)
(* is told, and nothing was told of the request before.                     *)
LEMMA HandshakeKeeps ==
  ASSUME DialogueInv, HandshakeStep
  PROVE  DialogueInv'
<1>0. PICK p : p = parsed + 1
  OBVIOUS
<1>1. /\ handshake = "reading" /\ pc # "killed" /\ asked > parsed
      /\ parsed' = p /\ replies' = replies \o Response(p)
      /\ IF Failed(p) # {}
         THEN handshake' = "over" /\ socket' = "closed"
         ELSE /\ handshake' = IF p = Parts THEN "ready" ELSE "reading"
              /\ socket' = socket
      /\ UNCHANGED <<loopVars, toHost, hostVars, dialVars, faults, asked,
                     replied, answers>>
  BY <1>0 DEF HandshakeStep, Reading
<1>2. /\ pc' = pc /\ dial' = dial /\ accepted' = accepted
      /\ toHost' = toHost /\ hostGot' = hostGot
  BY <1>1 DEF loopVars, dialVars, hostVars
<1>3. /\ parsed \in 0..4 /\ asked \in 0..5 /\ p \in 1..5 /\ p \in 0..asked
  <2>1. parsed \in Nat /\ asked \in 0..5 /\ parsed < 5
    BY <1>1 DEF DialogueInv, SocksTypes, Stage, Parts
  <2>2. QED
    BY <1>0, <1>1, <2>1
<1>4. /\ Sound(parsed) /\ Replies = IF parsed >= 2 THEN <<"method">> ELSE <<>>
      /\ pc = "new" /\ ~replied /\ accepted = "taken"
  BY <1>1 DEF DialogueInv, Stage, Loop
<1>5. /\ toHost = <<>> /\ hostGot = <<>>
      /\ \A i \in DOMAIN Replies : Replies[i] # "success"
  BY <1>4 DEF DialogueInv, Data
<1>6. /\ replies \in Seq(Reply) /\ answers \in Seq(Reply) /\ SocksTypes
      /\ faults \in Requests /\ Shape /\ Blame
      /\ socket \in {"closed", "released"} =>
           pc \in {"done", "killed"} \/ handshake = "over"
  BY DEF DialogueInv, SocksTypes, Loop
<1>7. ASSUME (SocksTypes /\ Stage /\ Shape /\ Blame)',
             \A i \in DOMAIN Replies' : Replies'[i] # "success"
      PROVE  DialogueInv'
  <2>1. handshake' \in {"over", "ready", "reading"}
    BY <1>1
  <2>2. Loop'
    <3>1. ~replied' /\ pc' = "new" /\ accepted' = "taken"
      BY <1>1, <1>2, <1>4
    <3>2. socket' \in {"closed", "released"} => handshake' = "over"
      BY <1>1, <1>4, <1>6
    <3>3. QED
      BY <2>1, <3>1, <3>2 DEF Loop
  <2>3. Data'
    BY <1>1, <1>2, <1>4, <1>5, <1>7 DEF Data
  <2>4. QED
    BY <1>7, <2>2, <2>3 DEF DialogueInv
<1>8. ASSUME replies' \in Seq(Reply)
      PROVE  SocksTypes'
  <2>1. handshake' \in {"over", "ready", "reading"}
    BY <1>1
  <2>2. /\ faults' = faults /\ asked' = asked /\ replied' = replied
        /\ answers' = answers
    BY <1>1
  <2>3. parsed' \in 0..asked
    BY <1>1, <1>3
  <2>4. QED
    BY <1>6, <1>8, <2>1, <2>2, <2>3 DEF SocksTypes
<1>9. CASE Failed(p) = {}
  <2>1. Sound(p) /\ Response(p) = IF p = 2 THEN <<"method">> ELSE <<>>
    BY <1>0, <1>3, <1>4, <1>9, Responds
  <2>2. handshake' = IF p = 5 THEN "ready" ELSE "reading"
    BY <1>1, <1>9 DEF Parts
  <2>3. Sound(parsed)'
    BY <1>1, <2>1 DEF Sound
  <2>4. CASE p = 2
    <3>1. Replies = <<>> /\ Response(p) = <<"method">>
      BY <1>0, <1>3, <1>4, <2>1, <2>4
    <3>2. "method" \in Reply
      BY DEF Reply
    <3>3. replies' = Append(replies, "method") /\ answers' = answers
      BY <1>1, <1>6, <3>1, <3>2, LastAppended
    <3>4. replies' \in Seq(Reply) /\ Replies' = <<"method">>
      BY <1>6, <3>1, <3>2, <3>3, Tells
    <3>5. Shape' /\ \A i \in DOMAIN Replies' : Replies'[i] = "method"
      BY <3>4, OneTold
    <3>6. Blame'
      BY <3>5 DEF Blame
    <3>7. handshake' = "reading" /\ parsed' = 2
      BY <1>1, <2>2, <2>4
    <3>8. Stage'
      <4>1. parsed' < Parts /\ parsed' >= 2
        BY <3>7 DEF Parts
      <4>2. QED
        BY <2>3, <3>4, <3>7, <4>1 DEF Stage
    <3>9. QED
      BY <1>7, <1>8, <3>4, <3>5, <3>6, <3>8
  <2>5. CASE p # 2
    <3>1. Response(p) = <<>>
      BY <2>1, <2>5
    <3>2. replies' = replies /\ answers' = answers
      BY <1>1, <1>6, <3>1, NoneQueued
    <3>3. replies' \in Seq(Reply) /\ Replies' = Replies
      BY <1>6, <3>2, TellsNothing
    <3>4. Shape'
      BY <1>6, <3>3 DEF Shape
    <3>5. Blame'
      BY <1>1, <1>6, <3>3 DEF Blame
    <3>6. Stage'
      <4>1. CASE p = 5
        <5>1. parsed >= 2
          BY <1>0, <1>3, <4>1
        <5>2. handshake' = "ready" /\ Replies' = <<"method">>
          BY <1>4, <2>2, <3>3, <4>1, <5>1
        <5>3. faults' = {}
          BY <1>1, <1>6, <2>1, <4>1, PassedIsFaultless
        <5>4. QED
          BY <5>2, <5>3 DEF Stage
      <4>2. CASE p # 5
        <5>1. parsed' < Parts /\ (parsed' >= 2 <=> parsed >= 2)
          BY <1>0, <1>1, <1>3, <2>5, <4>2 DEF Parts
        <5>2. Replies' = IF parsed' >= 2 THEN <<"method">> ELSE <<>>
          BY <1>4, <3>3, <5>1
        <5>3. handshake' = "reading"
          BY <2>2, <4>2
        <5>4. QED
          BY <2>3, <5>1, <5>2, <5>3 DEF Stage
      <4>3. QED
        BY <4>1, <4>2
    <3>7. \A i \in DOMAIN Replies' : Replies'[i] # "success"
      BY <1>5, <3>3
    <3>8. QED
      BY <1>7, <1>8, <3>3, <3>4, <3>5, <3>6, <3>7
  <2>6. QED
    BY <2>4, <2>5
<1>10. CASE Failed(p) # {}
  <2>1. PICK k \in 1..7 :
          /\ Checks[k].part = p /\ Checks[k].fault \in faults
          /\ \A j \in 1..7 : Checks[j].fault \in faults => k <= j
          /\ Response(p) = IF Checks[k].reply = "none" THEN <<>>
                           ELSE <<Checks[k].reply>>
    BY <1>0, <1>3, <1>4, <1>10, Responds
  <2>2. handshake' = "over"
    BY <1>1, <1>10
  <2>3. Stage'
    BY <2>2 DEF Stage
  <2>4. CASE Checks[k].reply = "none"
    <3>1. Response(p) = <<>>
      BY <2>1, <2>4
    <3>2. replies' = replies /\ answers' = answers
      BY <1>1, <1>6, <3>1, NoneQueued
    <3>3. replies' \in Seq(Reply) /\ Replies' = Replies
      BY <1>6, <3>2, TellsNothing
    <3>4. Shape'
      BY <1>6, <3>3 DEF Shape
    <3>5. Blame'
      BY <1>1, <1>6, <3>3 DEF Blame
    <3>6. \A i \in DOMAIN Replies' : Replies'[i] # "success"
      BY <1>5, <3>3
    <3>7. QED
      BY <1>7, <1>8, <2>3, <3>3, <3>4, <3>5, <3>6
  <2>5. CASE Checks[k].reply # "none"
    <3>1. PICK r : r = Checks[k].reply
      OBVIOUS
    <3>2. r \in Refusals \cup {"no method"}
      BY <2>5, <3>1, RepliesToChecks
    <3>3. r \in Reply /\ r # "success" /\ r # "method"
      BY <3>2 DEF Reply, Refusals
    <3>4. replies' = Append(replies, r) /\ answers' = answers
      <4>1. Response(p) = <<r>>
        BY <2>1, <2>5, <3>1
      <4>2. QED
        BY <1>1, <1>6, <3>3, <4>1, LastAppended
    <3>5. /\ replies' \in Seq(Reply)
          /\ Replies = <<>> => Replies' = <<r>>
          /\ Replies = <<"method">> => Replies' = <<"method", r>>
      BY <1>6, <3>3, <3>4, Tells
    <3>6. Shape' /\ \A i \in DOMAIN Replies' : Replies'[i] \in {"method", r}
      <4>1. CASE k = 2
        <5>1. r = "no method"
          BY <3>1, <4>1, CheckReplies
        <5>2. p = 2
          BY <2>1, <4>1, CheckParts
        <5>3. Replies = <<>>
          BY <1>0, <1>3, <1>4, <5>2
        <5>4. Replies' = <<r>>
          BY <3>5, <5>3
        <5>5. QED
          BY <5>1, <5>4, OneTold
      <4>2. CASE k # 2
        <5>1. r \in Refusals \cup {"success"}
          BY <3>1, <3>2, <4>2, RepliesToChecks
        <5>2. k # 1
          BY <2>5, CheckReplies
        <5>3. p \in {3, 5}
          BY <2>1, <4>2, <5>2, ChecksInOrder
        <5>4. Replies = <<"method">>
          BY <1>0, <1>3, <1>4, <5>3
        <5>5. Replies' = <<"method", r>>
          BY <3>5, <5>4
        <5>6. QED
          BY <5>1, <5>5, TwoTold
      <4>3. QED
        BY <4>1, <4>2
    <3>7. Blame'
      <4>1. ASSUME NEW i \in DOMAIN Replies', Replies'[i] # "method"
            PROVE  \E n \in DOMAIN Checks :
                     /\ Replies'[i] = Checks[n].reply
                     /\ Checks[n].fault \in faults
                     /\ \A j \in DOMAIN Checks :
                          Checks[j].fault \in faults => n <= j
        <5>1. Replies'[i] = Checks[k].reply
          BY <3>1, <3>6, <4>1
        <5>2. QED
          BY <2>1, <5>1, CheckParts
      <4>2. faults' = faults
        BY <1>1
      <4>3. QED
        BY <4>1, <4>2 DEF Blame
    <3>8. \A i \in DOMAIN Replies' : Replies'[i] # "success"
      BY <3>3, <3>6
    <3>9. QED
      BY <1>7, <1>8, <2>3, <3>5, <3>6, <3>7, <3>8
  <2>6. QED
    BY <2>4, <2>5
<1>11. QED
  BY <1>9, <1>10

(* A faultless request is told how its dial ended.                          *)
LEMMA OutcomeTold ==
  ASSUME DialogueInv, handshake \in {"ready", "adopted"}, ~replied,
         Replies = <<"method">>, NEW r \in {"success", "failure", "refused"},
         replies' = Append(replies, r),
         UNCHANGED <<faults, asked, parsed, answers>>,
         handshake' \in {"adopted", "over"}, replied' \in BOOLEAN
  PROVE  /\ (SocksTypes /\ Stage /\ Shape /\ Blame)'
         /\ Replies' = <<"method", r>>
         /\ \A i \in DOMAIN Replies' : Replies'[i] \in {"method", r}
<1>1. r \in Reply /\ r \in Refusals \cup {"success"}
  BY DEF Reply, Refusals
<1>2. SocksTypes /\ faults = {}
  BY DEF DialogueInv, Stage
<1>3. /\ replies' \in Seq(Reply) /\ answers' \in Seq(Reply)
      /\ Replies' = <<"method", r>>
  BY <1>1, <1>2, Tells
<1>4. SocksTypes'
  BY <1>2, <1>3 DEF SocksTypes
<1>5. Shape' /\ \A i \in DOMAIN Replies' : Replies'[i] \in {"method", r}
  BY <1>1, <1>3, TwoTold
<1>6. Stage' /\ Blame'
  BY <1>2 DEF Stage, Blame
<1>7. QED
  BY <1>3, <1>4, <1>5, <1>6

(* The application is gone before the thread has its request.               *)
LEMMA HandshakeFailsKeeps ==
  ASSUME DialogueInv, HandshakeFails
  PROVE  DialogueInv'
<1>1. /\ handshake = "reading" /\ handshake' = "over" /\ socket' = "closed"
      /\ UNCHANGED <<loopVars, toHost, hostVars, dialVars, faults, asked,
                     parsed, replied, replies, answers>>
  BY DEF HandshakeFails, Reading
<1>2. /\ pc' = pc /\ dial' = dial /\ accepted' = accepted
      /\ toHost' = toHost /\ hostGot' = hostGot /\ Replies' = Replies
  BY <1>1 DEF loopVars, dialVars, hostVars, Replies
<1>3. (SocksTypes /\ Stage)'
  BY <1>1 DEF DialogueInv, SocksTypes, Stage
<1>4. Loop'
  BY <1>1, <1>2 DEF DialogueInv, Loop
<1>5. (Shape /\ Data /\ Blame)'
  <2>1. ~replied
    BY <1>1 DEF DialogueInv, Loop
  <2>2. QED
    BY <1>1, <1>2, <2>1 DEF DialogueInv, Shape, Data, Blame
<1>6. QED
  BY <1>3, <1>4, <1>5 DEF DialogueInv

(* adopt_handshakes() dials ...                                             *)
LEMMA AdoptKeeps ==
  ASSUME DialogueInv, Adopt
  PROVE  DialogueInv'
<1>1. /\ handshake = "ready" /\ pc = "new" /\ handshake' = "adopted"
      /\ dial' = "connecting" /\ pc' = "idle"
      /\ UNCHANGED <<socketVars, hostVars, accepted, faults, asked, parsed,
                     replied, replies, answers>>
  BY DEF Adopt
<1>2. /\ socket' = socket /\ toHost' = toHost /\ hostGot' = hostGot
      /\ Replies' = Replies
  BY <1>1 DEF socketVars, hostVars, Replies
<1>3. Replies = <<"method">> /\ ~replied /\ faults = {}
  BY <1>1 DEF DialogueInv, Stage, Loop
<1>4. (SocksTypes /\ Stage)'
  BY <1>1, <1>3 DEF DialogueInv, SocksTypes, Stage
<1>5. Loop'
  BY <1>1, <1>2, <1>3 DEF DialogueInv, Loop
<1>6. (Shape /\ Data /\ Blame)'
  BY <1>1, <1>2, <1>3 DEF DialogueInv, Shape, Data, Blame
<1>7. QED
  BY <1>4, <1>5, <1>6 DEF DialogueInv

(* ... or finds that dial() throws.                                         *)
LEMMA AdoptFailsKeeps ==
  ASSUME DialogueInv, AdoptFails
  PROVE  DialogueInv'
<1>1. /\ handshake = "ready" /\ pc = "new" /\ handshake' = "over"
      /\ socket' = "closed"
      /\ \/ replies' = replies
         \/ replies' = Append(replies, "failure")
      /\ UNCHANGED <<loopVars, toHost, hostVars, dialVars, faults, asked,
                     parsed, replied, answers>>
  BY DEF AdoptFails
<1>2. /\ pc' = pc /\ dial' = dial /\ accepted' = accepted
      /\ toHost' = toHost /\ hostGot' = hostGot
  BY <1>1 DEF loopVars, dialVars, hostVars
<1>3. Replies = <<"method">> /\ ~replied /\ faults = {}
  BY <1>1 DEF DialogueInv, Stage, Loop
<1>4. Loop'
  BY <1>1, <1>2, <1>3 DEF DialogueInv, Loop
<1>5. CASE replies' = replies
  <2>1. Replies' = Replies
    BY <1>1, <1>5 DEF Replies
  <2>2. (SocksTypes /\ Stage)'
    BY <1>1, <1>3, <1>5 DEF DialogueInv, SocksTypes, Stage
  <2>3. (Shape /\ Data /\ Blame)'
    BY <1>1, <1>2, <1>3, <1>5, <2>1 DEF DialogueInv, Shape, Data, Blame
  <2>4. QED
    BY <1>4, <2>2, <2>3 DEF DialogueInv
<1>6. CASE replies' = Append(replies, "failure")
  <2>1. /\ (SocksTypes /\ Stage /\ Shape /\ Blame)'
        /\ \A i \in DOMAIN Replies' : Replies'[i] \in {"method", "failure"}
    <3>1. replied' \in BOOLEAN
      BY <1>1 DEF DialogueInv, SocksTypes
    <3>2. QED
      BY <1>1, <1>3, <1>6, <3>1, OutcomeTold
  <2>2. Data'
    <3>1. ~replied' /\ toHost' = <<>> /\ hostGot' = <<>>
      BY <1>1, <1>2, <1>3 DEF DialogueInv, Data
    <3>2. QED
      BY <2>1, <3>1 DEF Data
  <2>3. QED
    BY <1>4, <2>1, <2>2 DEF DialogueInv
<1>7. QED
  BY <1>1, <1>5, <1>6

(* The tunnel is connected, and the application is told so.                 *)
LEMMA ReplySuccessKeeps ==
  ASSUME DialogueInv, ReplySuccess
  PROVE  DialogueInv'
<1>1. /\ pc = "idle" /\ dial = "connected" /\ ~replied /\ replied' = TRUE
      /\ replies' = Append(replies, "success") /\ pc' = "write"
      /\ UNCHANGED <<socketVars, hostVars, dialVars, faults, asked, parsed,
                     handshake, answers>>
  BY DEF ReplySuccess
<1>2. /\ dial' = dial /\ accepted' = accepted /\ socket' = socket
      /\ toHost' = toHost /\ hostGot' = hostGot
  BY <1>1 DEF socketVars, dialVars, hostVars
<1>3. handshake = "adopted" /\ Replies = <<"method">>
  BY <1>1 DEF DialogueInv, Loop, SocksTypes
<1>4. Loop'
  BY <1>1, <1>2, <1>3 DEF DialogueInv, Loop
<1>5. /\ (SocksTypes /\ Stage /\ Shape /\ Blame)'
      /\ Replies' = <<"method", "success">>
  BY <1>1, <1>3, OutcomeTold
<1>6. Data'
  <2>1. hostGot' = <<>>
    BY <1>1, <1>2 DEF DialogueInv, Data
  <2>2. QED
    BY <1>1, <1>5, <2>1 DEF Data
<1>7. QED
  BY <1>4, <1>5, <1>6 DEF DialogueInv

(* The tunnel fails: "refused", unless there was a reply before.            *)
LEMMA TunnelFailedKeeps ==
  ASSUME DialogueInv, TunnelFailed
  PROVE  DialogueInv'
<1>1. /\ pc = "idle" /\ pc' = "done" /\ socket' = "closed"
      /\ toHost' = toHost /\ hostGot' = hostGot
      /\ UNCHANGED <<dialVars, faults, asked, parsed, handshake, replied,
                     answers>>
      /\ \/ replies' = replies
         \/ ~replied /\ replies' = Append(replies, "refused")
  BY DEF TunnelFailed, Served!ServiceFailed, Served!CloseBoth, Served!hostVars
<1>2. CASE replies' = replies
  <2>1. UNCHANGED socksVars
    BY <1>1, <1>2 DEF socksVars
  <2>2. LoopMoves
    BY <1>1 DEF LoopMoves, dialVars
  <2>3. DataStays
    <3>1. socket # "released"
      BY <1>1 DEF DialogueInv, Loop
    <3>2. QED
      BY <1>1, <3>1 DEF DataStays
  <2>4. QED
    BY <2>1, <2>2, <2>3, Undisturbed
<1>3. CASE ~replied /\ replies' = Append(replies, "refused")
  <2>1. handshake = "adopted" /\ Replies = <<"method">>
    BY <1>1, <1>3 DEF DialogueInv, Loop
  <2>2. dial' = dial /\ accepted' = accepted
    BY <1>1 DEF dialVars
  <2>3. Loop'
    BY <1>1, <1>3, <2>1, <2>2 DEF DialogueInv, Loop
  <2>4. /\ (SocksTypes /\ Stage /\ Shape /\ Blame)'
        /\ \A i \in DOMAIN Replies' : Replies'[i] \in {"method", "refused"}
    <3>1. replied' \in BOOLEAN
      BY <1>1 DEF DialogueInv, SocksTypes
    <3>2. QED
      BY <1>1, <1>3, <2>1, <3>1, OutcomeTold
  <2>5. Data'
    <3>1. ~replied' /\ toHost' = <<>> /\ hostGot' = <<>>
      BY <1>1, <1>3 DEF DialogueInv, Data
    <3>2. QED
      BY <2>4, <3>1 DEF Data
  <2>6. QED
    BY <2>3, <2>4, <2>5 DEF DialogueInv
<1>4. QED
  BY <1>1, <1>2, <1>3

(***************************************************************************)
(* The invariant holds, and the property with it.                           *)
(***************************************************************************)

(* A connection starts with nothing asked and nothing told.                 *)
LEMMA DialogueInit == SocksInit => DialogueInv
<1> SUFFICES ASSUME SocksInit PROVE DialogueInv
  OBVIOUS
<1>1. /\ pc = "new" /\ socket = "none" /\ toHost = <<>> /\ hostGot = <<>>
      /\ accepted = "none" /\ dial = "none" /\ faults \in Requests
      /\ asked = 0 /\ parsed = 0 /\ handshake = "none" /\ replied = FALSE
      /\ replies = <<>> /\ answers = <<>>
  BY DEF SocksInit, DialledInit, Init
<1>2. /\ replies \in Seq(Reply) /\ answers \in Seq(Reply)
      /\ Replies = <<>> /\ Len(Replies) = 0 /\ DOMAIN Replies = {}
  BY <1>1, NoneQueued DEF Replies
<1>3. SocksTypes
  <2>1. asked \in 0..Parts /\ parsed \in 0..asked
    <3>1. 0 \in 0..Parts /\ 0 \in 0..0
      BY DEF Parts
    <3>2. QED
      BY <1>1, <3>1
  <2>2. QED
    BY <1>1, <1>2, <2>1 DEF SocksTypes
<1>4. Stage /\ Loop
  BY <1>1, <1>2 DEF Stage, Loop
<1>5. Shape
  BY <1>2 DEF Shape
<1>6. Data /\ Blame
  BY <1>1, <1>2 DEF Data, Blame
<1>7. QED
  BY <1>3, <1>4, <1>5, <1>6 DEF DialogueInv

(* Every step keeps the invariant.                                          *)
LEMMA DialogueInductive == DialogueInv /\ [Next]_proxyVars => DialogueInv'
<1> SUFFICES ASSUME DialogueInv, [Next]_proxyVars PROVE DialogueInv'
  OBVIOUS
<1>1. CASE Application
  BY <1>1, ApplicationKeeps
<1>2. CASE SocksRelease
  BY <1>2, ReleaseKeeps
<1>3. CASE PeerNext /\ UNCHANGED <<dialVars, socksVars>>
  BY <1>3, OthersKeep
<1>4. CASE (AcceptorNext \/ DialNext \/ Exit) /\ UNCHANGED socksVars
  BY <1>4, OthersKeep
<1>5. CASE BeginHandshake
  BY <1>5, BeginKeeps
<1>6. CASE HandshakeStep
  BY <1>6, HandshakeKeeps
<1>7. CASE HandshakeFails
  BY <1>7, HandshakeFailsKeeps
<1>8. CASE Adopt
  BY <1>8, AdoptKeeps
<1>9. CASE AdoptFails
  BY <1>9, AdoptFailsKeeps
<1>10. CASE ReplySuccess
  BY <1>10, ReplySuccessKeeps
<1>11. CASE ReplyFails \/ ReplyKills
  BY <1>11, NoReplyKeeps
<1>12. CASE TunnelFailed
  BY <1>12, TunnelFailedKeeps
<1>13. CASE Relay
  BY <1>13, RelayKeeps
<1>14. CASE HostReader
  BY <1>14, OthersKeep DEF HostReader
<1>15. CASE Stream
  BY <1>15, OthersKeep DEF Stream
<1>16. CASE UNCHANGED proxyVars
  BY <1>16, OthersKeep DEF proxyVars
<1>17. QED
  BY <1>1, <1>2, <1>3, <1>4, <1>5, <1>6, <1>7, <1>8, <1>9, <1>10, <1>11,
     <1>12, <1>13, <1>14, <1>15, <1>16
  DEF Next, Service

(* The invariant implies the property.                                      *)
LEMMA DialogueSuffices == DialogueInv => OneReply
<1> SUFFICES ASSUME DialogueInv PROVE OneReply
  OBVIOUS
<1> DEFINE told == {Replies[i] : i \in DOMAIN Replies}
<1>1. /\ SocksTypes /\ Stage /\ Loop /\ Shape /\ Data /\ Blame
      /\ Replies \in Seq(Reply) /\ Len(Replies) \in Nat
      /\ \A i \in DOMAIN Replies : Replies[i] \in Reply
      /\ Len(Replies) = 0 => Replies = <<>>
  BY Told DEF DialogueInv
<1>2. \/ Replies \in {<<>>, <<"method">>, <<"no method">>}
      \/ \E r \in Refusals \cup {"success"} : Replies = <<"method", r>>
  <2>1. Len(Replies) = 0 \/ Len(Replies) = 1 \/ Len(Replies) = 2
    <3>1. Len(Replies) <= 2
      BY <1>1 DEF Shape
    <3>2. Len(Replies) \in Nat
      BY <1>1
    <3>3. \A n \in Nat : n <= 2 => n = 0 \/ n = 1 \/ n = 2
      OBVIOUS
    <3>4. QED
      BY <3>1, <3>2, <3>3
  <2>2. CASE Len(Replies) = 0
    BY <1>1, <2>2
  <2>3. CASE Len(Replies) = 1
    <3>1. Replies = <<Replies[1]>>
      BY <1>1, <2>3
    <3>2. Replies[1] \in {"method", "no method"}
      BY <1>1, <2>3 DEF Shape
    <3>3. QED
      BY <3>1, <3>2
  <2>4. CASE Len(Replies) = 2
    <3>1. Replies = <<Replies[1], Replies[2]>>
      BY <1>1, <2>4
    <3>2. /\ Replies[1] = "method"
          /\ Replies[2] \in Refusals \cup {"success"}
      BY <1>1, <2>4 DEF Shape
    <3>3. QED
      BY <3>1, <3>2
  <2>5. QED
    BY <2>1, <2>2, <2>3, <2>4
<1>3. toHost \o hostGot # <<>> => "success" \in told
  <2>1. SUFFICES ASSUME toHost # <<>> \/ hostGot # <<>>
                 PROVE  "success" \in told
    BY NoneQueued
  <2>2. Replies = <<"method", "success">>
    BY <1>1, <2>1 DEF Data
  <2>3. 2 \in DOMAIN Replies /\ Replies[2] = "success"
    BY <2>2
  <2>4. QED
    BY <2>3
<1>4. "success" \in told => faults = {} /\ dial = "connected"
  BY <1>1 DEF Data, Loop, Stage
<1>5. ASSUME NEW c \in {Checks[j] : j \in DOMAIN Checks},
             faults # {}, c.reply \in told
      PROVE  c.fault \in faults /\ \A j \in DOMAIN Checks :
               Checks[j].fault \in faults => \E k \in 1..j : Checks[k] = c
  <2>1. PICK m \in 1..7 : c = Checks[m]
    BY CheckParts
  <2>2. PICK i \in DOMAIN Replies : Replies[i] = Checks[m].reply
    BY <1>5, <2>1
  <2>3. Checks[m].reply # "none" /\ Checks[m].reply # "method"
    <3>1. Checks[m].reply \in Refusals \cup {"none", "no method"}
      BY RepliesToChecks
    <3>2. Checks[m].reply \in Reply
      BY <1>1, <2>2
    <3>3. QED
      BY <3>1, <3>2 DEF Reply, Refusals
  <2>4. PICK k \in 1..7 :
          /\ Replies[i] = Checks[k].reply /\ Checks[k].fault \in faults
          /\ \A j \in 1..7 : Checks[j].fault \in faults => k <= j
    BY <1>1, <1>5, <2>2, <2>3, CheckParts DEF Blame
  <2>5. k = m
    BY <2>2, <2>3, <2>4, RepliesToChecks
  <2>6. \A j \in 1..7 : k <= j => k \in 1..j
    OBVIOUS
  <2>7. QED
    BY <2>1, <2>4, <2>5, <2>6, CheckParts
<1>6. QED
  BY <1>2, <1>3, <1>4, <1>5 DEF OneReply

(* Whichever of the handshake thread, dial(), the tunnel's failure and its  *)
(* connection comes first: one reply to a request, behind the one to the    *)
(* greeting, "success" before any byte of the service, and a refusal that   *)
(* names the first fault.                                                   *)
THEOREM OneReplyHolds == SocksSpec => []OneReply
<1>1. SocksInit => DialogueInv
  BY DialogueInit
<1>2. DialogueInv /\ [Next]_proxyVars => DialogueInv'
  BY DialogueInductive
<1>3. DialogueInv => OneReply
  BY DialogueSuffices
<1>4. QED
  BY <1>1, <1>2, <1>3, PTL DEF SocksSpec

(***************************************************************************)
(* The relayed connection.  What ServedTcpPorts_proof proves of its steps   *)
(* holds of the steps of both proxies.                                      *)
(***************************************************************************)

(* What is proved of the relayed connection, whichever proxy relays it.     *)
Shared == INSTANCE ServedTcpPorts_proof

(* The forwarder, on the same connection.                                   *)
Forwarder == INSTANCE LocalTcpForwarder

(* SocksProxy's steps of the peer are those of ServedTcpPorts.              *)
LEMMA ProxyPeer == PeerNext => Shared!PeerNext
  BY DEF PeerNext, PeerSend, PeerShut, PeerRead, PeerReadEof, PeerAbort,
    PeerGivesUp, peerVars, tunnelVars, loopVars, readerVars, socketVars,
    hostVars, Shared!PeerNext, Shared!PeerSend, Shared!PeerShut,
    Shared!PeerRead, Shared!PeerReadEof, Shared!PeerAbort, Shared!PeerGivesUp,
    Shared!peerVars, Shared!tunnelVars, Shared!loopVars, Shared!readerVars,
    Shared!socketVars, Shared!hostVars

(* SocksProxy's steps of the stack are those of ServedTcpPorts.             *)
LEMMA ProxyStream == StreamNext => Shared!StreamNext
  BY DEF StreamNext, StreamRecv, StreamRecvEof, StreamError, ClosedPcbRecv,
    Pumping, peerVars, tunnelVars, loopVars, readerVars, socketVars, hostVars,
    Shared!StreamNext, Shared!StreamRecv, Shared!StreamRecvEof,
    Shared!StreamError, Shared!ClosedPcbRecv, Shared!Pumping, Shared!peerVars,
    Shared!tunnelVars, Shared!loopVars, Shared!readerVars, Shared!socketVars,
    Shared!hostVars

(* SocksProxy's steps of the reader thread are those of ServedTcpPorts.     *)
LEMMA ProxyReader == ReaderNext => Shared!ReaderNext
  BY DEF ReaderNext, ReaderCalls, ReaderReceives, ReaderPublishes, ReaderEof,
    ReaderFails, Front, Rest, peerVars, tunnelVars, loopVars, readerVars,
    socketVars, hostVars, Shared!ReaderNext, Shared!ReaderCalls,
    Shared!ReaderReceives, Shared!ReaderPublishes, Shared!ReaderEof,
    Shared!ReaderFails, Shared!Front, Shared!Rest, Shared!peerVars,
    Shared!tunnelVars, Shared!loopVars, Shared!readerVars, Shared!socketVars,
    Shared!hostVars

(* SocksProxy's steps of the application are those of ServedTcpPorts.       *)
LEMMA ProxyHost == HostNext => Shared!HostNext
  BY DEF HostNext, Release, HostSend, HostShut, HostRead, HostReadEof,
    HostAbort, peerVars, tunnelVars, loopVars, readerVars, socketVars,
    hostVars, Shared!HostNext, Shared!Release, Shared!HostSend,
    Shared!HostShut, Shared!HostRead, Shared!HostReadEof, Shared!HostAbort,
    Shared!peerVars, Shared!tunnelVars, Shared!loopVars, Shared!readerVars,
    Shared!socketVars, Shared!hostVars

(* SocksProxy's steps of service() are those of ServedTcpPorts.             *)
LEMMA ProxyService == Served!ServiceNext => Shared!ServiceNext
  BY DEF Served!ServiceNext, Served!ServiceFailed, Served!ServiceRead,
    Served!HostWrite, Served!HostWriteFails, Served!HostWriteKills,
    Served!TakeFails, Served!Take, Served!CheckFails, Served!Check,
    Served!CloseBoth, Served!Epipe, Served!Accepted, Served!Smaller,
    Served!Front, Served!Rest, Served!Drained, Served!peerVars,
    Served!tunnelVars, Served!loopVars, Served!readerVars, Served!socketVars,
    Served!hostVars, Shared!ServiceNext, Shared!ServiceFailed,
    Shared!ServiceRead, Shared!HostWrite, Shared!HostWriteFails,
    Shared!HostWriteKills, Shared!TakeFails, Shared!Take, Shared!CheckFails,
    Shared!Check, Shared!CloseBoth, Shared!Epipe, Shared!Accepted,
    Shared!Smaller, Shared!Front, Shared!Rest, Shared!Drained,
    Shared!peerVars, Shared!tunnelVars, Shared!loopVars, Shared!readerVars,
    Shared!socketVars, Shared!hostVars

(* LocalTcpForwarder's steps of the peer are those of ServedTcpPorts.       *)
LEMMA ForwarderPeer == Forwarder!PeerNext => Shared!PeerNext
  BY DEF Forwarder!PeerNext, Forwarder!PeerSend, Forwarder!PeerShut,
    Forwarder!PeerRead, Forwarder!PeerReadEof, Forwarder!PeerAbort,
    Forwarder!PeerGivesUp, Forwarder!peerVars, Forwarder!tunnelVars,
    Forwarder!loopVars, Forwarder!readerVars, Forwarder!socketVars,
    Forwarder!hostVars, Shared!PeerNext, Shared!PeerSend, Shared!PeerShut,
    Shared!PeerRead, Shared!PeerReadEof, Shared!PeerAbort, Shared!PeerGivesUp,
    Shared!peerVars, Shared!tunnelVars, Shared!loopVars, Shared!readerVars,
    Shared!socketVars, Shared!hostVars

(* LocalTcpForwarder's steps of the stack are those of ServedTcpPorts.      *)
LEMMA ForwarderStream == Forwarder!StreamNext => Shared!StreamNext
  BY DEF Forwarder!StreamNext, Forwarder!StreamRecv, Forwarder!StreamRecvEof,
    Forwarder!StreamError, Forwarder!ClosedPcbRecv, Forwarder!Pumping,
    Forwarder!peerVars, Forwarder!tunnelVars, Forwarder!loopVars,
    Forwarder!readerVars, Forwarder!socketVars, Forwarder!hostVars,
    Shared!StreamNext, Shared!StreamRecv, Shared!StreamRecvEof,
    Shared!StreamError, Shared!ClosedPcbRecv, Shared!Pumping, Shared!peerVars,
    Shared!tunnelVars, Shared!loopVars, Shared!readerVars, Shared!socketVars,
    Shared!hostVars

(* LocalTcpForwarder's steps of the reader are those of ServedTcpPorts.     *)
LEMMA ForwarderReader == Forwarder!ReaderNext => Shared!ReaderNext
  BY DEF Forwarder!ReaderNext, Forwarder!ReaderCalls,
    Forwarder!ReaderReceives, Forwarder!ReaderPublishes, Forwarder!ReaderEof,
    Forwarder!ReaderFails, Forwarder!Front, Forwarder!Rest,
    Forwarder!peerVars, Forwarder!tunnelVars, Forwarder!loopVars,
    Forwarder!readerVars, Forwarder!socketVars, Forwarder!hostVars,
    Shared!ReaderNext, Shared!ReaderCalls, Shared!ReaderReceives,
    Shared!ReaderPublishes, Shared!ReaderEof, Shared!ReaderFails,
    Shared!Front, Shared!Rest, Shared!peerVars, Shared!tunnelVars,
    Shared!loopVars, Shared!readerVars, Shared!socketVars, Shared!hostVars

(* LocalTcpForwarder's steps of the application are those of ServedTcpPorts. *)
LEMMA ForwarderHost == Forwarder!HostNext => Shared!HostNext
  BY DEF Forwarder!HostNext, Forwarder!Release, Forwarder!HostSend,
    Forwarder!HostShut, Forwarder!HostRead, Forwarder!HostReadEof,
    Forwarder!HostAbort, Forwarder!peerVars, Forwarder!tunnelVars,
    Forwarder!loopVars, Forwarder!readerVars, Forwarder!socketVars,
    Forwarder!hostVars, Shared!HostNext, Shared!Release, Shared!HostSend,
    Shared!HostShut, Shared!HostRead, Shared!HostReadEof, Shared!HostAbort,
    Shared!peerVars, Shared!tunnelVars, Shared!loopVars, Shared!readerVars,
    Shared!socketVars, Shared!hostVars

(* LocalTcpForwarder's steps of service() are those of ServedTcpPorts.      *)
LEMMA ForwarderService == Forwarder!Served!ServiceNext => Shared!ServiceNext
  BY DEF Forwarder!Served!ServiceNext, Forwarder!Served!ServiceFailed,
    Forwarder!Served!ServiceRead, Forwarder!Served!HostWrite,
    Forwarder!Served!HostWriteFails, Forwarder!Served!HostWriteKills,
    Forwarder!Served!TakeFails, Forwarder!Served!Take,
    Forwarder!Served!CheckFails, Forwarder!Served!Check,
    Forwarder!Served!CloseBoth, Forwarder!Served!Epipe,
    Forwarder!Served!Accepted, Forwarder!Served!Smaller,
    Forwarder!Served!Front, Forwarder!Served!Rest, Forwarder!Served!Drained,
    Forwarder!Served!peerVars, Forwarder!Served!tunnelVars,
    Forwarder!Served!loopVars, Forwarder!Served!readerVars,
    Forwarder!Served!socketVars, Forwarder!Served!hostVars,
    Shared!ServiceNext, Shared!ServiceFailed, Shared!ServiceRead,
    Shared!HostWrite, Shared!HostWriteFails, Shared!HostWriteKills,
    Shared!TakeFails, Shared!Take, Shared!CheckFails, Shared!Check,
    Shared!CloseBoth, Shared!Epipe, Shared!Accepted, Shared!Smaller,
    Shared!Front, Shared!Rest, Shared!Drained, Shared!peerVars,
    Shared!tunnelVars, Shared!loopVars, Shared!readerVars, Shared!socketVars,
    Shared!hostVars

(* What is known of every relayed connection.                               *)
Relayed ==
  Shared!TypeOK /\ Shared!Control /\ Shared!UpInv /\ Shared!DownInv

(* What a step does to the two streams, as their four ends see it.          *)
Moved == Shared!UpMove /\ Shared!DownMove

(* The steps that all proxies share.                                        *)
LEMMA SharedKeeps ==
  ASSUME Relayed, [Shared!Relay]_(Shared!vars)
  PROVE  Relayed' /\ Moved
<1>1. Shared!TypeOK'
  BY Shared!TypeInductive, BoundsAssumption, BufferAssumption, PosixAssumption
  DEF Relayed
<1>2. Shared!Control'
  BY Shared!ControlInductive, BoundsAssumption, BufferAssumption,
     PosixAssumption DEF Relayed
<1>3. Shared!UpInv'
  BY Shared!UpInductive, BoundsAssumption, BufferAssumption, PosixAssumption
  DEF Relayed
<1>4. Shared!DownInv'
  BY Shared!DownInductive, BoundsAssumption, BufferAssumption, PosixAssumption
  DEF Relayed
<1>5. Shared!UpMove /\ Shared!DownMove
  BY Shared!UpMoves, Shared!DownMoves, BoundsAssumption, BufferAssumption,
     PosixAssumption DEF Relayed
<1>6. QED
  BY <1>1, <1>2, <1>3, <1>4, <1>5 DEF Relayed, Moved

(* A step that neither end sees, or only as the end of the other.           *)
LEMMA Unseen ==
  ASSUME UNCHANGED <<peerSent, peerFin, peerGot, hostSent, hostFin, hostGot>>,
         hostEnd' = hostEnd,
         \/ peerEnd' = peerEnd
         \/ peerEnd' = "aborted" /\ (pc' = "killed" <=> pc = "killed"),
         pc = "killed" => pc' = "killed"
  PROVE  Moved
BY DEF Moved, Shared!UpMove, Shared!DownMove

(* A step that leaves the connection alone.                                 *)
LEMMA StandStill ==
  ASSUME Relayed, UNCHANGED vars
  PROVE  Relayed' /\ Moved
<1>1. UNCHANGED Shared!vars
  BY DEF vars, peerVars, tunnelVars, loopVars, readerVars, socketVars,
         hostVars, Shared!vars, Shared!peerVars, Shared!tunnelVars,
         Shared!loopVars, Shared!readerVars, Shared!socketVars,
         Shared!hostVars
<1>2. QED
  BY <1>1, SharedKeeps

(* A socket that the loop has not taken on is opened or closed.             *)
LEMMA SocketChanges ==
  ASSUME Relayed, pc \in {"new", "killed"}, socket # "released",
         socket' \in {socket, "open", "closed"},
         UNCHANGED <<peerVars, tunnelVars, loopVars, readerVars, fromHost,
                     toHost, hostVars>>
  PROVE  Relayed' /\ Moved
<1> USE DEF peerVars, tunnelVars, loopVars, readerVars, hostVars
<1>1. Shared!TypeOK'
  BY DEF Relayed, Shared!TypeOK
<1>2. Shared!Control'
  BY DEF Relayed, Shared!TypeOK, Shared!Control, Shared!LoopState,
         Shared!UpEnd, Shared!DownEnd, Shared!Finished
<1>3. Shared!UpInv'
  BY Shared!UpKept, BoundsAssumption, BufferAssumption, PosixAssumption
  DEF Relayed, Shared!UpLive
<1>4. Shared!DownInv'
  BY Shared!DownKept, BoundsAssumption, BufferAssumption, PosixAssumption
  DEF Relayed
<1>5. Moved
  BY Unseen
<1>6. QED
  BY <1>1, <1>2, <1>3, <1>4, <1>5 DEF Relayed

(* The program ends, and what its stack had not sent is lost.               *)
LEMMA ExitPipes ==
  ASSUME Relayed, Exit
  PROVE  Relayed' /\ Moved
<1> USE DEF peerVars, tunnelVars, loopVars, readerVars, hostVars
<1>1. PICK n \in 0..Len(downWire) :
        downWire' = Shared!Front(downWire, n) /\ downFin' \in BOOLEAN
  BY DEF Exit, Front, Shared!Front, Relayed, Shared!TypeOK
<1>2. /\ pc' = "killed" /\ pc # "killed" /\ reader' = "done" /\ pcb' = "gone"
      /\ socket' = IF socket = "open" THEN "closed" ELSE socket
      /\ UNCHANGED <<peerVars, upWire, received, tunnelEof, tunnelFailed,
                     writing, pending, tunnelShut, hostShut, chunk, chunks,
                     hostEof, hostError, fromHost, toHost, hostVars>>
  BY DEF Exit, Pumping
<1>3. downWire' \in Seq(Nat) /\ Len(downWire') <= SendBuffer
  <2>1. /\ downWire \in Seq(Nat) /\ Len(downWire) \in Nat
        /\ Len(downWire) <= SendBuffer /\ SendBuffer \in Nat
    BY BufferAssumption DEF Relayed, Shared!TypeOK
  <2>2. downWire' \in Seq(Nat) /\ Len(downWire') = n
    BY <1>1, <2>1, Shared!SeqSplit, BoundsAssumption, BufferAssumption,
       PosixAssumption
  <2>3. QED
    BY <2>1, <2>2
<1>4. Shared!TypeOK'
  BY <1>1, <1>2, <1>3 DEF Relayed, Shared!TypeOK
<1>5. Shared!Control'
  BY <1>2 DEF Relayed, Shared!TypeOK, Shared!Control, Shared!LoopState,
              Shared!UpEnd, Shared!DownEnd, Shared!Finished
<1>6. Shared!UpInv'
  BY <1>2, Shared!UpKept, BoundsAssumption, BufferAssumption, PosixAssumption
  DEF Relayed, Shared!UpLive
<1>7. Shared!DownInv'
  BY <1>1, <1>2, Shared!DownCutShort, BoundsAssumption, BufferAssumption,
     PosixAssumption DEF Relayed
<1>8. Moved
  BY <1>2, Unseen
<1>9. QED
  BY <1>4, <1>5, <1>6, <1>7, <1>8 DEF Relayed

(* The other side refuses the connection.                                   *)
LEMMA RefusedPipes ==
  ASSUME Relayed, Refused
  PROVE  Relayed' /\ Moved
<1> USE DEF Refused, peerVars, tunnelVars, loopVars, readerVars, socketVars,
            hostVars
<1>1. Shared!TypeOK'
  BY DEF Relayed, Shared!TypeOK, Shared!Ends
<1>2. Shared!Control'
  BY DEF Relayed, Shared!TypeOK, Shared!Control, Shared!LoopState,
         Shared!UpEnd, Shared!DownEnd, Shared!Finished
<1>3. Shared!UpInv'
  BY Shared!UpKept, BoundsAssumption, BufferAssumption, PosixAssumption
  DEF Relayed, Shared!UpLive
<1>4. Shared!DownInv'
  BY DEF Shared!DownInv
<1>5. Moved
  BY Unseen
<1>6. QED
  BY <1>1, <1>2, <1>3, <1>4, <1>5 DEF Relayed

(* The loop takes a connection on.                                          *)
LEMMA TakenOn ==
  ASSUME Relayed, pc = "new", socket = "open", pc' = "idle",
         reader' \in {reader, "next"},
         UNCHANGED <<peerVars, tunnelVars, writing, pending, tunnelShut,
                     hostShut, chunk, chunks, hostEof, hostError, socketVars,
                     hostVars>>
  PROVE  Relayed' /\ Moved
<1> USE DEF peerVars, tunnelVars, socketVars, hostVars
<1>1. Shared!TypeOK'
  BY DEF Relayed, Shared!TypeOK
<1>2. Shared!Control'
  BY DEF Relayed, Shared!TypeOK, Shared!Control, Shared!LoopState,
         Shared!UpEnd, Shared!DownEnd, Shared!Finished
<1>3. Shared!UpInv'
  BY Shared!UpKept, BoundsAssumption, BufferAssumption, PosixAssumption
  DEF Relayed, Shared!UpLive
<1>4. Shared!DownInv'
  BY Shared!DownKept, BoundsAssumption, BufferAssumption, PosixAssumption
  DEF Relayed
<1>5. Moved
  BY Unseen
<1>6. QED
  BY <1>1, <1>2, <1>3, <1>4, <1>5 DEF Relayed

(* dial() throws, and the forwarder drops the connection.                   *)
LEMMA NotDialled ==
  ASSUME Relayed, Forwarder!DialFails
  PROVE  Relayed' /\ Moved
<1> USE DEF Forwarder!DialFails, Forwarder!readerVars, Forwarder!hostVars
<1>1. Shared!TypeOK'
  BY DEF Relayed, Shared!TypeOK, Shared!Ends
<1>2. Shared!Control'
  BY DEF Relayed, Shared!TypeOK, Shared!Control, Shared!LoopState,
         Shared!UpEnd, Shared!DownEnd, Shared!Finished
<1>3. Shared!UpInv'
  BY Shared!UpKept, BoundsAssumption, BufferAssumption, PosixAssumption
  DEF Relayed, Shared!UpLive
<1>4. Shared!DownInv'
  BY DEF Shared!DownInv
<1>5. Moved
  BY Unseen
<1>6. QED
  BY <1>1, <1>2, <1>3, <1>4, <1>5 DEF Relayed

(***************************************************************************)
(* LocalTcpForwarder.                                                       *)
(***************************************************************************)

(* Until the loop takes it on, a connection waits behind an open socket.    *)
Waiting ==
  /\ accepted = "none" => socket = "none"
  /\ pc = "new" /\ accepted # "none" => socket = "open"
  /\ accepted = "none" => pc \in {"new", "killed"}

(* The forwarder's invariant.                                               *)
ForwarderInv == Relayed /\ Waiting

(* The shared steps keep a connection waiting as it is.                     *)
LEMMA WaitingKept ==
  ASSUME Relayed, Waiting, [Shared!Relay]_(Shared!vars), UNCHANGED accepted
  PROVE  Waiting'
<1> USE DEF Waiting, Relayed, Shared!TypeOK, Shared!Control, Shared!LoopState,
            Shared!peerVars, Shared!tunnelVars, Shared!loopVars,
            Shared!readerVars, Shared!socketVars, Shared!hostVars
<1>1. CASE Shared!PeerNext \/ Shared!StreamNext \/ UNCHANGED Shared!vars
  BY <1>1 DEF Shared!PeerNext, Shared!PeerSend, Shared!PeerShut,
              Shared!PeerRead, Shared!PeerReadEof, Shared!PeerAbort,
              Shared!PeerGivesUp, Shared!StreamNext, Shared!StreamRecv,
              Shared!StreamRecvEof, Shared!StreamError, Shared!ClosedPcbRecv,
              Shared!vars
<1>2. CASE Shared!ReaderNext \/ Shared!HostNext
  BY <1>2 DEF Shared!ReaderNext, Shared!ReaderCalls, Shared!ReaderReceives,
              Shared!ReaderPublishes, Shared!ReaderEof, Shared!ReaderFails,
              Shared!HostNext, Shared!Release, Shared!HostSend,
              Shared!HostShut, Shared!HostRead, Shared!HostReadEof,
              Shared!HostAbort
<1>3. CASE Shared!ServiceNext
  BY <1>3 DEF Shared!ServiceNext, Shared!ServiceFailed, Shared!ServiceRead,
              Shared!HostWrite, Shared!HostWriteFails, Shared!HostWriteKills,
              Shared!TakeFails, Shared!Take, Shared!CheckFails,
              Shared!Check, Shared!CloseBoth
<1>4. QED
  BY <1>1, <1>2, <1>3 DEF Shared!Relay

(* What the accepting thread does to a connection.                          *)
Accepts == \/ accepted' = accepted
           \/ accepted = "backlog" /\ accepted' = "queued"

(* A step that does no more than that.                                      *)
Queued == UNCHANGED vars /\ Accepts

(* The forwarder's steps, told apart by what they do to the connection.     *)
LEMMA ForwarderSteps ==
  ASSUME [Forwarder!Next]_(Forwarder!allVars)
  PROVE  \/ [Shared!Relay]_(Shared!vars) /\ UNCHANGED accepted
         \/ HostConnects \/ Exit \/ Refused
         \/ Queued
         \/ Forwarder!Dial \/ Forwarder!DialFails
<1> USE DEF Forwarder!dialVars
<1>1. CASE UNCHANGED Forwarder!allVars
  BY <1>1
  DEF Queued, Accepts, Forwarder!allVars, Forwarder!vars, Forwarder!peerVars,
      Forwarder!tunnelVars, Forwarder!loopVars, Forwarder!readerVars,
      Forwarder!socketVars, Forwarder!hostVars, vars, peerVars, tunnelVars,
      loopVars, readerVars, socketVars, hostVars
<1>2. CASE Forwarder!EnvironmentNext
  <2>1. Forwarder!HostConnects => HostConnects
    BY DEF Forwarder!HostConnects, Forwarder!peerVars, Forwarder!tunnelVars,
           Forwarder!loopVars, Forwarder!readerVars, Forwarder!hostVars,
           HostConnects, peerVars, tunnelVars, loopVars, readerVars, hostVars
  <2>2. QED
    BY <1>2, <2>1, ForwarderPeer, ForwarderHost
    DEF Forwarder!EnvironmentNext, Shared!Relay
<1>3. CASE Forwarder!AcceptorNext \/ Forwarder!StreamConnected
  <2>1. UNCHANGED Forwarder!vars /\ Accepts
    BY <1>3
    DEF Accepts, Forwarder!AcceptorNext, Forwarder!AcceptorAccepts,
        Forwarder!AcceptorFails, Forwarder!StreamConnected
  <2>2. QED
    BY <2>1
    DEF Queued, Forwarder!vars, Forwarder!peerVars, Forwarder!tunnelVars,
        Forwarder!loopVars, Forwarder!readerVars, Forwarder!socketVars,
        Forwarder!hostVars, vars, peerVars, tunnelVars, loopVars, readerVars,
        socketVars, hostVars
<1>4. CASE Forwarder!Refused
  BY <1>4
  DEF Forwarder!Refused, Refused, dialVars, Forwarder!peerVars,
      Forwarder!tunnelVars, Forwarder!loopVars, Forwarder!readerVars,
      Forwarder!socketVars, Forwarder!hostVars, peerVars, tunnelVars, loopVars,
      readerVars, socketVars, hostVars
<1>5. CASE Forwarder!Exit
  BY <1>5
  DEF Forwarder!Exit, Exit, Forwarder!Pumping, Pumping, Forwarder!Front,
      Front, Forwarder!peerVars, Forwarder!tunnelVars, Forwarder!loopVars,
      Forwarder!readerVars, Forwarder!socketVars, Forwarder!hostVars,
      peerVars, tunnelVars, loopVars, readerVars, socketVars, hostVars
<1>6. CASE Forwarder!StreamNext /\ UNCHANGED Forwarder!dialVars
  BY <1>6, ForwarderStream DEF Shared!Relay
<1>7. CASE Forwarder!HostReader
  BY <1>7, ForwarderReader DEF Forwarder!HostReader, Shared!Relay
<1>8. CASE Forwarder!Service
  <2>1. Forwarder!Served!ServiceFailed => Forwarder!Served!ServiceNext
    BY DEF Forwarder!Served!ServiceNext
  <2>2. QED
    BY <1>8, <2>1, ForwarderService DEF Forwarder!Service, Shared!Relay
<1>9. QED
  BY <1>1, <1>2, <1>3, <1>4, <1>5, <1>6, <1>7, <1>8
  DEF Forwarder!Next, Forwarder!DialNext

(* Each of them keeps the invariant, and moves both streams as a pipe.      *)
LEMMA ForwarderKeeps ==
  ASSUME ForwarderInv, [Forwarder!Next]_(Forwarder!allVars)
  PROVE  ForwarderInv' /\ Moved
<1>1. CASE [Shared!Relay]_(Shared!vars) /\ UNCHANGED accepted
  BY <1>1, SharedKeeps, WaitingKept DEF ForwarderInv
<1>2. CASE HostConnects
  <2>1. Relayed' /\ Moved
    BY <1>2, SocketChanges DEF HostConnects, ForwarderInv, Waiting
  <2>2. Waiting'
    BY <1>2 DEF HostConnects, ForwarderInv, Waiting, loopVars
  <2>3. QED
    BY <2>1, <2>2 DEF ForwarderInv
<1>3. CASE Exit
  <2>1. Waiting'
    BY <1>3 DEF Exit, ForwarderInv, Waiting
  <2>2. QED
    BY <1>3, <2>1, ExitPipes DEF ForwarderInv
<1>4. CASE Refused
  <2>1. Waiting'
    BY <1>4 DEF Refused, ForwarderInv, Waiting, loopVars, socketVars, dialVars
  <2>2. QED
    BY <1>4, <2>1, RefusedPipes DEF ForwarderInv
<1>5. CASE Queued
  <2>1. Waiting'
    BY <1>5
    DEF vars, Queued, Accepts, ForwarderInv, Waiting, loopVars, socketVars
  <2>2. QED
    BY <1>5, <2>1, StandStill DEF Queued, ForwarderInv
<1>6. CASE Forwarder!Dial
  <2>1. Relayed' /\ Moved
    BY <1>6, TakenOn
    DEF Forwarder!Dial, ForwarderInv, Waiting, Forwarder!peerVars,
        Forwarder!tunnelVars, Forwarder!socketVars, Forwarder!hostVars,
        peerVars, tunnelVars, socketVars, hostVars
  <2>2. Waiting'
    BY <1>6 DEF Forwarder!Dial, ForwarderInv, Waiting, Forwarder!socketVars
  <2>3. QED
    BY <2>1, <2>2 DEF ForwarderInv
<1>7. CASE Forwarder!DialFails
  <2>1. Waiting'
    BY <1>7 DEF Forwarder!DialFails, ForwarderInv, Waiting
  <2>2. QED
    BY <1>7, <2>1, NotDialled DEF ForwarderInv
<1>8. QED
  BY <1>1, <1>2, <1>3, <1>4, <1>5, <1>6, <1>7, ForwarderSteps

(* A connection starts with nothing on its way.                             *)
LEMMA InitRelayed == Init => Relayed
<1>1. Init => Shared!Init
  BY DEF Init, Shared!Init
<1>2. Shared!Init => Relayed
  BY Shared!InitInv, BoundsAssumption, BufferAssumption, PosixAssumption
  DEF Relayed
<1>3. QED
  BY <1>1, <1>2

(* So does the forwarder's connection.                                      *)
LEMMA InitForwarded == Forwarder!Init => Relayed
<1>1. Forwarder!Init => Init
  BY DEF Init, Forwarder!Init
<1>2. QED
  BY <1>1, InitRelayed

(* Whatever the accepting thread, the reader thread and the event loop of   *)
(* LocalTcpForwarder do, each direction of a forwarded connection is a byte *)
(* pipe, cut short only for an application whose counterpart broke off, or  *)
(* by the end of the program.                                               *)
THEOREM ForwardedBytesPiped ==
  Forwarder!ForwarderSpec => Forwarder!BytesArePiped
<1>1. Forwarder!DialledInit => ForwarderInv
  BY InitForwarded
  DEF Forwarder!DialledInit, Forwarder!Init, ForwarderInv, Waiting
<1>2. ForwarderInv /\ [Forwarder!Next]_(Forwarder!allVars) => ForwarderInv'
  BY ForwarderKeeps
<1>3. Forwarder!DialledInit => Forwarder!Up!Init /\ Forwarder!Down!Init
  BY DEF Forwarder!DialledInit, Forwarder!Init, Forwarder!Up!Init,
         Forwarder!Down!Init
<1>4. ForwarderInv /\ [Forwarder!Next]_(Forwarder!allVars)
        => [Forwarder!Up!Next]_(Forwarder!Up!vars)
  <2> SUFFICES ASSUME ForwarderInv, [Forwarder!Next]_(Forwarder!allVars)
               PROVE  [Forwarder!Up!Next]_(Forwarder!Up!vars)
    OBVIOUS
  <2>1. Shared!UpMove
    BY ForwarderKeeps DEF Moved
  <2>2. Shared!UpCut => peerEnd = "aborted" \/ pc = "killed"
    BY DEF Shared!UpCut, ForwarderInv, Waiting
  <2>3. QED
    BY <2>1, <2>2
    DEF Shared!UpMove, Forwarder!Up!Next, Forwarder!Up!Write,
        Forwarder!Up!Close, Forwarder!Up!Break, Forwarder!Up!Read,
        Forwarder!Up!End, Forwarder!Up!Reset, Forwarder!Up!Abandon,
        Forwarder!Up!vars
<1>5. ForwarderInv /\ [Forwarder!Next]_(Forwarder!allVars)
        => [Forwarder!Down!Next]_(Forwarder!Down!vars)
  <2> SUFFICES ASSUME ForwarderInv, [Forwarder!Next]_(Forwarder!allVars)
               PROVE  [Forwarder!Down!Next]_(Forwarder!Down!vars)
    OBVIOUS
  <2>1. Shared!DownMove
    BY ForwarderKeeps DEF Moved
  <2>3. QED
    BY <2>1
    DEF Shared!DownMove, Shared!DownCut, Forwarder!Down!Next,
        Forwarder!Down!Write, Forwarder!Down!Close, Forwarder!Down!Break,
        Forwarder!Down!Read, Forwarder!Down!End, Forwarder!Down!Reset,
        Forwarder!Down!Abandon, Forwarder!Down!vars
<1>6. QED
  BY <1>1, <1>2, <1>3, <1>4, <1>5, PTL
  DEF Forwarder!ForwarderSpec, Forwarder!BytesArePiped, Forwarder!Up!Spec,
      Forwarder!Down!Spec

(***************************************************************************)
(* SocksProxy: it relays a connection only when the request is answered.    *)
(***************************************************************************)

(* How a socket is handed on: it exists once accepted, the reader thread    *)
(* has it only after "success", and the loop only with the request read to  *)
(* its end.                                                                 *)
Handing ==
  /\ accepted = "none" <=> socket = "none"
  /\ ~replied /\ pc # "killed" => reader = "none"
  /\ handshake \in {"ready", "adopted"} => parsed = Parts

(* The proxy's invariant: of the dialogue, the bytes and the socket.        *)
ProxyInv == DialogueInv /\ Relayed /\ Handing

(* The shared steps leave the handing over alone.                           *)
LEMMA HandingKept ==
  ASSUME Relayed, Handing, [Shared!Relay]_(Shared!vars),
         UNCHANGED <<accepted, replied, handshake, parsed>>
  PROVE  Handing'
<1> USE DEF Handing, Relayed, Shared!TypeOK, Shared!Control, Shared!LoopState,
            Shared!peerVars, Shared!tunnelVars, Shared!loopVars,
            Shared!readerVars, Shared!socketVars, Shared!hostVars
<1>1. CASE Shared!PeerNext \/ Shared!StreamNext \/ UNCHANGED Shared!vars
  BY <1>1 DEF Shared!PeerNext, Shared!PeerSend, Shared!PeerShut,
              Shared!PeerRead, Shared!PeerReadEof, Shared!PeerAbort,
              Shared!PeerGivesUp, Shared!StreamNext, Shared!StreamRecv,
              Shared!StreamRecvEof, Shared!StreamError, Shared!ClosedPcbRecv,
              Shared!vars
<1>2. CASE Shared!ReaderNext \/ Shared!HostNext
  BY <1>2 DEF Shared!ReaderNext, Shared!ReaderCalls, Shared!ReaderReceives,
              Shared!ReaderPublishes, Shared!ReaderEof, Shared!ReaderFails,
              Shared!HostNext, Shared!Release, Shared!HostSend,
              Shared!HostShut, Shared!HostRead, Shared!HostReadEof,
              Shared!HostAbort
<1>3. CASE Shared!ServiceNext
  BY <1>3 DEF Shared!ServiceNext, Shared!ServiceFailed, Shared!ServiceRead,
              Shared!HostWrite, Shared!HostWriteFails, Shared!HostWriteKills,
              Shared!TakeFails, Shared!Take, Shared!CheckFails,
              Shared!Check, Shared!CloseBoth
<1>4. QED
  BY <1>1, <1>2, <1>3 DEF Shared!Relay

(* The first service() tells of the success and starts to relay.            *)
LEMMA ReplySuccessPipes ==
  ASSUME ProxyInv, ReplySuccess
  PROVE  Relayed' /\ Moved
<1> USE DEF ReplySuccess, peerVars, tunnelVars, loopVars, socketVars, hostVars
<1>1. Shared!TypeOK'
  BY BoundsAssumption, BufferAssumption, NoBytes
  DEF ProxyInv, Relayed, Shared!TypeOK
<1>2. Shared!Control'
  BY DEF ProxyInv, Handing, Relayed, Shared!TypeOK, Shared!Control,
         Shared!LoopState, Shared!UpEnd, Shared!DownEnd, Shared!Finished
<1>3. Shared!UpInv'
  <2>1. /\ hostEnd' = hostEnd /\ writing = <<>>
        /\ Shared!UpLive' => Shared!UpLive
    BY DEF ProxyInv, Relayed, Shared!Control, Shared!LoopState, Shared!UpLive
  <2>2. Shared!UpOrder => Shared!UpOrder'
    BY <2>1, Shared!ReadOrder, BoundsAssumption, BufferAssumption,
       PosixAssumption DEF ProxyInv, Relayed
  <2>3. Shared!UpOrder' => Shared!UpRead'
    BY <1>1, Shared!UpOrderRead, BoundsAssumption, BufferAssumption,
       PosixAssumption
  <2>4. Shared!UpLive
    BY DEF Shared!UpLive
  <2>5. QED
    BY <2>1, <2>2, <2>3, <2>4 DEF ProxyInv, Relayed, Shared!UpInv
<1>4. Shared!DownInv'
  BY Shared!DownKept, BoundsAssumption, BufferAssumption, PosixAssumption
  DEF ProxyInv, Relayed
<1>5. Moved
  BY Unseen
<1>6. QED
  BY <1>1, <1>2, <1>3, <1>4, <1>5 DEF Relayed

(* It finds that the application has broken off, and closes both sockets.   *)
LEMMA ReplyFailsPipes ==
  ASSUME ProxyInv, ReplyFails
  PROVE  Relayed' /\ Moved
<1> USE DEF ReplyFails, Served!CloseBoth, peerVars, readerVars, hostVars
<1>1. Shared!TypeOK'
  BY DEF ProxyInv, Relayed, Shared!TypeOK
<1>2. Shared!Control'
  BY DEF ProxyInv, Relayed, Shared!TypeOK, Shared!Control,
         Shared!LoopState, Shared!UpEnd, Shared!DownEnd, Shared!Finished
<1>3. Shared!UpInv'
  BY DEF Shared!UpInv
<1>4. Shared!DownInv'
  BY Shared!DownKept, BoundsAssumption, BufferAssumption, PosixAssumption
  DEF ProxyInv, Relayed, Shared!Control, Shared!LoopState
<1>5. Moved
  BY Unseen
<1>6. QED
  BY <1>1, <1>2, <1>3, <1>4, <1>5 DEF Relayed

(* It finds so by SIGPIPE, which ends the program.                          *)
LEMMA ReplyKillsPipes ==
  ASSUME ProxyInv, ReplyKills
  PROVE  Relayed' /\ Moved
<1> USE DEF peerVars, readerVars, hostVars
<1>1. /\ pc' = "killed" /\ pcb' = "gone" /\ socket' = "released"
      /\ downWire' = <<>> /\ downFin' = FALSE
      /\ UNCHANGED <<peerVars, upWire, received, tunnelEof, tunnelFailed,
                     writing, pending, tunnelShut, hostShut, readerVars,
                     fromHost, toHost, hostVars>>
  BY DEF ReplyKills
<1>2. hostEnd = "aborted"
  BY DEF ReplyKills
<1>3. reader = "none"
  <2>1. CASE pc = "new"
    BY <2>1 DEF ProxyInv, Relayed, Shared!Control, Shared!LoopState
  <2>2. CASE pc = "idle" /\ ~replied
    BY <2>2 DEF ProxyInv, Handing
  <2>3. pc = "new" \/ (pc = "idle" /\ ~replied)
    BY DEF ReplyKills, Replying, Reading, ProxyInv, DialogueInv, Loop
  <2>4. QED
    BY <2>1, <2>2, <2>3
<1>4. Shared!TypeOK'
  <2>1. downWire' \in Seq(Nat) /\ Len(downWire') <= SendBuffer
    BY <1>1, BufferAssumption, NoBytes
  <2>2. /\ pc' \in {"new", "idle", "write", "check", "done", "killed"}
        /\ pcb' \in {"open", "closed", "gone"} /\ downFin' \in BOOLEAN
        /\ socket' \in {"none", "open", "closed", "released"}
    BY <1>1
  <2>3. Shared!TypeOK
    BY DEF ProxyInv, Relayed
  <2>4. /\ peerSent' \in 0..MaxUp /\ peerFin' \in BOOLEAN
        /\ peerGot' \in Seq(Nat) /\ peerEnd' \in Shared!Ends
        /\ upWire' \in Seq(Nat) /\ received' \in Seq(Nat)
        /\ tunnelEof' \in BOOLEAN /\ tunnelFailed' \in BOOLEAN
    BY <1>1, <2>3 DEF Shared!TypeOK
  <2>5. /\ writing' \in Seq(Nat) /\ pending' \in Seq(Nat)
        /\ tunnelShut' \in BOOLEAN /\ hostShut' \in BOOLEAN
        /\ reader' \in {"none", "next", "recv", "holding", "done"}
        /\ chunk' \in Seq(Nat) /\ chunks' \in Seq(Nat)
        /\ hostEof' \in BOOLEAN /\ hostError' \in BOOLEAN
    BY <1>1, <2>3 DEF Shared!TypeOK
  <2>6. /\ fromHost' \in Seq(Nat) /\ toHost' \in Seq(Nat)
        /\ Len(toHost') <= SocketBuffer
        /\ hostSent' \in 0..MaxDown /\ hostFin' \in BOOLEAN
        /\ hostGot' \in Seq(Nat) /\ hostEnd' \in Shared!Ends
    BY <1>1, <2>3 DEF Shared!TypeOK
  <2>7. QED
    BY <2>1, <2>2, <2>4, <2>5, <2>6 DEF Shared!TypeOK
<1>5. Shared!Control'
  BY <1>1, <1>3
  DEF ProxyInv, Relayed, Shared!TypeOK, Shared!Control, Shared!LoopState,
      Shared!UpEnd, Shared!DownEnd, Shared!Finished
<1>6. Shared!UpInv'
  BY <1>1, <1>2 DEF Shared!UpInv
<1>7. Shared!DownInv'
  BY <1>1, Shared!DownLost, BoundsAssumption, BufferAssumption, PosixAssumption
  DEF ProxyInv, Relayed
<1>8. Moved
  BY <1>1, <1>2, Unseen
<1>9. QED
  BY <1>4, <1>5, <1>6, <1>7, <1>8 DEF Relayed

(* Why a socket of the proxy was closed with input unread.                  *)
LEMMA WhyClosed ==
  ASSUME ProxyInv, socket = "closed", fromHost # <<>> \/ asked > parsed,
         hostEnd # "aborted"
  PROVE  \/ peerEnd = "aborted" /\ pc = "done"
         \/ pc = "killed"
         \/ pc = "new" /\ ~replied
<1>1. CASE pc = "done"
  <2>1. handshake = "adopted"
    BY <1>1 DEF ProxyInv, DialogueInv, Loop
  <2>2. ~(asked > parsed)
    BY <2>1 DEF ProxyInv, DialogueInv, SocksTypes, Handing, Parts
  <2>3. fromHost # <<>>
    BY <2>2
  <2>4. QED
    BY <1>1, <2>3 DEF ProxyInv, Relayed, Shared!Control, Shared!Finished,
                      Shared!DownEnd
<1>2. CASE pc # "done"
  BY <1>2 DEF ProxyInv, DialogueInv, Loop, Stage
<1>3. QED
  BY <1>1, <1>2

(* The kernel lets go of a socket, and resets it if input is unread: bytes  *)
(* are lost with it only where nothing could follow them.                   *)
LEMMA ReleasePipes ==
  ASSUME ProxyInv, SocksRelease
  PROVE  Relayed' /\ Moved
<1> USE DEF peerVars, tunnelVars, loopVars, readerVars
<1> DEFINE Unread == fromHost # <<>> \/ asked > parsed
<1>1. /\ socket = "closed" /\ reader # "recv"
      /\ socket' = "released" /\ fromHost' = <<>>
      /\ UNCHANGED <<peerVars, tunnelVars, loopVars, readerVars, hostSent,
                     hostFin, hostGot>>
  BY DEF SocksRelease
<1>2. \/ UNCHANGED <<toHost, hostEnd>>
      \/ /\ Unread /\ toHost' = <<>>
         /\ \/ hostEnd' = hostEnd
            \/ hostEnd = "open" /\ hostEnd' = "reset"
  BY DEF SocksRelease
<1> HIDE DEF Unread
<1>3. Shared!TypeOK'
  <2>1. fromHost' \in Seq(Nat)
    BY <1>1, NoBytes
  <2>2. toHost' \in Seq(Nat) /\ Len(toHost') <= SocketBuffer
    <3>1. CASE toHost' = <<>>
      BY <3>1, NoBytes, BufferAssumption
    <3>2. CASE UNCHANGED toHost
      BY <3>2 DEF ProxyInv, Relayed, Shared!TypeOK
    <3>3. QED
      BY <1>2, <3>1, <3>2
  <2>3. hostEnd' \in Shared!Ends
    BY <1>2 DEF ProxyInv, Relayed, Shared!TypeOK, Shared!Ends
  <2>4. Shared!TypeOK
    BY DEF ProxyInv, Relayed
  <2>5. /\ peerSent' \in 0..MaxUp /\ peerFin' \in BOOLEAN
        /\ peerGot' \in Seq(Nat) /\ peerEnd' \in Shared!Ends
        /\ upWire' \in Seq(Nat) /\ received' \in Seq(Nat)
        /\ tunnelEof' \in BOOLEAN /\ tunnelFailed' \in BOOLEAN
        /\ pcb' \in {"open", "closed", "gone"}
        /\ downWire' \in Seq(Nat) /\ downFin' \in BOOLEAN
        /\ Len(downWire') <= SendBuffer
    BY <1>1, <2>4 DEF Shared!TypeOK
  <2>6. /\ pc' \in {"new", "idle", "write", "check", "done", "killed"}
        /\ writing' \in Seq(Nat) /\ pending' \in Seq(Nat)
        /\ tunnelShut' \in BOOLEAN /\ hostShut' \in BOOLEAN
        /\ reader' \in {"none", "next", "recv", "holding", "done"}
        /\ chunk' \in Seq(Nat) /\ chunks' \in Seq(Nat)
        /\ hostEof' \in BOOLEAN /\ hostError' \in BOOLEAN
    BY <1>1, <2>4 DEF Shared!TypeOK
  <2>7. /\ socket' \in {"none", "open", "closed", "released"}
        /\ hostSent' \in 0..MaxDown /\ hostFin' \in BOOLEAN
        /\ hostGot' \in Seq(Nat)
    BY <1>1, <2>4 DEF Shared!TypeOK
  <2>8. QED
    BY <2>1, <2>2, <2>3, <2>5, <2>6, <2>7 DEF Shared!TypeOK
<1>4. Shared!Control'
  <2>1. hostEnd = "aborted" => hostEnd' = "aborted"
    BY <1>2
  <2>2. Shared!Control
    BY DEF ProxyInv, Relayed
  <2>3. Shared!LoopState' /\ Shared!UpEnd'
    BY <1>1, <2>2 DEF Shared!Control, Shared!LoopState, Shared!UpEnd
  <2>4. Shared!DownEnd'
    BY <1>1, <2>1, <2>2 DEF Shared!Control, Shared!DownEnd
  <2>5. Shared!Finished'
    BY <1>1, <2>1, <2>2 DEF Shared!Control, Shared!Finished
  <2>6. QED
    BY <2>3, <2>4, <2>5 DEF Shared!Control
<1>5. Shared!DownInv'
  <2>1. Shared!TypeOK /\ Shared!Control /\ Shared!DownInv
    BY DEF ProxyInv, Relayed
  <2>2. QED
    BY <1>1, <1>3, <2>1, Shared!ReleaseOrder, BoundsAssumption,
       BufferAssumption, PosixAssumption
<1>6. CASE UNCHANGED <<toHost, hostEnd>>
  <2>1. Shared!UpInv'
    BY <1>1, <1>6, Shared!UpKept, BoundsAssumption, BufferAssumption,
       PosixAssumption DEF ProxyInv, Relayed, Shared!UpLive
  <2>2. Moved
    BY <1>1, <1>6, Unseen
  <2>3. QED
    BY <1>3, <1>4, <1>5, <2>1, <2>2 DEF Relayed
<1>7. CASE /\ Unread /\ toHost' = <<>>
           /\ \/ hostEnd' = hostEnd
              \/ hostEnd = "open" /\ hostEnd' = "reset"
  <2>1. CASE hostEnd = "aborted"
    <3>1. Shared!UpInv'
      BY <1>7, <2>1 DEF Shared!UpInv
    <3>2. Moved
      BY <1>1, <1>7, <2>1, Unseen
    <3>3. QED
      BY <1>3, <1>4, <1>5, <3>1, <3>2 DEF Relayed
  <2>2. CASE hostEnd # "aborted"
    <3>1. \/ peerEnd = "aborted" /\ pc = "done"
          \/ pc = "killed"
          \/ pc = "new" /\ ~replied
      BY <1>1, <1>7, <2>2, WhyClosed DEF Unread
    <3>2. Shared!UpInv'
      <4>1. CASE pc = "new" /\ ~replied
        <5>1. toHost = <<>>
          BY <4>1 DEF ProxyInv, DialogueInv, Data
        <5>2. QED
          BY <1>1, <1>7, <5>1, Shared!UpKept, BoundsAssumption,
             BufferAssumption, PosixAssumption
          DEF ProxyInv, Relayed, Shared!UpLive
      <4>2. CASE ~Shared!UpLive
        <5>1. ~Shared!UpLive'
          BY <1>1, <4>2 DEF Shared!UpLive
        <5>2. hostEnd' = "open" => hostEnd = "open"
          BY <1>7
        <5>3. QED
          BY <1>1, <1>7, <5>1, <5>2, Shared!UpDropped, BoundsAssumption,
             BufferAssumption, PosixAssumption DEF ProxyInv, Relayed
      <4>3. QED
        BY <3>1, <4>1, <4>2 DEF Shared!UpLive
    <3>3. Moved
      <4>1. CASE hostEnd' = hostEnd
        BY <1>1, <4>1, Unseen
      <4>2. CASE hostEnd = "open" /\ hostEnd' = "reset"
        BY <1>1, <3>1, <4>2
        DEF Moved, Shared!UpMove, Shared!DownMove, Shared!UpCut
      <4>3. QED
        BY <1>7, <4>1, <4>2
    <3>4. QED
      BY <1>3, <1>4, <1>5, <3>2, <3>3 DEF Relayed
  <2>3. QED
    BY <2>1, <2>2
<1>8. QED
  BY <1>2, <1>6, <1>7

(* The proxy's steps, told apart by what they do to the connection.         *)
LEMMA ProxySteps ==
  ASSUME [Next]_proxyVars
  PROVE  \/ /\ [Shared!Relay]_(Shared!vars)
            /\ UNCHANGED <<accepted, replied, handshake, parsed>>
         \/ UNCHANGED vars /\ (Ask \/ HostReadReply \/ BeginHandshake)
         \/ /\ UNCHANGED <<vars, socksVars>> /\ Accepts
         \/ (HostConnects \/ Exit \/ Refused) /\ UNCHANGED socksVars
         \/ HandshakeStep \/ HandshakeFails \/ AdoptFails \/ Adopt
         \/ ReplySuccess \/ ReplyFails \/ ReplyKills \/ SocksRelease
<1> USE DEF dialVars, socksVars
<1>1. CASE UNCHANGED proxyVars
  <2>1. UNCHANGED <<vars, dialVars, socksVars>>
    BY <1>1 DEF proxyVars, allVars
  <2>2. QED
    BY <2>1 DEF Accepts
<1>2. CASE Application
  <2>1. HostRead \/ HostReadEof \/ HostSend \/ HostShut \/ HostAbort
          => HostNext
    BY DEF HostNext
  <2>2. QED
    BY <1>2, <2>1, ProxyHost
    DEF Application, ApplicationReads, Ask, HostReadReply, allVars,
        Shared!Relay
<1>3. CASE AcceptorNext /\ UNCHANGED socksVars
  BY <1>3 DEF AcceptorNext, AcceptorAccepts, AcceptorFails, Accepts
<1>4. CASE DialNext /\ UNCHANGED socksVars
  BY <1>4 DEF DialNext, StreamConnected, Accepts
<1>5. CASE PeerNext /\ UNCHANGED <<dialVars, socksVars>>
  BY <1>5, ProxyPeer DEF Shared!Relay
<1>6. CASE Stream \/ HostReader
  BY <1>6, ProxyStream, ProxyReader DEF Stream, HostReader, Shared!Relay
<1>7. CASE Relay \/ TunnelFailed
  <2>1. Served!ServiceFailed => Served!ServiceNext
    BY DEF Served!ServiceNext
  <2>2. QED
    BY <1>7, <2>1, ProxyService DEF Relay, TunnelFailed, Shared!Relay
<1>8. CASE BeginHandshake
  BY <1>8 DEF BeginHandshake
<1>9. QED
  BY <1>1, <1>2, <1>3, <1>4, <1>5, <1>6, <1>7, <1>8 DEF Next, Service

(* The proxy's own steps keep to the order of the handing over.             *)
LEMMA HandingMoves ==
  ASSUME ProxyInv,
         \/ HandshakeStep \/ HandshakeFails \/ AdoptFails \/ Adopt
         \/ ReplySuccess \/ ReplyFails \/ ReplyKills \/ SocksRelease
  PROVE  Handing'
<1> USE DEF ProxyInv, Handing, peerVars, tunnelVars, loopVars, readerVars,
            socketVars, hostVars, dialVars, allVars, socksVars
<1>1. CASE HandshakeStep
  BY <1>1 DEF HandshakeStep, Reading, DialogueInv, Loop
<1>2. CASE HandshakeFails
  BY <1>2 DEF HandshakeFails, Reading, DialogueInv, Loop
<1>3. CASE AdoptFails
  BY <1>3 DEF AdoptFails, DialogueInv, Loop
<1>4. CASE Adopt
  BY <1>4 DEF Adopt
<1>5. CASE ReplySuccess
  BY <1>5 DEF ReplySuccess
<1>6. CASE ReplyFails
  <2>1. accepted # "none"
    BY <1>6 DEF ReplyFails, DialogueInv, Loop
  <2>2. QED
    BY <1>6, <2>1 DEF ReplyFails, Served!CloseBoth
<1>7. CASE ReplyKills
  <2>1. accepted # "none"
    BY <1>7 DEF ReplyKills, Replying, Reading, DialogueInv, Loop
  <2>2. QED
    BY <1>7, <2>1 DEF ReplyKills
<1>8. CASE SocksRelease
  BY <1>8 DEF SocksRelease
<1>9. QED
  BY <1>1, <1>2, <1>3, <1>4, <1>5, <1>6, <1>7, <1>8

(* Every step keeps the invariant, and moves both streams as a pipe.        *)
LEMMA ProxyKeeps ==
  ASSUME ProxyInv, [Next]_proxyVars
  PROVE  Relayed' /\ Handing' /\ Moved
<1>1. CASE /\ [Shared!Relay]_(Shared!vars)
           /\ UNCHANGED <<accepted, replied, handshake, parsed>>
  BY <1>1, SharedKeeps, HandingKept DEF ProxyInv
<1>2. CASE UNCHANGED vars /\ (Ask \/ HostReadReply \/ BeginHandshake)
  <2>1. Handing'
    BY <1>2 DEF Ask, HostReadReply, BeginHandshake, ProxyInv, Handing, vars,
                allVars, dialVars, loopVars, readerVars, socketVars
  <2>2. QED
    BY <1>2, <2>1, StandStill DEF ProxyInv
<1>3. CASE UNCHANGED <<vars, socksVars>> /\ Accepts
  <2>1. Handing'
    BY <1>3 DEF ProxyInv, Handing, Accepts, vars, socksVars, loopVars,
                readerVars, socketVars
  <2>2. QED
    BY <1>3, <2>1, StandStill DEF ProxyInv
<1>4. CASE HostConnects /\ UNCHANGED socksVars
  <2>1. Handing'
    BY <1>4 DEF HostConnects, ProxyInv, Handing, socksVars, loopVars,
                readerVars
  <2>2. pc \in {"new", "killed"} /\ socket # "released"
    BY <1>4 DEF HostConnects, ProxyInv, Handing, DialogueInv, Loop
  <2>3. Relayed' /\ Moved
    BY <1>4, <2>2, SocketChanges DEF HostConnects, ProxyInv
  <2>4. QED
    BY <2>1, <2>3
<1>5. CASE Exit /\ UNCHANGED socksVars
  <2>1. Handing'
    BY <1>5 DEF Exit, ProxyInv, Handing, socksVars
  <2>2. QED
    BY <1>5, <2>1, ExitPipes DEF ProxyInv
<1>6. CASE Refused /\ UNCHANGED socksVars
  <2>1. Handing'
    BY <1>6 DEF Refused, ProxyInv, Handing, socksVars, dialVars, loopVars,
                readerVars, socketVars
  <2>2. QED
    BY <1>6, <2>1, RefusedPipes DEF ProxyInv
<1>7. CASE HandshakeStep \/ HandshakeFails \/ AdoptFails
  <2>1. pc \in {"new", "killed"} /\ socket # "released"
    BY <1>7 DEF HandshakeStep, HandshakeFails, AdoptFails, Reading, ProxyInv,
                DialogueInv, Loop
  <2>2. Relayed' /\ Moved
    BY <1>7, <2>1, SocketChanges
    DEF HandshakeStep, HandshakeFails, AdoptFails, ProxyInv
  <2>3. QED
    BY <1>7, <2>2, HandingMoves
<1>8. CASE Adopt
  <2>1. socket = "open"
    BY <1>8
    DEF Adopt, ProxyInv, Handing, Relayed, Shared!TypeOK, DialogueInv, Loop
  <2>2. Relayed' /\ Moved
    BY <1>8, <2>1, TakenOn
    DEF Adopt, ProxyInv, peerVars, tunnelVars, readerVars, socketVars, hostVars
  <2>3. QED
    BY <1>8, <2>2, HandingMoves
<1>9. CASE ReplySuccess
  BY <1>9, ReplySuccessPipes, HandingMoves
<1>10. CASE ReplyFails
  BY <1>10, ReplyFailsPipes, HandingMoves
<1>11. CASE ReplyKills
  BY <1>11, ReplyKillsPipes, HandingMoves
<1>12. CASE SocksRelease
  BY <1>12, ReleasePipes, HandingMoves
<1>13. QED
  BY <1>1, <1>2, <1>3, <1>4, <1>5, <1>6, <1>7, <1>8, <1>9, <1>10, <1>11, <1>12,
     ProxySteps

(* A handshake goes on, or is over, unseen by the ends of the streams.      *)
LEMMA HandshakeMoves ==
  ASSUME ProxyInv, [Next]_proxyVars
  PROVE  \/ handshake' = handshake
         \/ /\ handshake # "over"
            /\ UNCHANGED <<peerSent, peerFin, peerEnd, hostGot, hostEnd>>
            /\ pc' = "killed" <=> pc = "killed"
<1> USE DEF peerVars, hostVars, loopVars, allVars, vars, dialVars, socksVars
<1>1. CASE BeginHandshake
  <2>1. handshake = "none"
    BY <1>1 DEF BeginHandshake, ProxyInv, DialogueInv, Loop
  <2>2. QED
    BY <1>1, <2>1 DEF BeginHandshake
<1>2. CASE HandshakeStep \/ HandshakeFails \/ AdoptFails \/ Adopt
  BY <1>2 DEF HandshakeStep, HandshakeFails, AdoptFails, Adopt, Reading
<1>3. CASE ReplySuccess \/ ReplyFails \/ ReplyKills \/ SocksRelease
  BY <1>3 DEF ReplySuccess, ReplyFails, ReplyKills, SocksRelease
<1>4. CASE Ask \/ HostReadReply
  BY <1>4 DEF Ask, HostReadReply
<1>5. QED
  BY <1>1, <1>2, <1>3, <1>4, ProxySteps

(* So every step is one of the abstract pipes, or a stutter.                *)
LEMMA ProxyPiped ==
  ASSUME ProxyInv, [Next]_proxyVars
  PROVE  [Up!Next]_(Up!vars) /\ [Down!Next]_(Down!vars)
<1>1. Shared!UpMove /\ Shared!DownMove
  BY ProxyKeeps DEF Moved
<1>2. \/ handshake' = handshake
      \/ /\ handshake # "over"
         /\ UNCHANGED <<peerSent, peerFin, peerEnd, hostGot, hostEnd>>
         /\ pc' = "killed" <=> pc = "killed"
  BY HandshakeMoves
<1>3. Shared!UpCut
        => peerEnd = "aborted" \/ pc = "killed" \/ handshake = "over"
  BY DEF Shared!UpCut, ProxyInv, DialogueInv, Loop
<1>4. [Up!Next]_(Up!vars)
  <2>1. CASE handshake' = handshake
    BY <1>1, <1>3, <2>1
    DEF Shared!UpMove, Up!Next, Up!Write, Up!Close, Up!Break, Up!Read, Up!End,
        Up!Reset, Up!Abandon, Up!vars
  <2>2. CASE /\ handshake # "over"
             /\ UNCHANGED <<peerSent, peerFin, peerEnd, hostGot, hostEnd>>
             /\ pc' = "killed" <=> pc = "killed"
    BY <2>2 DEF Up!Next, Up!Break, Up!vars
  <2>3. QED
    BY <1>2, <2>1, <2>2
<1>5. [Down!Next]_(Down!vars)
  BY <1>1
  DEF Shared!DownMove, Shared!DownCut, Down!Next, Down!Write, Down!Close,
      Down!Break, Down!Read, Down!End, Down!Reset, Down!Abandon, Down!vars
<1>6. QED
  BY <1>4, <1>5

(* A connection starts as two empty pipes.                                  *)
LEMMA ProxyStarts == SocksInit => ProxyInv /\ Up!Init /\ Down!Init
<1> SUFFICES ASSUME SocksInit PROVE ProxyInv /\ Up!Init /\ Down!Init
  OBVIOUS
<1>1. Init
  BY DEF SocksInit, DialledInit
<1>2. DialogueInv
  BY DialogueInit
<1>3. Relayed
  BY <1>1, InitRelayed
<1>4. Handing
  BY <1>1 DEF SocksInit, DialledInit, Init, Handing
<1>5. Up!Init /\ Down!Init
  BY <1>1 DEF SocksInit, Init, Up!Init, Down!Init
<1>6. QED
  BY <1>2, <1>3, <1>4, <1>5 DEF ProxyInv

(* Although the handshake thread, the reader thread and the event loop of   *)
(* SocksProxy take turns at the application's socket, what the application  *)
(* writes behind its request reaches the service, and the service's bytes   *)
(* the application, as through a byte pipe, cut short only by a handshake   *)
(* that is over, an end that broke off or the end of the program.           *)
THEOREM ProxiedBytesPiped == SocksSpec => BytesArePiped
<1>1. SocksInit => ProxyInv /\ Up!Init /\ Down!Init
  BY ProxyStarts
<1>2. ProxyInv /\ [Next]_proxyVars => ProxyInv'
  BY DialogueInductive, ProxyKeeps DEF ProxyInv
<1>3. ProxyInv /\ [Next]_proxyVars
        => [Up!Next]_(Up!vars) /\ [Down!Next]_(Down!vars)
  BY ProxyPiped
<1>4. QED
  BY <1>1, <1>2, <1>3, PTL DEF SocksSpec, BytesArePiped, Up!Spec, Down!Spec
===============================================================================
