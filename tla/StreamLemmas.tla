---------------------------- MODULE StreamLemmas ----------------------------
(***************************************************************************)
(* Facts about streams that pass through several queues, for the proofs of  *)
(* the modules that move messages from queue to queue: what is appended,    *)
(* moved on, cut and taken, in the sequence that all of the queues make.    *)
(***************************************************************************)
EXTENDS Integers, SequenceTheorems, TLAPS

(* An empty queue adds nothing.                                             *)
LEMMA NoneQueued ==
  ASSUME NEW S, NEW s \in Seq(S)
  PROVE  /\ <<>> \in Seq(S) /\ Len(<<>>) = 0
         /\ <<>> \o s = s /\ s \o <<>> = s
         /\ Len(s) \in Nat /\ (Len(s) = 0 <=> s = <<>>)
BY ConcatEmptySeq, EmptySeq

(* The first of a stream is taken from its first queue.                     *)
LEMMA HeadTaken ==
  ASSUME NEW S, NEW s \in Seq(S), NEW t \in Seq(S), s # <<>>
  PROVE  /\ Head(s) \in S /\ Tail(s) \in Seq(S)
         /\ s \o t \in Seq(S) /\ s \o t # <<>>
         /\ Head(s \o t) = Head(s) /\ Tail(s \o t) = Tail(s) \o t
<1>1. /\ Len(s) \in Nat /\ Len(s) # 0 /\ Len(t) \in Nat
      /\ Head(s) \in S /\ Tail(s) \in Seq(S) /\ Len(Tail(s)) = Len(s) - 1
      /\ \A i \in 1..Len(Tail(s)) : Tail(s)[i] = s[i + 1]
      /\ Head(s) = s[1]
  BY HeadTailProperties, EmptySeq
<1> DEFINE u == s \o t
           v == Tail(s) \o t
<1>2. /\ u \in Seq(S) /\ Len(u) = Len(s) + Len(t)
      /\ \A i \in 1..Len(u) : u[i] = IF i <= Len(s) THEN s[i] ELSE t[i - Len(s)]
  BY ConcatProperties
<1>3. /\ v \in Seq(S) /\ Len(v) = Len(s) - 1 + Len(t)
      /\ \A i \in 1..Len(v) : v[i] = IF i <= Len(s) - 1 THEN Tail(s)[i]
                                     ELSE t[i - (Len(s) - 1)]
  BY <1>1, ConcatProperties
<1> HIDE DEF u, v
<1>4. u # <<>> /\ Head(u) = u[1] /\ u[1] = s[1]
  BY <1>1, <1>2, EmptySeq
<1>5. /\ Tail(u) \in Seq(S) /\ Len(Tail(u)) = Len(u) - 1
      /\ \A i \in 1..Len(Tail(u)) : Tail(u)[i] = u[i + 1]
  BY <1>2, <1>4, HeadTailProperties
<1>6. ASSUME NEW i \in 1..Len(v) PROVE Tail(u)[i] = v[i]
  <2>1. i + 1 \in 1..Len(u) /\ i \in 1..Len(Tail(u)) /\ Tail(u)[i] = u[i + 1]
    BY <1>1, <1>2, <1>3, <1>5
  <2>2. CASE i <= Len(s) - 1
    BY <1>1, <1>2, <1>3, <2>1, <2>2
  <2>3. CASE i > Len(s) - 1
    <3>1. v[i] = t[i - (Len(s) - 1)]
      BY <1>1, <1>3, <2>3
    <3>a. PICK j \in 1..Len(u) : j = i + 1
      BY <2>1
    <3>c. ~(j <= Len(s))
      BY <1>1, <1>3, <2>3, <3>a
    <3>d. u[j] = t[j - Len(s)]
      BY <1>2, <3>c
    <3>b. u[i + 1] = t[i + 1 - Len(s)]
      BY <3>a, <3>d
    <3>2. i + 1 - Len(s) = i - (Len(s) - 1)
      BY <1>1
    <3>3. QED
      BY <2>1, <3>1, <3>b, <3>2
  <2>4. i <= Len(s) - 1 \/ i > Len(s) - 1
    BY <1>1, <1>3
  <2>5. QED
    BY <2>2, <2>3, <2>4
<1>7. Tail(u) = v
  BY <1>1, <1>2, <1>3, <1>5, <1>6, SeqEqual
<1>8. QED
  BY <1>1, <1>2, <1>4, <1>7 DEF u, v

(* What the last queue is appended the stream is.                           *)
LEMMA LastAppended ==
  ASSUME NEW S, NEW s \in Seq(S), NEW t \in Seq(S), NEW e \in S
  PROVE  /\ Append(t, e) \in Seq(S) /\ s \o Append(t, e) = Append(s \o t, e)
         /\ <<e>> \in Seq(S) /\ t \o <<e>> = Append(t, e)
<1>1. <<e>> \in Seq(S)
  OBVIOUS
<1>2. s \o t \in Seq(S)
  BY ConcatProperties
<1>3. Append(t, e) = t \o <<e>> /\ Append(s \o t, e) = (s \o t) \o <<e>>
  BY <1>2, AppendIsConcat
<1>4. (s \o t) \o <<e>> = s \o (t \o <<e>>)
  BY <1>1, ConcatAssociative
<1>5. Append(t, e) \in Seq(S)
  BY AppendProperties
<1>6. QED
  BY <1>1, <1>3, <1>4, <1>5

(* Moving a message from the head of a queue to the end of the one before it*)
(* leaves the stream as it is.                                              *)
LEMMA HeadMoved ==
  ASSUME NEW S, NEW s \in Seq(S), NEW t \in Seq(S), t # <<>>
  PROVE  /\ Append(s, Head(t)) \in Seq(S) /\ Tail(t) \in Seq(S)
         /\ Append(s, Head(t)) \o Tail(t) = s \o t
         /\ <<Head(t)>> \in Seq(S) /\ <<Head(t)>> \o Tail(t) = t
<1>1. Head(t) \in S /\ Tail(t) \in Seq(S)
  BY HeadTailProperties
<1>2. <<Head(t)>> \in Seq(S)
  BY <1>1
<1>3. Append(s, Head(t)) = s \o <<Head(t)>> /\ Append(s, Head(t)) \in Seq(S)
  BY <1>1, AppendIsConcat, AppendProperties
<1>4. (s \o <<Head(t)>>) \o Tail(t) = s \o (<<Head(t)>> \o Tail(t))
  BY <1>1, <1>2, ConcatAssociative
<1>5. <<Head(t)>> \o Tail(t) = t
  <2>1. Len(t) \in Nat /\ Len(t) >= 1
    BY EmptySeq
  <2>2. 1 \in 1..Len(t) /\ Len(t) \in 1..Len(t)
    BY <2>1
  <2>3. SubSeq(t, 1, Len(t)) = <<t[1]>> \o SubSeq(t, 1 + 1, Len(t))
    BY <2>2, SubSeqRecursiveFirst
  <2>4. Tail(t) = SubSeq(t, 2, Len(t)) /\ SubSeq(t, 1, Len(t)) = t
    BY TailIsSubSeq, SubSeqFull
  <2>5. Head(t) = t[1] /\ 1 + 1 = 2
    OBVIOUS
  <2>6. QED
    BY <2>3, <2>4, <2>5
<1>6. QED
  BY <1>1, <1>2, <1>3, <1>4, <1>5

(* A queue cut in two is the same stream.                                   *)
LEMMA Cut ==
  ASSUME NEW S, NEW s \in Seq(S), NEW n \in 0..Len(s)
  PROVE  /\ SubSeq(s, 1, n) \in Seq(S) /\ SubSeq(s, n + 1, Len(s)) \in Seq(S)
         /\ SubSeq(s, 1, n) \o SubSeq(s, n + 1, Len(s)) = s
         /\ Len(SubSeq(s, 1, n)) = n /\ Len(SubSeq(s, n + 1,
              Len(s))) = Len(s) - n
<1>1. Len(s) \in Nat /\ n \in Nat /\ n <= Len(s)
  OBVIOUS
<1>2. /\ 1 \in 1..Len(s) + 1 /\ n \in 1 - 1..Len(s) /\ Len(s) \in n..Len(s)
  BY <1>1
<1>3. SubSeq(s, 1, n) \o SubSeq(s, n + 1, Len(s)) = SubSeq(s, 1, Len(s))
  BY <1>2, ConcatAdjacentSubSeq
<1>4. SubSeq(s, 1, n) \in Seq(S) /\ Len(SubSeq(s, 1, n)) = n
  <2>1. \A i \in 1..n : s[i] \in S
    BY <1>1
  <2>2. QED
    BY <1>1, <2>1, SubSeqProperties
<1>5. /\ SubSeq(s, n + 1, Len(s)) \in Seq(S)
      /\ Len(SubSeq(s, n + 1, Len(s))) = Len(s) - n
  <2>1. \A i \in n + 1..Len(s) : s[i] \in S
    BY <1>1
  <2>2. n + 1 \in Int /\ Len(s) \in Int
    BY <1>1
  <2>3. /\ SubSeq(s, n + 1, Len(s)) \in Seq(S)
        /\ Len(SubSeq(s, n + 1, Len(s))) =
             IF n + 1 <= Len(s) THEN Len(s) - (n + 1) + 1 ELSE 0
    BY <2>1, <2>2, SubSeqProperties
  <2>4. QED
    BY <1>1, <2>3
<1>6. QED
  BY <1>3, <1>4, <1>5, SubSeqFull

(* Queues are joined in whatever order.                                     *)
LEMMA Joined ==
  ASSUME NEW S, NEW s \in Seq(S), NEW t \in Seq(S), NEW u \in Seq(S)
  PROVE  /\ s \o t \in Seq(S) /\ (s \o t) \o u = s \o (t \o u)
         /\ t \o u \in Seq(S) /\ Len(s \o t) = Len(s) + Len(t)
BY ConcatProperties, ConcatAssociative, SMTT(20)

(* Joining, by a name that the provers take as it is: only then do they     *)
(* find their way through several queues.                                   *)
s ++ t == s \o t

(* Queues are joined in whatever order.                                     *)
LEMMA InOrder ==
  ASSUME NEW S
  PROVE  \A x, y, z \in Seq(S) :
           x ++ y \in Seq(S) /\ (x ++ y) ++ z = x ++ (y ++ z)
BY Joined, SMTT(20) DEF ++

(***************************************************************************)
(* Streams of numbered bytes: what a stage of a pipeline holds.             *)
(***************************************************************************)
(* s holds the bytes k+1, k+2, ...: what the stages of the pipeline carry.  *)
Run(s, k) == \A i \in 1..Len(s) : s[i] = k + i

(* A byte arriving at a stage: type and length.                             *)
LEMMA SeqAppend ==
  ASSUME NEW s \in Seq(Nat), NEW b \in Nat
  PROVE  Append(s, b) \in Seq(Nat) /\ Len(Append(s, b)) = Len(s) + 1
  OBVIOUS

(* The first byte leaving a stage.                                         *)
LEMMA SeqHeadTail ==
  ASSUME NEW s \in Seq(Nat), s # <<>>
  PROVE  /\ Head(s) \in Nat /\ Tail(s) \in Seq(Nat)
         /\ Len(s) \in Nat \ {0} /\ Len(Tail(s)) = Len(s) - 1
  BY HeadTailProperties, EmptySeq

(* Several bytes arriving at a stage.                                       *)
LEMMA SeqConcat ==
  ASSUME NEW s \in Seq(Nat), NEW t \in Seq(Nat)
  PROVE  s \o t \in Seq(Nat) /\ Len(s \o t) = Len(s) + Len(t)
  BY ConcatProperties

(* The empty stage.                                                         *)
LEMMA NoBytes == <<>> \in Seq(Nat) /\ Len(<<>>) = 0
  BY EmptySeq

(* An empty stage carries a run, wherever it starts.                        *)
LEMMA RunEmpty == ASSUME NEW k PROVE Run(<<>>, k)
  BY DEF Run

(* The byte that follows the last one extends a run.                        *)
LEMMA RunAppend ==
  ASSUME NEW s \in Seq(Nat), NEW k \in Nat, Run(s, k)
  PROVE  Run(Append(s, k + Len(s) + 1), k)
<1>1. PICK n \in Nat, b \in Nat : n = Len(s) /\ b = k + n + 1
  OBVIOUS
<1>2. PICK t : t = Append(s, b)
  OBVIOUS
<1>3. /\ Len(t) = n + 1 /\ t[n + 1] = b
      /\ \A i \in 1..n : t[i] = s[i]
  BY <1>1, <1>2, AppendProperties
<1>4. ASSUME NEW i \in 1..n + 1 PROVE t[i] = k + i
  <2>1. CASE i \in 1..n
    <3>1. t[i] = s[i] /\ s[i] = k + i
      BY <1>1, <1>3, <2>1 DEF Run
    <3>2. QED
      BY <3>1
  <2>2. CASE i \notin 1..n
    <3>1. i = n + 1
      BY <2>2
    <3>2. QED
      BY <1>1, <1>3, <3>1
  <2>3. QED
    BY <2>1, <2>2
<1>5. QED
  BY <1>1, <1>2, <1>3, <1>4 DEF Run

(* A run starts with its first byte and goes on with a run.                 *)
LEMMA RunHeadTail ==
  ASSUME NEW s \in Seq(Nat), NEW k \in Nat, Run(s, k), s # <<>>
  PROVE  Head(s) = k + 1 /\ Run(Tail(s), k + 1)
  <1>1. Len(s) \in Nat \ {0} /\ Head(s) = s[1]
    BY EmptySeq
  <1>2. \A i \in 1..Len(Tail(s)) : Tail(s)[i] = s[i + 1] /\ i + 1 \in 1..Len(s)
    BY HeadTailProperties, <1>1
  <1>3. QED
    BY <1>1, <1>2 DEF Run

(* Adjacent runs make one.                                                  *)
LEMMA RunConcat ==
  ASSUME NEW s \in Seq(Nat), NEW t \in Seq(Nat), NEW k \in Nat,
         Run(s, k), Run(t, k + Len(s))
  PROVE  Run(s \o t, k)
<1>1. PICK n \in Nat, m \in Nat : n = Len(s) /\ m = Len(t)
  OBVIOUS
<1>2. PICK u : u = s \o t
  OBVIOUS
<1>3. /\ Len(u) = n + m
      /\ \A i \in 1..n + m : u[i] = IF i <= n THEN s[i] ELSE t[i - n]
  BY <1>1, <1>2, ConcatProperties
<1>4. ASSUME NEW i \in 1..n + m PROVE u[i] = k + i
  <2>1. CASE i <= n
    <3>1. i \in 1..n /\ u[i] = s[i]
      BY <1>3, <2>1
    <3>2. QED
      BY <1>1, <3>1 DEF Run
  <2>2. CASE ~(i <= n)
    <3>1. PICK j \in 1..m : j = i - n
      BY <2>2
    <3>2. u[i] = t[j]
      BY <1>3, <2>2, <3>1
    <3>3. t[j] = (k + n) + j
      BY <1>1 DEF Run
    <3>4. QED
      BY <3>1, <3>2, <3>3
  <2>3. QED
    BY <2>1, <2>2
<1>5. QED
  BY <1>1, <1>2, <1>3, <1>4 DEF Run
=============================================================================
