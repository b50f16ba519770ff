---------------------------- MODULE DerpLink_proof ----------------------------
(***************************************************************************)
(* Proofs about DerpLink: for every relay, header size, limit and room of   *)
(* the connection.  The argument lays the frames end to end: a queue of     *)
(* pieces is framed if it begins where a frame begins.  Taking a frame,     *)
(* moving pieces on and losing the last ones keep it so; only a frame begun *)
(* before the last one has left would not.                                  *)
(***************************************************************************)
EXTENDS DerpLink, StreamLemmas, FiniteSetTheorems

(* A piece of a frame on the wire, and how many pieces a frame has.         *)
Piece == Frame \X Nat
Size(f) == HeaderSize + f[3]

(* The queue s is what is left of frames, after the first base of them: it  *)
(* begins with the first piece of the next one, each frame lies after the   *)
(* one before it, and the queue may end anywhere. The j-th frame begins     *)
(* after at[j] pieces.                                                      *)
Lays(s, frames, base, at) ==
  /\ base \in 0..Len(frames)
  /\ at \in [1..Len(frames) + 1 -> Nat]
  /\ \A j \in 1..Len(frames) : at[j + 1] = at[j] + Size(frames[j])
  /\ \A j, k \in 1..Len(frames) + 1 : j <= k => at[j] <= at[k]
  /\ Len(s) <= at[Len(frames) + 1] - at[base + 1]
  /\ \A j \in base + 1..Len(frames) : \A i \in 1..Size(frames[j]) :
       at[j] + i - at[base + 1] <= Len(s) =>
         s[at[j] + i - at[base + 1]] = <<frames[j], i>>

(* The queue is the front of what is left of the frames.                    *)
Framed(s, frames, base) ==
  \E at \in [1..Len(frames) + 1 -> Nat] : Lays(s, frames, base, at)
(* It is all that is left of them.                                          *)
Whole(s, frames, base) ==
  \E at \in [1..Len(frames) + 1 -> Nat] :
    /\ Lays(s, frames, base, at)
    /\ Len(s) = at[Len(frames) + 1] - at[base + 1]

(* A frame has its header at least, and its pieces are numbered             *)
(* (encode_derp_frame()).                                                   *)
LEMMA Sizes ==
  ASSUME NEW f \in Frame
  PROVE  /\ f[3] \in Nat /\ Size(f) \in Nat /\ Size(f) >= 1
         /\ HeaderSize \in Nat /\ HeaderSize >= 1 /\ HeaderSize <= Size(f)
         /\ Encode(f) \in Seq(Piece) /\ Len(Encode(f)) = Size(f)
         /\ \A i \in 1..Size(f) : Encode(f)[i] = <<f, i>>
<1>1. f[3] \in Nat
  BY DEF Frame
<1>2. HeaderSize \in Nat /\ HeaderSize >= 1
  BY DerpAssumption
<1>3. Size(f) \in Nat /\ Size(f) >= 1 /\ HeaderSize <= Size(f)
  BY <1>1, <1>2 DEF Size
<1>4. Encode(f) = [i \in 1..Size(f) |-> <<f, i>>]
  BY DEF Encode, Size
<1>5. \A i \in 1..Size(f) : <<f, i>> \in Piece
  BY DEF Piece
<1>6. Encode(f) \in [1..Size(f) -> Piece]
  BY <1>4, <1>5
<1>7. Encode(f) \in Seq(Piece)
  BY <1>3, <1>6
<1>8. Len(Encode(f)) = Size(f)
  BY <1>3, <1>4, <1>6
<1>9. QED
  BY <1>1, <1>2, <1>3, <1>4, <1>7, <1>8

(* The empty queue is all of no frames.                                     *)
LEMMA NothingSent == Whole(<<>>, <<>>, 0)
<1> DEFINE at == [j \in 1..1 |-> 0]
<1>1. Len(<<>>) = 0 /\ at \in [1..0 + 1 -> Nat] /\ at[1] = 0 /\ at[0 + 1] = 0
  OBVIOUS
<1>2. Lays(<<>>, <<>>, 0, at)
  BY <1>1 DEF Lays
<1>3. QED
  BY <1>1, <1>2 DEF Whole

(* One frame more, of which nothing is in the queue yet, lies after the     *)
(* others.                                                                  *)
LEMMA LaysFrame ==
  ASSUME NEW s \in Seq(Piece), NEW fr \in Seq(Frame), NEW b, NEW at,
         Lays(s, fr, b, at), NEW f \in Frame
  PROVE  LET end == at[Len(fr) + 1] + Size(f)
             next == [j \in 1..Len(Append(fr, f)) + 1 |->
                        IF j <= Len(fr) + 1 THEN at[j] ELSE end]
         IN /\ Lays(s, Append(fr, f), b, next)
            /\ Len(Append(fr, f)) = Len(fr) + 1
            /\ \A j \in 1..Len(fr) + 1 : next[j] = at[j]
            /\ next[Len(fr) + 2] = end
<1> DEFINE n == Len(fr)
           new == Append(fr, f)
           end == at[n + 1] + Size(f)
           next == [j \in 1..Len(new) + 1 |-> IF j <= n + 1 THEN at[j] ELSE end]
<1>1. n \in Nat /\ Len(s) \in Nat
  OBVIOUS
<1>2. /\ Len(new) = n + 1 /\ new \in Seq(Frame)
      /\ \A j \in 1..n : new[j] = fr[j]
      /\ new[n + 1] = f
  BY AppendProperties
<1>3. Size(f) \in Nat
  BY Sizes
<1>4. /\ b \in 0..n /\ at \in [1..n + 1 -> Nat]
      /\ \A j \in 1..n : at[j + 1] = at[j] + Size(fr[j])
      /\ \A j, k \in 1..n + 1 : j <= k => at[j] <= at[k]
      /\ Len(s) <= at[n + 1] - at[b + 1]
      /\ \A j \in b + 1..n : \A i \in 1..Size(fr[j]) :
           at[j] + i - at[b + 1] <= Len(s) =>
             s[at[j] + i - at[b + 1]] = <<fr[j], i>>
  BY DEF Lays
<1> HIDE DEF n, new
<1>5. end \in Nat /\ at[n + 1] \in Nat /\ at[n + 1] <= end
  BY <1>1, <1>3, <1>4
<1>6. /\ next \in [1..Len(new) + 1 -> Nat]
      /\ \A j \in 1..n + 1 : next[j] = at[j]
      /\ next[n + 2] = end
  BY <1>1, <1>2, <1>4, <1>5
<1> HIDE DEF end, next
<1>7. \A j \in 1..Len(new) : next[j + 1] = next[j] + Size(new[j])
  <2> SUFFICES ASSUME NEW j \in 1..Len(new)
               PROVE  next[j + 1] = next[j] + Size(new[j])
    OBVIOUS
  <2>1. CASE j \in 1..n
    <3>1. j + 1 \in 1..n + 1 /\ j \in 1..n + 1
      BY <1>1, <2>1
    <3>2. next[j + 1] = at[j + 1] /\ next[j] = at[j]
      BY <1>6, <3>1
    <3>3. QED
      BY <1>2, <1>4, <2>1, <3>2
  <2>2. CASE j = n + 1
    <3>1. next[n + 2] = at[n + 1] + Size(f)
      BY <1>6 DEF end
    <3>2. next[n + 1] = at[n + 1] /\ j + 1 = n + 2 /\ new[j] = f
      BY <1>1, <1>2, <1>6, <2>2
    <3>3. QED
      BY <2>2, <3>1, <3>2
  <2>3. QED
    BY <1>1, <1>2, <2>1, <2>2
<1>8. \A j, k \in 1..Len(new) + 1 : j <= k => next[j] <= next[k]
  <2> SUFFICES ASSUME NEW j \in 1..Len(new) + 1, NEW k \in 1..Len(new) + 1,
                      j <= k
               PROVE  next[j] <= next[k]
    OBVIOUS
  <2>1. CASE k \in 1..n + 1
    <3>1. j \in 1..n + 1
      BY <1>1, <2>1
    <3>2. QED
      BY <1>4, <1>6, <2>1, <3>1
  <2>2. CASE k = n + 2 /\ j \in 1..n + 1
    <3>1. n + 1 \in 1..n + 1 /\ j <= n + 1
      BY <1>1, <2>2
    <3>2. at[j] <= at[n + 1] /\ at[j] \in Nat
      BY <1>4, <2>2, <3>1
    <3>3. QED
      BY <1>5, <1>6, <2>2, <3>2
  <2>3. CASE k = n + 2 /\ j = n + 2
    BY <1>5, <1>6, <2>3
  <2>4. QED
    BY <1>1, <1>2, <2>1, <2>2, <2>3
<1>9. Len(s) <= next[Len(new) + 1] - next[b + 1]
  <2>1. b + 1 \in 1..n + 1 /\ Len(new) + 1 = n + 2 /\ at[b + 1] \in Nat
    BY <1>1, <1>2, <1>4
  <2>2. next[b + 1] = at[b + 1] /\ next[Len(new) + 1] = end
    BY <1>6, <2>1
  <2>3. QED
    BY <1>1, <1>4, <1>5, <2>1, <2>2
<1>10. ASSUME NEW j \in b + 1..Len(new), NEW i \in 1..Size(new[j]),
              next[j] + i - next[b + 1] <= Len(s)
       PROVE  s[next[j] + i - next[b + 1]] = <<new[j], i>>
  <2>1. b + 1 \in 1..n + 1 /\ b \in Nat /\ at[b + 1] \in Nat
    BY <1>1, <1>4
  <2>2. next[b + 1] = at[b + 1]
    BY <1>6, <2>1
  <2>3. CASE j \in 1..n
    <3>1. j \in 1..n + 1 /\ j \in b + 1..n
      BY <1>1, <2>1, <2>3
    <3>2. next[j] = at[j] /\ new[j] = fr[j]
      BY <1>2, <1>6, <2>3, <3>1
    <3>3. i \in 1..Size(fr[j]) /\ at[j] + i - at[b + 1] <= Len(s)
      BY <1>10, <2>2, <3>2
    <3>4. s[at[j] + i - at[b + 1]] = <<fr[j], i>>
      BY <1>4, <3>1, <3>3
    <3>5. QED
      BY <2>2, <3>2, <3>4
  <2>4. CASE j = n + 1
    <3>b. n + 1 \in 1..n + 1
      BY <1>1
    <3>c. next[n + 1] = at[n + 1]
      BY <1>6, <3>b
    <3>1. next[j] = at[n + 1] /\ Size(new[j]) \in Nat
      BY <1>2, <1>3, <2>4, <3>c
    <3>2. i \in Nat /\ i >= 1
      BY <3>1
    <3>a. at[n + 1] \in Nat /\ at[b + 1] \in Nat /\ Len(s) \in Nat
      BY <1>1, <1>5, <2>1
    <3>3. PICK p \in Nat, q \in Nat, l \in Nat :
            p = at[n + 1] /\ q = at[b + 1] /\ l = Len(s)
      BY <3>a
    <3>4. l <= p - q /\ p + i - q <= l
      BY <1>4, <1>10, <2>2, <3>1, <3>3
    <3>5. QED
      BY <3>2, <3>4
  <2>5. QED
    BY <1>1, <1>2, <2>1, <2>3, <2>4
<1>11. b \in 0..Len(new)
  BY <1>1, <1>2, <1>4
<1>12. Lays(s, new, b, next)
  BY <1>6, <1>7, <1>8, <1>9, <1>10, <1>11 DEF Lays
<1>13. QED
  BY <1>2, <1>6, <1>12 DEF n, new, end, next

(* A queue that is the front of the frames is so with one frame more.       *)
LEMMA FrameAdded ==
  ASSUME NEW s \in Seq(Piece), NEW fr \in Seq(Frame), NEW b, NEW f \in Frame,
         Framed(s, fr, b)
  PROVE  Framed(s, Append(fr, f), b)
<1>1. PICK at : Lays(s, fr, b, at)
  BY DEF Framed
<1>2. \E next : Lays(s, Append(fr, f), b, next)
  BY <1>1, LaysFrame
<1>3. QED
  BY <1>2 DEF Framed, Lays

(* A queue that is all of the frames, with the pieces of one more, is all of*)
(* them.                                                                    *)
LEMMA FrameBegun ==
  ASSUME NEW s \in Seq(Piece), NEW fr \in Seq(Frame), NEW b, NEW f \in Frame,
         Whole(s, fr, b)
  PROVE  Whole(s \o Encode(f), Append(fr, f), b)
<1> DEFINE n == Len(fr)
           new == Append(fr, f)
           u == s \o Encode(f)
<1>1. PICK old : Lays(s, fr, b, old) /\ Len(s) = old[n + 1] - old[b + 1]
  BY DEF Whole
<1>2. PICK at : /\ Lays(s, new, b, at)
                /\ Len(new) = n + 1
                /\ \A j \in 1..n + 1 : at[j] = old[j]
                /\ at[n + 2] = old[n + 1] + Size(f)
  <2> DEFINE end == old[n + 1] + Size(f)
             next == [j \in 1..Len(new) + 1 |->
                        IF j <= n + 1 THEN old[j] ELSE end]
  <2>1. /\ Lays(s, new, b, next)
        /\ Len(new) = n + 1
        /\ \A j \in 1..n + 1 : next[j] = old[j]
        /\ next[n + 2] = end
    BY <1>1, LaysFrame
  <2> HIDE DEF next, n, new
  <2>2. QED
    BY <2>1
<1>3. /\ Encode(f) \in Seq(Piece) /\ Len(Encode(f)) = Size(f)
      /\ Size(f) \in Nat
      /\ \A i \in 1..Size(f) : Encode(f)[i] = <<f, i>>
  BY Sizes
<1>4. /\ u \in Seq(Piece) /\ Len(u) = Len(s) + Size(f)
      /\ \A i \in 1..Len(u) :
           u[i] = IF i <= Len(s) THEN s[i] ELSE Encode(f)[i - Len(s)]
  <2>1. PICK e \in Seq(Piece) : e = Encode(f)
    BY <1>3
  <2>2. /\ s \o e \in Seq(Piece) /\ Len(s \o e) = Len(s) + Len(e)
        /\ \A i \in 1..Len(s \o e) :
             (s \o e)[i] = IF i <= Len(s) THEN s[i] ELSE e[i - Len(s)]
    BY ConcatProperties
  <2>3. QED
    BY <1>3, <2>1, <2>2
<1>5. n \in Nat /\ Len(s) \in Nat
  OBVIOUS
<1>6. new[n + 1] = f /\ \A j \in 1..n : new[j] = fr[j]
  BY AppendProperties
<1> HIDE DEF n, new, u
<1>7. /\ b \in 0..Len(new) /\ at \in [1..Len(new) + 1 -> Nat]
      /\ \A j \in 1..Len(new) : at[j + 1] = at[j] + Size(new[j])
      /\ \A j, k \in 1..Len(new) + 1 : j <= k => at[j] <= at[k]
      /\ \A j \in b + 1..Len(new) : \A i \in 1..Size(new[j]) :
           at[j] + i - at[b + 1] <= Len(s) =>
             s[at[j] + i - at[b + 1]] = <<new[j], i>>
  BY <1>2 DEF Lays
<1>8. b \in 0..n
  BY <1>1 DEF Lays, n
<1>9. PICK z \in Nat, a \in Nat : z = at[n + 1] /\ a = at[b + 1]
  <2>1. n + 1 \in 1..Len(new) + 1 /\ b + 1 \in 1..Len(new) + 1
    BY <1>2, <1>5, <1>8
  <2>2. at[n + 1] \in Nat /\ at[b + 1] \in Nat
    BY <1>7, <2>1
  <2>3. QED
    BY <2>2
<1>10. b + 1 \in 1..n + 1 /\ n + 1 \in 1..n + 1
  BY <1>5, <1>8
<1>11. Len(s) = z - a /\ at[n + 2] = z + Size(f)
  BY <1>1, <1>2, <1>9, <1>10
<1>12. Len(u) = at[Len(new) + 1] - at[b + 1]
  BY <1>2, <1>3, <1>4, <1>5, <1>9, <1>11, SMTT(20)
<1>13. ASSUME NEW j \in b + 1..Len(new), NEW i \in 1..Size(new[j]),
              at[j] + i - at[b + 1] <= Len(u)
       PROVE  u[at[j] + i - at[b + 1]] = <<new[j], i>>
  <2>1. j \in 1..n + 1 /\ b \in Nat /\ b + 1 \in 1..n + 2 /\ j \in 1..n + 2
    BY <1>2, <1>5, <1>8
  <2>a. j \in 1..Len(new) + 1 /\ b + 1 \in 1..Len(new) + 1 /\ b + 1 <= j
    BY <1>2, <1>5, <1>8, <2>1
  <2>b. at[j] \in Nat /\ at[b + 1] <= at[j]
    BY <1>7, <2>a
  <2>2. PICK p \in Nat : p = at[j] /\ a <= p
    BY <1>9, <2>b
  <2>3. CASE j \in 1..n
    <3>1. j + 1 \in 1..n + 2 /\ n + 1 \in 1..n + 2 /\ j + 1 <= n + 1
      BY <1>5, <2>3
    <3>2. at[j + 1] <= z
      BY <1>2, <1>7, <1>9, <3>1
    <3>3. at[j + 1] = p + Size(new[j])
      BY <1>7, <2>2
    <3>4. Size(new[j]) \in Nat
      <4>1. new[j] \in Frame
        BY <1>6, <2>3 DEF n
      <4>2. QED
        BY <4>1, Sizes
    <3>5. p + i <= z /\ i \in Nat /\ i >= 1
      BY <3>2, <3>3, <3>4
    <3>6. p + i - a <= Len(s) /\ p + i - a \in 1..Len(u)
      <4>1. Len(s) = z - a /\ Len(u) = z - a + Size(f) /\ Size(f) \in Nat
        BY <1>3, <1>4, <1>11
      <4>2. p + i - a <= z - a /\ p + i - a >= 1 /\ p + i - a \in Int
        BY <2>2, <3>5, SMTT(20)
      <4>3. QED
        BY <4>1, <4>2
    <3>7. s[p + i - a] = <<new[j], i>>
      BY <1>7, <1>9, <2>2, <3>6
    <3>8. QED
      BY <1>4, <1>9, <2>2, <3>6, <3>7
  <2>4. CASE j = n + 1
    <3>1. p = z /\ new[j] = f /\ i \in 1..Size(f)
      BY <1>6, <1>9, <2>2, <2>4
    <3>2. PICK m \in 1..Len(u) : m = z + i - a
      BY <1>3, <1>4, <1>5, <1>11, <3>1, SMTT(20)
    <3>3. ~(m <= Len(s)) /\ m - Len(s) = i
      BY <1>3, <1>11, <3>1, <3>2
    <3>4. u[m] = Encode(f)[i]
      BY <1>4, <3>3
    <3>5. u[m] = <<f, i>>
      BY <1>3, <3>1, <3>4
    <3>6. QED
      BY <1>9, <2>2, <3>1, <3>2, <3>5
  <2>5. QED
    BY <1>5, <2>1, <2>3, <2>4
<1>14. Lays(u, new, b, at)
  <2>1. Len(u) <= at[Len(new) + 1] - at[b + 1]
    BY <1>4, <1>12
  <2>2. QED
    BY <1>7, <1>13, <2>1 DEF Lays
<1>15. Whole(u, new, b)
  BY <1>7, <1>12, <1>14 DEF Whole
<1>16. QED
  BY <1>15 DEF u, new

(* What FrameChannel calls sending is appending a frame.                    *)
LEMMA FrameQueued ==
  ASSUME NEW fr \in Seq(Frame), NEW f \in Frame
  PROVE  /\ Len(Append(fr, f)) = Len(fr) + 1
         /\ SubSeq(Append(fr, f), 1, Len(fr)) = fr
<1> DEFINE new == Append(fr, f)
<1>1. /\ new \in Seq(Frame) /\ Len(new) = Len(fr) + 1
      /\ \A j \in 1..Len(fr) : new[j] = fr[j]
  BY AppendProperties
<1> HIDE DEF new
<1>2. PICK n \in Nat : n = Len(fr)
  OBVIOUS
<1>3. n \in 0..Len(new)
  BY <1>1, <1>2
<1>4. SubSeq(new, 1, n) \in Seq(Frame) /\ Len(SubSeq(new, 1, n)) = n
  BY <1>1, <1>3, Cut
<1>5. \A j \in 1..n : SubSeq(new, 1, n)[j] = new[j]
  <2>1. \A j \in 1..n : new[j] \in Frame
    BY <1>1, <1>3
  <2>2. \A j \in 1..Len(SubSeq(new, 1, n)) :
          SubSeq(new, 1, n)[j] = new[1 + j - 1]
    BY <1>2, <2>1, SubSeqProperties
  <2>3. QED
    BY <1>4, <2>2
<1>6. SubSeq(new, 1, n) = fr
  BY <1>1, <1>2, <1>4, <1>5, SeqEqual
<1>7. QED
  BY <1>1, <1>2, <1>6 DEF new

(* The front of a framed queue is framed: a connection that breaks leaves no*)
(* piece in a wrong place.                                                  *)
LEMMA FrontFramed ==
  ASSUME NEW s \in Seq(Piece), NEW t \in Seq(Piece), NEW fr \in Seq(Frame),
         NEW b, Framed(s \o t, fr, b)
  PROVE  Framed(s, fr, b)
<1> DEFINE u == s \o t
<1>1. PICK at : Lays(u, fr, b, at)
  BY DEF Framed
<1>2. /\ Len(u) = Len(s) + Len(t) /\ Len(s) \in Nat /\ Len(t) \in Nat
      /\ \A i \in 1..Len(s) : u[i] = s[i]
  BY ConcatProperties
<1> HIDE DEF u
<1>3. /\ b \in 0..Len(fr) /\ at \in [1..Len(fr) + 1 -> Nat]
      /\ \A j \in 1..Len(fr) : at[j + 1] = at[j] + Size(fr[j])
      /\ \A j, k \in 1..Len(fr) + 1 : j <= k => at[j] <= at[k]
      /\ Len(u) <= at[Len(fr) + 1] - at[b + 1]
      /\ \A j \in b + 1..Len(fr) : \A i \in 1..Size(fr[j]) :
           at[j] + i - at[b + 1] <= Len(u) =>
             u[at[j] + i - at[b + 1]] = <<fr[j], i>>
  BY <1>1 DEF Lays
<1>4. PICK n \in Nat : n = Len(fr)
  OBVIOUS
<1>5. Len(s) <= at[n + 1] - at[b + 1]
  <2>a. n + 1 \in 1..n + 1 /\ b + 1 \in 1..n + 1
    BY <1>3, <1>4
  <2>b. at[n + 1] \in Nat /\ at[b + 1] \in Nat
    BY <1>3, <1>4, <2>a
  <2>1. PICK p \in Nat, q \in Nat : p = at[n + 1] /\ q = at[b + 1]
    BY <2>b
  <2>2. QED
    BY <1>2, <1>3, <1>4, <2>1, SMTT(20)
<1>6. ASSUME NEW j \in b + 1..n, NEW i \in 1..Size(fr[j]),
             at[j] + i - at[b + 1] <= Len(s)
      PROVE  s[at[j] + i - at[b + 1]] = <<fr[j], i>>
  <2>1. j \in 1..n + 1 /\ b + 1 \in 1..n + 1 /\ b + 1 <= j
    BY <1>3, <1>4
  <2>2. PICK p \in Nat, q \in Nat : p = at[j] /\ q = at[b + 1] /\ q <= p
    BY <1>3, <1>4, <2>1
  <2>3. i \in Nat /\ i >= 1
    <3>1. fr[j] \in Frame
      BY <1>3, <1>4
    <3>2. Size(fr[j]) \in Nat
      BY <3>1, Sizes
    <3>3. QED
      BY <3>2
  <2>4. PICK m \in 1..Len(s) : m = p + i - q
    BY <1>2, <1>6, <2>2, <2>3, SMTT(20)
  <2>5. m <= Len(u)
    BY <1>2
  <2>6. u[m] = <<fr[j], i>>
    BY <1>3, <1>4, <2>2, <2>4, <2>5
  <2>7. QED
    BY <1>2, <2>2, <2>4, <2>6
<1>7. Lays(s, fr, b, at)
  BY <1>3, <1>4, <1>5, <1>6 DEF Lays
<1>8. QED
  BY <1>3, <1>7 DEF Framed

(* take_buffered_frame(), with whatever is still to come: what it finds at  *)
(* the front of the buffer is the next frame, whole, and what it leaves is  *)
(* the front of the others. The size it reads is the frame's own, since the *)
(* queue begins with a header.                                              *)
LEMMA FirstTaken ==
  ASSUME NEW p \in Seq(Piece), NEW t \in Seq(Piece), NEW fr \in Seq(Frame),
         NEW b, Framed(p \o t, fr, b), HasFrame(p)
  PROVE  /\ b < Len(fr) /\ FirstFrame(p) = fr[b + 1]
         /\ AfterFrame(p) \in Seq(Piece)
         /\ Framed(AfterFrame(p) \o t, fr, b + 1)
         /\ Whole(p \o t, fr, b) => Whole(AfterFrame(p) \o t, fr, b + 1)
<1> DEFINE u == p \o t
           v == AfterFrame(p) \o t
           n == Len(fr)
<1>1. /\ u \in Seq(Piece) /\ Len(u) = Len(p) + Len(t)
      /\ Len(p) \in Nat /\ Len(t) \in Nat
      /\ \A i \in 1..Len(u) : u[i] = IF i <= Len(p) THEN p[i] ELSE t[i - Len(p)]
  BY ConcatProperties
<1>2. n \in Nat /\ HeaderSize \in Nat /\ HeaderSize >= 1
  BY DerpAssumption
<1>3. Len(p) >= HeaderSize /\ Len(p) >= HeaderSize + SizeTold(p)
  BY DEF HasFrame
<1>4. ASSUME NEW at, Lays(u, fr, b, at)
      PROVE  b < n /\ FirstFrame(p) = fr[b + 1]
  <2>1. /\ b \in 0..n /\ at \in [1..n + 1 -> Nat]
        /\ Len(u) <= at[n + 1] - at[b + 1]
        /\ \A j \in b + 1..n : \A i \in 1..Size(fr[j]) :
             at[j] + i - at[b + 1] <= Len(u) =>
               u[at[j] + i - at[b + 1]] = <<fr[j], i>>
    BY <1>4 DEF Lays
  <2>2. PICK a \in Nat : a = at[b + 1]
    BY <1>2, <2>1
  <2>3. Len(u) >= 1 /\ 1 <= Len(p) /\ 1 \in 1..Len(u) /\ Len(u) \in Nat
    BY <1>1, <1>2, <1>3
  <2>4. b # n
    <3> SUFFICES ASSUME b = n PROVE FALSE
      OBVIOUS
    <3>1. Len(u) <= a - a
      BY <2>1, <2>2
    <3>2. QED
      BY <2>2, <2>3, <3>1
  <2>5. b < n /\ b + 1 \in b + 1..n /\ b + 1 \in 1..n
    BY <1>2, <2>1, <2>4
  <2>6. fr[b + 1] \in Frame
    BY <2>5
  <2>7. 1 \in 1..Size(fr[b + 1])
    BY <2>6, Sizes
  <2>8. at[b + 1] + 1 - at[b + 1] = 1
    BY <2>2
  <2>9. u[1] = <<fr[b + 1], 1>>
    BY <2>1, <2>3, <2>5, <2>7, <2>8
  <2>10. u[1] = p[1]
    BY <1>1, <2>3
  <2>11. FirstFrame(p) = fr[b + 1]
    <3>1. p[1] = <<fr[b + 1], 1>>
      BY <2>9, <2>10
    <3>2. p[1][1] = fr[b + 1]
      BY <3>1
    <3>3. QED
      BY <3>2 DEF FirstFrame
  <2>12. QED
    BY <2>5, <2>11
<1>5. PICK old : Lays(u, fr, b, old)
  BY DEF Framed
<1>a. b \in 0..n
  BY <1>5 DEF Lays
<1>b. b < n /\ FirstFrame(p) = fr[b + 1]
  BY <1>4, <1>5
<1>6. b < n /\ FirstFrame(p) = fr[b + 1] /\ b \in 0..n /\ b \in Nat
  BY <1>2, <1>a, <1>b
<1>7. b + 1 \in 1..n /\ fr[b + 1] \in Frame
  BY <1>2, <1>6
<1>8. PICK z \in Nat : z = Size(fr[b + 1]) /\ z >= 1
  BY <1>7, Sizes
<1>9. HeaderSize + SizeTold(p) = z /\ z <= Len(p)
  BY <1>3, <1>6, <1>8 DEF SizeTold, FirstFrame, Size
<1>10. AfterFrame(p) = SubSeq(p, z + 1, Len(p))
  BY <1>9 DEF AfterFrame
<1>11. /\ AfterFrame(p) \in Seq(Piece) /\ Len(AfterFrame(p)) = Len(p) - z
       /\ \A i \in 1..Len(p) - z : AfterFrame(p)[i] = p[i + z]
  <2>1. z \in 0..Len(p)
    BY <1>1, <1>8, <1>9
  <2>2. /\ SubSeq(p, z + 1, Len(p)) \in Seq(Piece)
        /\ Len(SubSeq(p, z + 1, Len(p))) = Len(p) - z
    BY <2>1, Cut
  <2>3. \A i \in 1..Len(p) - z : SubSeq(p, z + 1, Len(p))[i] = p[i + z]
    <3>1. \A i \in z + 1..Len(p) : p[i] \in Piece
      BY <1>1, <2>1
    <3>2. z + 1 \in Int /\ Len(p) \in Int
      BY <1>1
    <3>3. \A i \in 1..Len(SubSeq(p, z + 1, Len(p))) :
            SubSeq(p, z + 1, Len(p))[i] = p[z + 1 + i - 1]
      BY <3>1, <3>2, SubSeqProperties
    <3>4. QED
      BY <1>1, <2>2, <3>3
  <2>4. QED
    BY <1>10, <2>2, <2>3
<1>12. /\ v \in Seq(Piece) /\ Len(v) = Len(AfterFrame(p)) + Len(t)
       /\ \A i \in 1..Len(v) :
            v[i] = IF i <= Len(AfterFrame(p)) THEN AfterFrame(p)[i]
                   ELSE t[i - Len(AfterFrame(p))]
  <2>1. PICK w \in Seq(Piece) : w = AfterFrame(p)
    BY <1>11
  <2>2. /\ w \o t \in Seq(Piece) /\ Len(w \o t) = Len(w) + Len(t)
        /\ \A i \in 1..Len(w \o t) :
             (w \o t)[i] = IF i <= Len(w) THEN w[i] ELSE t[i - Len(w)]
    BY ConcatProperties
  <2>3. QED
    BY <2>1, <2>2
<1>13. Len(v) = Len(u) - z
  BY <1>1, <1>8, <1>11, <1>12
<1>14. ASSUME NEW i \in 1..Len(v) PROVE v[i] = u[i + z]
  <2>1. i + z \in 1..Len(u) /\ i \in Nat /\ i >= 1
    BY <1>1, <1>8, <1>11, <1>12, <1>13
  <2>2. CASE i <= Len(p) - z
    <3>1. v[i] = AfterFrame(p)[i] /\ AfterFrame(p)[i] = p[i + z]
      BY <1>11, <1>12, <2>1, <2>2
    <3>2. i + z <= Len(p)
      BY <1>1, <1>8, <2>1, <2>2
    <3>3. QED
      BY <1>1, <2>1, <3>1, <3>2
  <2>3. CASE ~(i <= Len(p) - z)
    <3>1. v[i] = t[i - (Len(p) - z)]
      BY <1>11, <1>12, <2>3
    <3>2. PICK m \in 1..Len(u) : m = i + z
      BY <2>1
    <3>3. ~(m <= Len(p)) /\ m - Len(p) = i - (Len(p) - z)
      BY <1>1, <1>8, <2>1, <2>3, <3>2
    <3>4. u[m] = t[m - Len(p)]
      BY <1>1, <3>3
    <3>5. QED
      BY <3>1, <3>2, <3>3, <3>4
  <2>4. QED
    BY <2>2, <2>3
<1> HIDE DEF u, v
<1>15. ASSUME NEW at, Lays(u, fr, b, at)
       PROVE  /\ Lays(v, fr, b + 1, at) /\ at \in [1..n + 1 -> Nat]
              /\ Len(u) = at[n + 1] - at[b + 1] =>
                   Len(v) = at[n + 1] - at[b + 1 + 1]
  <2>1. /\ at \in [1..n + 1 -> Nat]
        /\ \A j \in 1..n : at[j + 1] = at[j] + Size(fr[j])
        /\ \A j, k \in 1..n + 1 : j <= k => at[j] <= at[k]
        /\ Len(u) <= at[n + 1] - at[b + 1]
        /\ \A j \in b + 1..n : \A i \in 1..Size(fr[j]) :
             at[j] + i - at[b + 1] <= Len(u) =>
               u[at[j] + i - at[b + 1]] = <<fr[j], i>>
    BY <1>15 DEF Lays
  <2>2. /\ b + 1 \in 1..n + 1 /\ b + 1 + 1 \in 1..n + 1 /\ n + 1 \in 1..n + 1
        /\ b + 1 \in 0..n
    BY <1>2, <1>6
  <2>3. PICK a \in Nat, c \in Nat, e \in Nat :
          a = at[b + 1] /\ c = at[b + 1 + 1] /\ e = at[n + 1]
    BY <2>1, <2>2
  <2>4. c = a + z
    BY <1>7, <1>8, <2>1, <2>3
  <2>5. Len(u) \in Nat /\ Len(v) \in Nat
    BY <1>1, <1>12 DEF u, v
  <2>a. Len(u) <= e - a
    BY <2>1, <2>3
  <2>6. Len(v) <= e - c
    BY <1>13, <2>4, <2>5, <2>a
  <2>7. Len(u) = e - a => Len(v) = e - c
    BY <1>13, <2>3, <2>4, <2>5, SMTT(20)
  <2>8. ASSUME NEW j \in b + 1 + 1..n, NEW i \in 1..Size(fr[j]),
               at[j] + i - at[b + 1 + 1] <= Len(v)
        PROVE  v[at[j] + i - at[b + 1 + 1]] = <<fr[j], i>>
    <3>1. j \in 1..n + 1 /\ j \in b + 1..n /\ b + 1 + 1 <= j /\ j \in 1..n
      BY <1>2, <1>6
    <3>2. PICK q \in Nat : q = at[j] /\ c <= q
      BY <2>1, <2>2, <2>3, <3>1
    <3>3. i \in Nat /\ i >= 1
      <4>1. fr[j] \in Frame
        BY <3>1
      <4>2. Size(fr[j]) \in Nat
        BY <4>1, Sizes
      <4>3. QED
        BY <4>2
    <3>4. PICK m \in 1..Len(v) : m = q + i - c
      BY <2>3, <2>5, <2>8, <3>2, <3>3, SMTT(20)
    <3>5. m + z = q + i - a
      BY <2>4, <3>2, <3>3, <3>4, SMTT(20)
    <3>6. q + i - a <= Len(u)
      BY <1>13, <2>5, <3>4, <3>5
    <3>7. u[q + i - a] = <<fr[j], i>>
      BY <2>1, <2>3, <3>1, <3>2, <3>6
    <3>8. v[m] = u[m + z]
      BY <1>14
    <3>9. QED
      BY <2>3, <3>2, <3>4, <3>5, <3>7, <3>8
  <2>9. Lays(v, fr, b + 1, at)
    BY <2>1, <2>2, <2>3, <2>6, <2>8 DEF Lays
  <2>10. QED
    BY <2>1, <2>3, <2>7, <2>9
<1>16. Framed(v, fr, b + 1)
  BY <1>5, <1>15 DEF Framed
<1>17. Whole(u, fr, b) => Whole(v, fr, b + 1)
  BY <1>15 DEF Whole
<1>18. QED
  BY <1>6, <1>11, <1>16, <1>17 DEF u, v

(* The type invariant, in the groups of variables that steps leave alone.   *)
RelayTypes ==
  /\ relay \in Seq(Frame) /\ relaySent \in Seq(Frame) /\ relayOut \in Seq(Piece)
  /\ relayBuffer \in Seq(Piece) /\ relayGot \in Seq(Frame)
WireTypes ==
  toClient \in Seq(Piece) /\ toRelay \in Seq(Piece) /\ wire \in {"up", "cut"}
ClientTypes ==
  /\ buffer \in Seq(Piece) /\ got \in Seq(Frame)
  /\ phase \in {"new", "greeting", "info", "connected", "closed"}
  /\ receiving \in BOOLEAN
  /\ out \in Seq(Piece) /\ clientSent \in Seq(Frame)
TypeOK == RelayTypes /\ WireTypes /\ ClientTypes

(* A step that leaves a group alone keeps its types.                        *)
LEMMA Frames ==
  ASSUME TypeOK
  PROVE  /\ UNCHANGED relayVars => RelayTypes'
         /\ UNCHANGED wireVars => WireTypes'
         /\ UNCHANGED clientVars => ClientTypes'
<1>1. UNCHANGED relayVars => RelayTypes'
  BY DEF TypeOK, relayVars, RelayTypes
<1>2. UNCHANGED wireVars => WireTypes'
  BY DEF TypeOK, wireVars, WireTypes
<1>3. UNCHANGED clientVars => ClientTypes'
  BY DEF TypeOK, clientVars, ClientTypes
<1>4. QED
  BY <1>1, <1>2, <1>3

(* The initial states have these types.                                     *)
LEMMA InitTypes == Init => TypeOK
<1> SUFFICES ASSUME Init PROVE TypeOK
  OBVIOUS
<1>1. <<>> \in Seq(Piece) /\ <<>> \in Seq(Frame) /\ relay \in Seq(Frame)
  BY DerpAssumption DEF Init
<1>2. RelayTypes /\ WireTypes
  BY <1>1 DEF Init, RelayTypes, WireTypes
<1>3. ClientTypes
  BY <1>1 DEF Init, ClientTypes
<1>4. QED
  BY <1>2, <1>3 DEF TypeOK

(* A frame at the front of a buffer is a frame, and the rest are pieces.    *)
LEMMA FirstTypes ==
  ASSUME NEW p \in Seq(Piece), HasFrame(p)
  PROVE  FirstFrame(p) \in Frame /\ AfterFrame(p) \in Seq(Piece)
<1>1. HeaderSize \in Nat /\ HeaderSize >= 1 /\ Len(p) >= HeaderSize
  BY DerpAssumption DEF HasFrame
<1>2. 1 \in 1..Len(p)
  BY <1>1
<1>3. p[1] \in Piece
  BY <1>2
<1>4. FirstFrame(p) \in Frame
  BY <1>3 DEF FirstFrame, Piece
<1>5. SizeTold(p) \in Nat
  BY <1>4, Sizes DEF SizeTold, FirstFrame
<1>6. Len(p) >= HeaderSize + SizeTold(p)
  BY DEF HasFrame
<1>7. PICK z \in 0..Len(p) : z = HeaderSize + SizeTold(p)
  BY <1>1, <1>5, <1>6
<1>8. SubSeq(p, z + 1, Len(p)) \in Seq(Piece)
  BY Cut
<1>9. QED
  BY <1>4, <1>7, <1>8 DEF AfterFrame

(* send_all() is given a frame's pieces.                                    *)
LEMMA Begins ==
  ASSUME TypeOK, NEW f \in Frame, Begin(f)
  PROVE  clientSent' \in Seq(Frame) /\ out' \in Seq(Piece)
<1>1. clientSent \in Seq(Frame) /\ Encode(f) \in Seq(Piece)
  BY Sizes DEF TypeOK, ClientTypes
<1>2. QED
  BY <1>1, AppendProperties DEF Begin

(* The frames that the client sends (make_derp_client_info(), send_packet(),*)
(* send_pong()).                                                            *)
LEMMA SentFrames ==
  ASSUME TypeOK
  PROVE  /\ Request \in Frame /\ ClientInfo \in Frame
         /\ <<"SendPacket", Packets + 1, 2>> \in Frame
         /\ \A f \in Frame : Pong(f[2]) \in Frame
<1>1. Packets \in Nat
  <2>1. clientSent \in Seq(Frame)
    BY DEF TypeOK, ClientTypes
  <2> DEFINE n == Len(clientSent)
             sent == {i \in 1..n : clientSent[i][1] = "SendPacket"}
  <2>2. n \in Nat
    BY <2>1
  <2>3. IsFiniteSet(1..n)
    BY <2>2, FS_Interval
  <2>4. IsFiniteSet(sent)
    BY <2>3, FS_Subset
  <2>5. Cardinality(sent) \in Nat
    BY <2>4, FS_CardinalityType
  <2>6. QED
    BY <2>5 DEF Packets
<1>2. Request \in Frame /\ ClientInfo \in Frame
  BY DEF Request, ClientInfo, Frame, FrameType
<1>3. <<"SendPacket", Packets + 1, 2>> \in Frame
  <2>1. PICK n \in Nat : n = Packets + 1
    BY <1>1
  <2>2. <<"SendPacket", n, 2>> \in Frame
    BY DEF Frame, FrameType
  <2>3. QED
    BY <2>1, <2>2
<1>4. ASSUME NEW f \in Frame PROVE Pong(f[2]) \in Frame
  <2>1. PICK n \in Nat : n = f[2]
    BY DEF Frame
  <2>2. Pong(n) \in Frame
    BY DEF Pong, PingSize, Frame, FrameType
  <2>3. QED
    BY <2>1, <2>2
<1>5. QED
  BY <1>2, <1>3, <1>4

(* The steps as each direction sees them. The client takes a frame; it      *)
(* begins to send one; the direction is left alone; the client is closed,   *)
(* and its buffer empty.                                                    *)
Taken ==
  /\ phase # "closed" /\ phase' # "closed" /\ HasFrame(buffer)
  /\ got' = Append(got, FirstFrame(buffer)) /\ buffer' = AfterFrame(buffer)
  /\ UNCHANGED <<relaySent, relayOut, toClient, wire>>
Begun ==
  /\ out = <<>> \/ phase = "new"
  /\ phase' # "new" /\ \E f \in Frame : Begin(f)
  /\ UNCHANGED <<relayBuffer, toRelay, relayGot, wire>>
DownIdle ==
  /\ UNCHANGED <<buffer, got, relaySent, relayOut, toClient, wire>>
  /\ phase = "closed" => phase' = "closed"
DownOver == phase' = "closed" /\ UNCHANGED <<got, relaySent>>
UpIdle ==
  /\ UNCHANGED <<relayBuffer, relayGot, toRelay, out, clientSent, wire>>
  /\ phase' = "new" => phase = "new"

(* Every step is one of these to the direction from the relay, or the relay *)
(* or the connection moves.                                                 *)
(* Every step keeps it, and a frame that the client takes is the next one.  *)
LEMMA DownSteps ==
  ASSUME TypeOK, [Next]_vars
  PROVE  \/ DownIdle \/ DownOver \/ Taken
         \/ RelaySends \/ RelayWrites \/ WireBreaks \/ ReceiveSome
<1>1. CASE RelayReads \/ SendSome \/ UNCHANGED vars
  BY <1>1 DEF RelayReads, SendSome, vars, clientVars, wireVars, relayVars,
     DownIdle
<1>2. CASE Connect \/ ReceiveFor \/ TimesOut \/ SendPacket
  BY <1>2 DEF Connect, ReceiveFor, TimesOut, SendPacket, wireVars, relayVars,
     DownIdle, Reading, Idle
<1>3. CASE ConnectFails \/ ReceiveFails \/ GreetingRejected \/ HandleThrows
  BY <1>3 DEF ConnectFails, ReceiveFails, GreetingRejected, HandleThrows,
     wireVars, relayVars, DownOver
<1>4. CASE SendFails
  <2>1. CASE phase' = "closed"
    BY <1>4, <2>1 DEF SendFails, wireVars, relayVars, DownOver
  <2>2. CASE phase' # "closed"
    BY <1>4, <2>2 DEF SendFails, wireVars, relayVars, DownIdle
  <2>3. QED
    BY <2>1, <2>2
<1>5. CASE ReadServerKey \/ ReadServerInfo \/ Handle
  BY <1>5 DEF ReadServerKey, ReadServerInfo, Handle, TakeBufferedFrame, Reading,
     wireVars, relayVars, Taken
<1>6. QED
  BY <1>1, <1>2, <1>3, <1>4, <1>5 DEF Next, Relaying, Connecting, Receiving

(* And to the direction from the client.                                    *)
(* Every step keeps it, and a frame that the relay decodes is the next one. *)
(* A frame is begun only when nothing is left of the one before it, or after*)
(* the connection broke in the middle of that: then the queue ends before   *)
(* the next would begin.                                                    *)
LEMMA UpSteps ==
  ASSUME TypeOK, [Next]_vars
  PROVE  UpIdle \/ Begun \/ RelayReads \/ WireBreaks \/ SendSome \/ SendFails
<1>1. CASE RelaySends \/ RelayWrites \/ UNCHANGED vars
  BY <1>1 DEF RelaySends, RelayWrites, vars, clientVars, wireVars, relayVars,
     UpIdle
<1>2. CASE \/ ConnectFails \/ ReceiveFails \/ GreetingRejected \/ HandleThrows
           \/ ReceiveFor \/ TimesOut \/ ReadServerInfo \/ ReceiveSome
  BY <1>2 DEF ConnectFails, ReceiveFails, GreetingRejected, HandleThrows,
     ReceiveFor, TimesOut, ReadServerInfo, ReceiveSome, wireVars, relayVars,
     UpIdle
<1>3. ASSUME NEW f \in Frame, Begin(f), out = <<>> \/ phase = "new",
             phase' # "new", UNCHANGED <<relayBuffer, toRelay, relayGot, wire>>
      PROVE  Begun
  BY <1>3 DEF Begun
<1>4. CASE Connect
  <2>1. Begin(Request) /\ Request \in Frame /\ phase' # "new" /\ phase = "new"
    BY <1>4, SentFrames DEF Connect
  <2>2. UNCHANGED <<relayBuffer, toRelay, relayGot, wire>>
    BY <1>4 DEF Connect, wireVars, relayVars
  <2>3. QED
    BY <1>3, <2>1, <2>2
<1>5. CASE ReadServerKey
  <2>1. Begin(ClientInfo) /\ phase' # "new" /\ out = <<>>
    BY <1>5 DEF ReadServerKey, Reading
  <2>2. UNCHANGED <<relayBuffer, toRelay, relayGot, wire>>
    BY <1>5 DEF ReadServerKey, wireVars, relayVars
  <2>3. QED
    BY <1>3, <2>1, <2>2, SentFrames
<1>6. CASE SendPacket
  <2>1. Begin(<<"SendPacket", Packets + 1, 2>>) /\ phase' # "new" /\ out = <<>>
    BY <1>6 DEF SendPacket, Idle
  <2>2. UNCHANGED <<relayBuffer, toRelay, relayGot, wire>>
    BY <1>6 DEF SendPacket, wireVars, relayVars
  <2>3. QED
    BY <1>3, <2>1, <2>2, SentFrames
<1>7. CASE Handle
  <2>1. HasFrame(buffer) /\ buffer \in Seq(Piece)
    BY <1>7 DEF Handle, TakeBufferedFrame, TypeOK, ClientTypes
  <2>2. FirstFrame(buffer) \in Frame
    BY <2>1, FirstTypes
  <2>3. phase' # "new" /\ phase' = phase /\ out = <<>>
    BY <1>7 DEF Handle, Reading
  <2>4. UNCHANGED <<relayBuffer, toRelay, relayGot, wire>>
    BY <1>7 DEF Handle, wireVars, relayVars
  <2>5. CASE Begin(Pong(FirstFrame(buffer)[2]))
    BY <1>3, <2>2, <2>3, <2>4, <2>5, SentFrames
  <2>6. CASE UNCHANGED <<out, clientSent>>
    BY <2>3, <2>4, <2>6 DEF UpIdle
  <2>7. QED
    BY <1>7, <2>5, <2>6 DEF Handle
<1>8. QED
  BY <1>1, <1>2, <1>4, <1>5, <1>6, <1>7
     DEF Next, Relaying, Connecting, Receiving

(* Every step keeps the types.                                              *)
LEMMA StepTypes ==
  ASSUME TypeOK, [Next]_vars
  PROVE  TypeOK'
<1>a. /\ UNCHANGED relayVars => RelayTypes'
      /\ UNCHANGED wireVars => WireTypes'
      /\ UNCHANGED clientVars => ClientTypes'
  BY Frames
<1>b. /\ relay \in Seq(Frame) /\ relaySent \in Seq(Frame)
      /\ relayOut \in Seq(Piece) /\ relayBuffer \in Seq(Piece)
      /\ relayGot \in Seq(Frame)
  BY DEF TypeOK, RelayTypes
<1>c. toClient \in Seq(Piece) /\ toRelay \in Seq(Piece) /\ wire \in {"up",
    "cut"}
  BY DEF TypeOK, WireTypes
<1>d. /\ buffer \in Seq(Piece) /\ got \in Seq(Frame)
      /\ phase \in {"new", "greeting", "info", "connected", "closed"}
      /\ receiving \in BOOLEAN
      /\ out \in Seq(Piece) /\ clientSent \in Seq(Frame)
  BY DEF TypeOK, ClientTypes
<1>e. <<>> \in Seq(Piece)
  OBVIOUS
<1>1. CASE UNCHANGED vars
  BY <1>1, <1>a DEF vars, TypeOK
<1>2. CASE RelaySends
  <2>1. PICK i \in 1..Len(relay) : i = Len(relaySent) + 1
    BY <1>2, <1>b DEF RelaySends
  <2>2. relay[i] \in Frame
    BY <1>b
  <2>3. Append(relaySent,
      relay[i]) \in Seq(Frame) /\ Encode(relay[i]) \in Seq(Piece)
    BY <1>b, <2>2, Sizes, AppendProperties
  <2>4. RelayTypes'
    BY <1>2, <1>b, <2>1, <2>3 DEF RelaySends, RelayTypes
  <2>5. WireTypes' /\ ClientTypes'
    BY <1>2, <1>a DEF RelaySends
  <2>6. QED
    BY <2>4, <2>5 DEF TypeOK
<1>3. CASE RelayWrites
  <2>1. /\ Append(toClient, Head(relayOut)) \in Seq(Piece)
        /\ Tail(relayOut) \in Seq(Piece)
    BY <1>3, <1>b, <1>c, HeadMoved DEF RelayWrites
  <2>2. RelayTypes'
    BY <1>3, <1>b, <2>1 DEF RelayWrites, RelayTypes
  <2>3. WireTypes'
    BY <1>3, <1>c, <2>1 DEF RelayWrites, WireTypes
  <2>4. ClientTypes'
    BY <1>3, <1>a DEF RelayWrites
  <2>5. QED
    BY <2>2, <2>3, <2>4 DEF TypeOK
<1>4. CASE RelayReads
  <2> DEFINE p == Append(relayBuffer, Head(toRelay))
  <2>1. p \in Seq(Piece) /\ Tail(toRelay) \in Seq(Piece)
    BY <1>4, <1>b, <1>c, HeadMoved DEF RelayReads
  <2>2. /\ toRelay' = Tail(toRelay)
        /\ UNCHANGED <<relay, relaySent, relayOut, toClient, wire, clientVars>>
        /\ IF HasFrame(p) THEN /\ relayGot' = Append(relayGot, FirstFrame(p))
                               /\ relayBuffer' = AfterFrame(p)
           ELSE relayBuffer' = p /\ UNCHANGED relayGot
    BY <1>4 DEF RelayReads
  <2> HIDE DEF p
  <2>3. relayGot' \in Seq(Frame) /\ relayBuffer' \in Seq(Piece)
    <3>1. CASE HasFrame(p)
      <4>1. FirstFrame(p) \in Frame /\ AfterFrame(p) \in Seq(Piece)
        BY <2>1, <3>1, FirstTypes
      <4>2. QED
        <5>1. /\ relayGot' = Append(relayGot, FirstFrame(p))
              /\ relayBuffer' = AfterFrame(p)
          BY <2>2, <3>1
        <5>2. Append(relayGot, FirstFrame(p)) \in Seq(Frame)
          BY <1>b, <4>1, AppendProperties
        <5>3. QED
          BY <4>1, <5>1, <5>2
    <3>2. CASE ~HasFrame(p)
      BY <1>b, <2>1, <2>2, <3>2
    <3>3. QED
      BY <3>1, <3>2
  <2>4. RelayTypes'
    BY <1>b, <2>2, <2>3 DEF RelayTypes
  <2>5. WireTypes'
    BY <1>c, <2>1, <2>2 DEF WireTypes
  <2>6. ClientTypes'
    BY <1>a, <2>2
  <2>7. QED
    BY <2>4, <2>5, <2>6 DEF TypeOK
<1>5. CASE WireBreaks
  <2>1. ASSUME NEW s \in Seq(Piece), NEW n \in 0..Len(s)
        PROVE  SubSeq(s, 1, n) \in Seq(Piece)
    BY Cut
  <2>2. toClient' \in Seq(Piece) /\ toRelay' \in Seq(Piece)
    BY <1>5, <1>c, <2>1 DEF WireBreaks
  <2>3. WireTypes'
    BY <1>5, <2>2 DEF WireBreaks, WireTypes
  <2>4. QED
    BY <1>5, <1>a, <2>3 DEF WireBreaks, TypeOK
<1>6. ASSUME NEW f \in Frame, Begin(f), got' \in Seq(Frame),
             buffer' \in Seq(Piece), receiving' \in BOOLEAN,
             phase' \in {"new", "greeting", "info", "connected", "closed"}
      PROVE  ClientTypes'
  BY <1>6, Begins DEF ClientTypes
<1>7. CASE Connect
  <2>1. ClientTypes'
    BY <1>7, <1>6, <1>d, SentFrames DEF Connect
  <2>2. QED
    BY <1>7, <1>a, <2>1 DEF Connect, TypeOK
<1>8. CASE SendPacket
  <2>1. ClientTypes'
    BY <1>8, <1>6, <1>d, SentFrames DEF SendPacket
  <2>2. QED
    BY <1>8, <1>a, <2>1 DEF SendPacket, TypeOK
<1>9. CASE ReadServerKey \/ ReadServerInfo \/ Handle
  <2>a. /\ HasFrame(buffer) /\ got' = Append(got, FirstFrame(buffer))
        /\ buffer' = AfterFrame(buffer)
    BY <1>9 DEF TakeBufferedFrame, ReadServerKey, ReadServerInfo, Handle
  <2>b. FirstFrame(buffer) \in Frame /\ AfterFrame(buffer) \in Seq(Piece)
    BY <1>d, <2>a, FirstTypes
  <2>1. got' \in Seq(Frame) /\ buffer' \in Seq(Piece)
      /\ FirstFrame(buffer) \in Frame
    BY <1>d, <2>a, <2>b, AppendProperties
  <2>2. CASE ReadServerKey
    <3>1. ClientTypes'
      BY <1>6, <1>d, <2>1, <2>2, SentFrames DEF ReadServerKey
    <3>2. QED
      BY <1>a, <2>2, <3>1 DEF ReadServerKey, TypeOK
  <2>3. CASE ReadServerInfo
    <3>1. ClientTypes'
      BY <1>d, <2>1, <2>3 DEF ReadServerInfo, ClientTypes
    <3>2. QED
      BY <1>a, <2>3, <3>1 DEF ReadServerInfo, TypeOK
  <2>4. CASE Handle
    <3>0. phase' = phase /\ receiving' \in BOOLEAN
      BY <2>4 DEF Handle
    <3>1. ASSUME Begin(Pong(FirstFrame(buffer)[2])) PROVE ClientTypes'
      <4>1. Pong(FirstFrame(buffer)[2]) \in Frame
        BY <2>1, SentFrames
      <4>2. QED
        BY <1>6, <1>d, <2>1, <3>0, <3>1, <4>1
    <3>2. ASSUME UNCHANGED <<out, clientSent>> PROVE ClientTypes'
      BY <1>d, <2>1, <3>0, <3>2 DEF ClientTypes
    <3>3. ClientTypes'
      BY <2>4, <3>1, <3>2 DEF Handle
    <3>4. QED
      BY <1>a, <2>4, <3>3 DEF Handle, TypeOK
  <2>5. QED
    BY <1>9, <2>2, <2>3, <2>4
<1>10. CASE SendSome
  <2>1. PICK n \in 1..Len(out) :
          /\ toRelay' = toRelay \o SubSeq(out, 1, n)
          /\ out' = SubSeq(out, n + 1, Len(out))
    BY <1>10 DEF SendSome
  <2>2. n \in 0..Len(out)
    BY <1>d
  <2>3. /\ SubSeq(out, 1, n) \in Seq(Piece)
        /\ SubSeq(out, n + 1, Len(out)) \in Seq(Piece)
    BY <1>d, <2>2, Cut
  <2>4. toRelay' \in Seq(Piece) /\ out' \in Seq(Piece)
    BY <1>c, <2>1, <2>3, ConcatProperties
  <2>5. WireTypes'
    BY <1>10, <1>c, <2>4 DEF SendSome, WireTypes
  <2>6. ClientTypes'
    BY <1>10, <1>d, <2>4 DEF SendSome, ClientTypes
  <2>7. QED
    BY <1>10, <1>a, <2>5, <2>6 DEF SendSome, TypeOK
<1>11. CASE ReceiveSome
  <2>1. PICK n \in 1..Len(toClient) :
          /\ buffer' = buffer \o SubSeq(toClient, 1, n)
          /\ toClient' = SubSeq(toClient, n + 1, Len(toClient))
    BY <1>11 DEF ReceiveSome
  <2>2. n \in 0..Len(toClient)
    BY <1>c
  <2>3. /\ SubSeq(toClient, 1, n) \in Seq(Piece)
        /\ SubSeq(toClient, n + 1, Len(toClient)) \in Seq(Piece)
    BY <1>c, <2>2, Cut
  <2>4. buffer' \in Seq(Piece) /\ toClient' \in Seq(Piece)
    BY <1>d, <2>1, <2>3, ConcatProperties
  <2>5. WireTypes'
    BY <1>11, <1>c, <2>4 DEF ReceiveSome, WireTypes
  <2>6. ClientTypes'
    BY <1>11, <1>d, <2>4 DEF ReceiveSome, ClientTypes
  <2>7. QED
    BY <1>11, <1>a, <2>5, <2>6 DEF ReceiveSome, TypeOK
<1>12. CASE SendFails
  <2>1. buffer' \in Seq(Piece) /\ out' \in Seq(Piece)
    BY <1>12, <1>d, <1>e DEF SendFails
  <2>2. ClientTypes'
    BY <1>12, <1>d, <2>1 DEF SendFails, ClientTypes
  <2>3. QED
    BY <1>12, <1>a, <2>2 DEF SendFails, TypeOK
<1>13. CASE ConnectFails \/ ReceiveFor \/ TimesOut
  <2>1. ClientTypes'
    BY <1>13, <1>d DEF ConnectFails, ReceiveFor, TimesOut, ClientTypes
  <2>2. QED
    BY <1>13, <1>a, <2>1 DEF ConnectFails, ReceiveFor, TimesOut, TypeOK
<1>14. CASE ReceiveFails \/ GreetingRejected \/ HandleThrows
  <2>1. buffer' \in Seq(Piece)
    BY <1>14, <1>e DEF ReceiveFails, GreetingRejected, HandleThrows
  <2>2. ClientTypes'
    BY <1>14, <1>d, <2>1
       DEF ReceiveFails, GreetingRejected, HandleThrows, ClientTypes
  <2>3. QED
    BY <1>14, <1>a, <2>2 DEF ReceiveFails, GreetingRejected, HandleThrows,
        TypeOK
<1>15. QED
  BY <1>1, <1>2, <1>3, <1>4, <1>5, <1>7, <1>8, <1>9, <1>10, <1>11, <1>12, <1>13,
     <1>14
     DEF Next, Relaying, Connecting, Receiving

(* From the relay, as long as the client lives: receive_buffer and the wire *)
(* are the front of the frames that were sent and not yet taken; all of     *)
(* them, with what the relay still has to write, while the connection is up.*)
Down ==
  phase # "closed" =>
    /\ Framed(buffer \o toClient, relaySent, Len(got))
    /\ wire = "up" =>
         Whole(buffer \o (toClient \o relayOut), relaySent, Len(got))

(* Queues of pieces, joined in whatever order.                              *)
(* Queues of pieces, joined in whatever order.                              *)
LEMMA Queues ==
  \A x, y, z \in Seq(Piece) :
    /\ x ++ y \in Seq(Piece) /\ (x ++ y) ++ z = x ++ (y ++ z)
BY InOrder

(* All of the frames is the front of them.                                  *)
LEMMA WholeFramed ==
  ASSUME NEW s, NEW fr, NEW b, Whole(s, fr, b)
  PROVE  Framed(s, fr, b)
BY DEF Whole, Framed

LEMMA DownStep ==
  ASSUME TypeOK, Down, [Next]_vars
  PROVE  /\ Down'
         /\ Taken => /\ Len(got) < Len(relaySent)
                     /\ got' = Append(got, relaySent[Len(got) + 1])
<1>a. /\ buffer \in Seq(Piece) /\ toClient \in Seq(Piece)
      /\ relayOut \in Seq(Piece) /\ relaySent \in Seq(Frame)
      /\ got \in Seq(Frame) /\ relay \in Seq(Frame)
  BY DEF TypeOK, ClientTypes, WireTypes, RelayTypes
<1>b. /\ toClient \o relayOut \in Seq(Piece)
      /\ buffer \o toClient \in Seq(Piece)
  BY <1>a, Joined
<1>c. phase # "closed" =>
        /\ Framed(buffer \o toClient, relaySent, Len(got))
        /\ wire = "up" =>
             Whole(buffer \o (toClient \o relayOut), relaySent, Len(got))
  BY DEF Down
<1>1. ASSUME DownIdle PROVE Down'
  BY <1>1, <1>c DEF DownIdle, Down
<1>2. ASSUME DownOver PROVE Down'
  BY <1>2 DEF DownOver, Down
<1>3. ASSUME Taken
      PROVE  /\ Down' /\ Len(got) < Len(relaySent)
             /\ got' = Append(got, relaySent[Len(got) + 1])
  <2>1. /\ phase # "closed" /\ HasFrame(buffer)
        /\ got' = Append(got,
             FirstFrame(buffer)) /\ buffer' = AfterFrame(buffer)
        /\ UNCHANGED <<relaySent, relayOut, toClient, wire>>
    BY <1>3 DEF Taken
  <2>2. /\ Len(got) < Len(relaySent)
        /\ FirstFrame(buffer) = relaySent[Len(got) + 1]
        /\ Framed(AfterFrame(buffer) \o toClient, relaySent, Len(got) + 1)
        /\ AfterFrame(buffer) \in Seq(Piece)
    BY <1>a, <1>c, <2>1, FirstTaken
  <2>3. ASSUME wire = "up"
        PROVE  Whole(AfterFrame(buffer) \o (toClient \o relayOut), relaySent,
                     Len(got) + 1)
    <3>1. Whole(buffer \o (toClient \o relayOut), relaySent, Len(got))
      BY <1>c, <2>1, <2>3
    <3>2. Framed(buffer \o (toClient \o relayOut), relaySent, Len(got))
      BY <3>1, WholeFramed
    <3>3. QED
      BY <1>a, <1>b, <2>1, <3>1, <3>2, FirstTaken
  <2>4. Len(got') = Len(got) + 1
    <3>1. FirstFrame(buffer) \in Frame
      BY <1>a, <2>1, FirstTypes
    <3>2. QED
      BY <1>a, <2>1, <3>1, AppendProperties
  <2>5. Down'
    BY <2>1, <2>2, <2>3, <2>4 DEF Down
  <2>6. QED
    BY <2>1, <2>2, <2>5
<1>4. ASSUME RelaySends PROVE Down'
  <2>1. PICK i \in 1..Len(relay) : i = Len(relaySent) + 1
    BY <1>4, <1>a DEF RelaySends
  <2>2. relay[i] \in Frame
    BY <1>a
  <2>3. /\ relaySent' = Append(relaySent,
             relay[i]) /\ relayOut' = Encode(relay[i])
        /\ relayOut = <<>>
        /\ UNCHANGED <<buffer, got, phase, toClient, wire>>
    BY <1>4, <2>1 DEF RelaySends, wireVars, clientVars
  <2>4. phase # "closed" =>
          Framed(buffer \o toClient, Append(relaySent, relay[i]), Len(got))
    BY <1>a, <1>b, <1>c, <2>2, FrameAdded
  <2>5. ASSUME phase # "closed", wire = "up"
        PROVE  Whole(buffer \o (toClient \o Encode(relay[i])),
                     Append(relaySent, relay[i]), Len(got))
    <3>1. toClient \o relayOut = toClient
      BY <1>a, <2>3, NoneQueued
    <3>2. Whole(buffer \o toClient, relaySent, Len(got))
      BY <1>c, <2>5, <3>1
    <3>3. Whole((buffer \o toClient) \o Encode(relay[i]),
                Append(relaySent, relay[i]), Len(got))
      BY <1>a, <1>b, <2>2, <3>2, FrameBegun
    <3>4. (buffer \o toClient) \o Encode(relay[i])
            = buffer \o (toClient \o Encode(relay[i]))
      <4>1. Encode(relay[i]) \in Seq(Piece)
        BY <2>2, Sizes
      <4>2. PICK e \in Seq(Piece) : e = Encode(relay[i])
        BY <4>1
      <4>3. (buffer ++ toClient) ++ e = buffer ++ (toClient ++ e)
        BY <1>a, Queues
      <4>4. QED
        BY <4>2, <4>3 DEF ++
    <3>5. QED
      BY <3>3, <3>4
  <2>6. QED
    BY <2>3, <2>4, <2>5 DEF Down
<1>5. ASSUME RelayWrites PROVE Down'
  <2>1. /\ wire = "up" /\ relayOut # <<>>
        /\ toClient' = Append(toClient, Head(relayOut))
        /\ relayOut' = Tail(relayOut)
        /\ UNCHANGED <<buffer, got, phase, relaySent, wire>>
    BY <1>5 DEF RelayWrites, clientVars
  <2>2. /\ toClient' \in Seq(Piece) /\ relayOut' \in Seq(Piece)
        /\ toClient' \o relayOut' = toClient \o relayOut
    <3>1. /\ Append(toClient, Head(relayOut)) \in Seq(Piece)
          /\ Tail(relayOut) \in Seq(Piece)
          /\ Append(toClient, Head(relayOut)) \o Tail(relayOut)
               = toClient \o relayOut
      BY <1>a, <2>1, HeadMoved, SMTT(20)
    <3>2. QED
      BY <2>1, <3>1
  <2>3. /\ (buffer \o toClient') \o relayOut' =
             buffer \o (toClient' \o relayOut')
        /\ buffer \o toClient' \in Seq(Piece)
    <3>1. /\ (buffer ++ toClient') ++ relayOut' =
               buffer ++ (toClient' ++ relayOut')
          /\ buffer ++ toClient' \in Seq(Piece)
      BY <1>a, <2>2, Queues
    <3>2. QED
      BY <3>1 DEF ++
  <2>4. ASSUME phase # "closed"
        PROVE  /\ Whole(buffer \o (toClient' \o relayOut'), relaySent, Len(got))
               /\ Framed(buffer \o toClient', relaySent, Len(got))
    <3>1. Whole(buffer \o (toClient' \o relayOut'), relaySent, Len(got))
      BY <1>c, <2>1, <2>2, <2>4
    <3>2. Framed((buffer \o toClient') \o relayOut', relaySent, Len(got))
      BY <2>3, <3>1, WholeFramed
    <3>3. Framed(buffer \o toClient', relaySent, Len(got))
      BY <1>a, <2>2, <2>3, <3>2, FrontFramed
    <3>4. QED
      BY <3>1, <3>3
  <2>5. QED
    BY <2>1, <2>4 DEF Down
<1>6. ASSUME WireBreaks PROVE Down'
  <2>1. PICK n \in 0..Len(toClient) : toClient' = SubSeq(toClient, 1, n)
    BY <1>6 DEF WireBreaks
  <2>2. /\ wire' # "up" /\ UNCHANGED <<buffer, got, phase, relaySent>>
    BY <1>6 DEF WireBreaks, relayVars, clientVars
  <2>3. PICK rest \in Seq(Piece) :
          toClient' \in Seq(Piece) /\ toClient' \o rest = toClient
    BY <1>a, <2>1, Cut
  <2>4. (buffer \o toClient') \o rest = buffer \o toClient
    <3>1. (buffer ++ toClient') ++ rest = buffer ++ (toClient' ++ rest)
      BY <1>a, <2>3, Queues
    <3>2. QED
      BY <2>3, <3>1 DEF ++
  <2>5. ASSUME phase # "closed"
        PROVE  Framed(buffer \o toClient', relaySent, Len(got))
    <3>1. Framed((buffer \o toClient') \o rest, relaySent, Len(got))
      BY <1>c, <2>4, <2>5
    <3>2. buffer \o toClient' \in Seq(Piece)
      BY <1>a, <2>3, Joined
    <3>3. QED
      BY <1>a, <2>3, <3>1, <3>2, FrontFramed
  <2>6. QED
    BY <2>2, <2>5 DEF Down
<1>7. ASSUME ReceiveSome PROVE Down'
  <2>1. PICK n \in 1..Len(toClient) :
          /\ buffer' = buffer \o SubSeq(toClient, 1, n)
          /\ toClient' = SubSeq(toClient, n + 1, Len(toClient))
    BY <1>7 DEF ReceiveSome
  <2>2. UNCHANGED <<relayOut, got, phase, relaySent, wire>>
    BY <1>7 DEF ReceiveSome, relayVars
  <2>3. n \in 0..Len(toClient)
    BY <1>a
  <2>4. PICK s \in Seq(Piece), t \in Seq(Piece) :
          s = SubSeq(toClient, 1, n) /\ t = toClient' /\ s \o t = toClient
    <3>1. PICK q \in Seq(Piece) : q = toClient
      BY <1>a
    <3>2. /\ SubSeq(q, 1, n) \in Seq(Piece) /\ SubSeq(q, n + 1,
               Len(q)) \in Seq(Piece)
          /\ SubSeq(q, 1, n) \o SubSeq(q, n + 1, Len(q)) = q
      BY <2>3, <3>1, Cut
    <3>3. QED
      BY <2>1, <3>1, <3>2
  <2>5. buffer' \o toClient' = buffer \o toClient
    <3>1. (buffer ++ s) ++ t = buffer ++ (s ++ t)
      BY <1>a, Queues
    <3>2. (buffer \o s) \o t = buffer \o (s \o t)
      BY <3>1 DEF ++
    <3>3. QED
      BY <2>1, <2>4, <3>2
  <2>6. buffer' \o (toClient' \o relayOut) = buffer \o (toClient \o relayOut)
    <3>1. (buffer ++ s) ++ (t ++ relayOut) = buffer ++ ((s ++ t) ++ relayOut)
      BY <1>a, Queues
    <3>2. (buffer \o s) \o (t \o relayOut) = buffer \o ((s \o t) \o relayOut)
      BY <3>1 DEF ++
    <3>3. QED
      BY <2>1, <2>4, <3>2
  <2>7. QED
    BY <1>c, <2>2, <2>5, <2>6 DEF Down
<1>8. QED
  BY <1>1, <1>2, <1>3, <1>4, <1>5, <1>6, <1>7, DownSteps

(* From the client: what the relay has read and what is on the wire are the *)
(* front of the frames begun and not yet decoded; all of them, with what    *)
(* send_all() still holds, while the connection is up. Nothing is sent      *)
(* before connect().                                                        *)
Up ==
  /\ Framed(relayBuffer \o toRelay, clientSent, Len(relayGot))
  /\ wire = "up" =>
       Whole(relayBuffer \o (toRelay \o out), clientSent, Len(relayGot))
  /\ phase = "new" => out = <<>>

LEMMA UpStep ==
  ASSUME TypeOK, Up, [Next]_vars
  PROVE  /\ Up'
         /\ RelayReads =>
              \/ relayGot' = relayGot
              \/ /\ Len(relayGot) < Len(clientSent)
                 /\ relayGot' = Append(relayGot, clientSent[Len(relayGot) + 1])
<1>a. /\ relayBuffer \in Seq(Piece) /\ toRelay \in Seq(Piece)
      /\ out \in Seq(Piece) /\ clientSent \in Seq(Frame)
      /\ relayGot \in Seq(Frame)
  BY DEF TypeOK, ClientTypes, WireTypes, RelayTypes
<1>b. /\ toRelay \o out \in Seq(Piece)
      /\ relayBuffer \o toRelay \in Seq(Piece)
  BY <1>a, Joined
<1>c. /\ Framed(relayBuffer \o toRelay, clientSent, Len(relayGot))
      /\ wire = "up" =>
           Whole(relayBuffer \o (toRelay \o out), clientSent, Len(relayGot))
      /\ phase = "new" => out = <<>>
  BY DEF Up
<1>1. ASSUME UpIdle PROVE Up'
  BY <1>1, <1>c DEF UpIdle, Up
<1>2. ASSUME Begun PROVE Up'
  <2>1. PICK f \in Frame : clientSent' = Append(clientSent,
      f) /\ out' = Encode(f)
    BY <1>2 DEF Begun, Begin
  <2>2. /\ out = <<>> /\ phase' # "new"
        /\ UNCHANGED <<relayBuffer, toRelay, relayGot, wire>>
    BY <1>2, <1>c DEF Begun
  <2>3. Framed(relayBuffer \o toRelay, Append(clientSent, f), Len(relayGot))
    BY <1>a, <1>b, <1>c, FrameAdded
  <2>4. ASSUME wire = "up"
        PROVE  Whole(relayBuffer \o (toRelay \o Encode(f)),
                     Append(clientSent, f), Len(relayGot))
    <3>1. toRelay \o out = toRelay
      BY <1>a, <2>2, NoneQueued
    <3>2. Whole(relayBuffer \o toRelay, clientSent, Len(relayGot))
      BY <1>c, <2>4, <3>1
    <3>3. Whole((relayBuffer \o toRelay) \o Encode(f), Append(clientSent, f),
                Len(relayGot))
      BY <1>a, <1>b, <3>2, FrameBegun
    <3>4. (relayBuffer \o toRelay) \o Encode(f)
            = relayBuffer \o (toRelay \o Encode(f))
      <4>1. PICK e \in Seq(Piece) : e = Encode(f)
        BY Sizes
      <4>2. (relayBuffer ++ toRelay) ++ e = relayBuffer ++ (toRelay ++ e)
        BY <1>a, Queues
      <4>3. QED
        BY <4>1, <4>2 DEF ++
    <3>5. QED
      BY <3>3, <3>4
  <2>5. QED
    BY <2>1, <2>2, <2>3, <2>4 DEF Up
<1>3. ASSUME RelayReads
      PROVE  /\ Up'
             /\ \/ relayGot' = relayGot
                \/ /\ Len(relayGot) < Len(clientSent)
                   /\ relayGot' = Append(relayGot,
                        clientSent[Len(relayGot) + 1])
  <2>1. PICK p \in Seq(Piece), t \in Seq(Piece) :
          /\ p = Append(relayBuffer, Head(toRelay)) /\ t = Tail(toRelay)
          /\ p \o t = relayBuffer \o toRelay
    <3>1. toRelay # <<>>
      BY <1>3 DEF RelayReads
    <3>2. /\ Append(relayBuffer, Head(toRelay)) \in Seq(Piece)
          /\ Tail(toRelay) \in Seq(Piece)
          /\ Append(relayBuffer, Head(toRelay)) \o Tail(toRelay)
               = relayBuffer \o toRelay
      BY <1>a, <3>1, HeadMoved, SMTT(20)
    <3>3. QED
      BY <3>2
  <2>2. /\ toRelay' = t
        /\ UNCHANGED <<wire, out, clientSent, phase>>
        /\ HasFrame(p) => /\ relayGot' = Append(relayGot, FirstFrame(p))
                          /\ relayBuffer' = AfterFrame(p)
        /\ ~HasFrame(p) => relayBuffer' = p /\ relayGot' = relayGot
    BY <1>3, <2>1 DEF RelayReads, clientVars
  <2>3. p \o (t \o out) = relayBuffer \o (toRelay \o out)
    <3>1. (p ++ t) ++ out = p ++ (t ++ out)
      BY <1>a, Queues
    <3>2. (relayBuffer ++ toRelay) ++ out = relayBuffer ++ (toRelay ++ out)
      BY <1>a, Queues
    <3>3. QED
      BY <2>1, <3>1, <3>2 DEF ++
  <2>4. /\ Framed(p \o t, clientSent, Len(relayGot))
        /\ wire = "up" => Whole(p \o (t \o out), clientSent, Len(relayGot))
    BY <1>c, <2>1, <2>3
  <2>5. CASE ~HasFrame(p)
    BY <1>c, <2>2, <2>4, <2>5 DEF Up
  <2>6. CASE HasFrame(p)
    <3>1. /\ Len(relayGot) < Len(clientSent)
          /\ FirstFrame(p) = clientSent[Len(relayGot) + 1]
          /\ Framed(AfterFrame(p) \o t, clientSent, Len(relayGot) + 1)
      BY <1>a, <2>4, <2>6, FirstTaken
    <3>2. ASSUME wire = "up"
          PROVE  Whole(AfterFrame(p) \o (t \o out), clientSent,
              Len(relayGot) + 1)
      <4>1. Whole(p \o (t \o out), clientSent, Len(relayGot))
        BY <2>4, <3>2
      <4>2. Framed(p \o (t \o out), clientSent, Len(relayGot))
        BY <4>1, WholeFramed
      <4>3. t \o out \in Seq(Piece)
        BY <1>a, Joined
      <4>4. QED
        BY <1>a, <2>6, <4>1, <4>2, <4>3, FirstTaken
    <3>3. Len(relayGot') = Len(relayGot) + 1
      <4>1. FirstFrame(p) \in Frame
        BY <2>6, FirstTypes
      <4>2. QED
        BY <1>a, <2>2, <2>6, <4>1, AppendProperties
    <3>4. Up'
      BY <1>c, <2>2, <2>6, <3>1, <3>2, <3>3 DEF Up
    <3>5. QED
      BY <2>2, <2>6, <3>1, <3>4
  <2>7. QED
    BY <2>5, <2>6
<1>4. ASSUME WireBreaks PROVE Up'
  <2>1. PICK n \in 0..Len(toRelay) : toRelay' = SubSeq(toRelay, 1, n)
    BY <1>4 DEF WireBreaks
  <2>2. wire' # "up" /\ UNCHANGED <<relayBuffer, relayGot, clientSent, out,
      phase>>
    BY <1>4 DEF WireBreaks, relayVars, clientVars
  <2>3. PICK rest \in Seq(Piece) :
          toRelay' \in Seq(Piece) /\ toRelay' \o rest = toRelay
    BY <1>a, <2>1, Cut
  <2>4. (relayBuffer \o toRelay') \o rest = relayBuffer \o toRelay
    <3>1. (relayBuffer ++ toRelay') ++ rest = relayBuffer ++ (toRelay' ++ rest)
      BY <1>a, <2>3, Queues
    <3>2. QED
      BY <2>3, <3>1 DEF ++
  <2>5. Framed(relayBuffer \o toRelay', clientSent, Len(relayGot))
    <3>1. Framed((relayBuffer \o toRelay') \o rest, clientSent, Len(relayGot))
      BY <1>c, <2>4
    <3>2. relayBuffer \o toRelay' \in Seq(Piece)
      BY <1>a, <2>3, Joined
    <3>3. QED
      BY <1>a, <2>3, <3>1, <3>2, FrontFramed
  <2>6. QED
    BY <1>c, <2>2, <2>5 DEF Up
<1>5. ASSUME SendSome PROVE Up'
  <2>1. PICK n \in 1..Len(out) :
          /\ toRelay' = toRelay \o SubSeq(out, 1, n)
          /\ out' = SubSeq(out, n + 1, Len(out))
    BY <1>5 DEF SendSome
  <2>2. /\ wire = "up" /\ out # <<>>
        /\ UNCHANGED <<relayBuffer, relayGot, clientSent, phase, wire>>
    BY <1>5 DEF SendSome, relayVars
  <2>3. n \in 0..Len(out)
    BY <1>a
  <2>4. PICK s \in Seq(Piece), t \in Seq(Piece) :
          s = SubSeq(out, 1, n) /\ t = out' /\ s \o t = out
    <3>1. PICK q \in Seq(Piece) : q = out
      BY <1>a
    <3>2. /\ SubSeq(q, 1, n) \in Seq(Piece) /\ SubSeq(q, n + 1,
               Len(q)) \in Seq(Piece)
          /\ SubSeq(q, 1, n) \o SubSeq(q, n + 1, Len(q)) = q
      BY <2>3, <3>1, Cut
    <3>3. QED
      BY <2>1, <3>1, <3>2
  <2>5. toRelay' = toRelay \o s /\ toRelay' \in Seq(Piece)
    <3>1. toRelay ++ s \in Seq(Piece)
      BY <1>a, <2>4, Queues
    <3>2. QED
      BY <2>1, <2>4, <3>1 DEF ++
  <2>6. relayBuffer \o (toRelay' \o out') = relayBuffer \o (toRelay \o out)
    <3>1. (toRelay ++ s) ++ t = toRelay ++ (s ++ t)
      BY <1>a, Queues
    <3>2. (toRelay \o s) \o t = toRelay \o (s \o t)
      BY <3>1 DEF ++
    <3>3. QED
      BY <2>4, <2>5, <3>2
  <2>7. Whole(relayBuffer \o (toRelay' \o out'), clientSent, Len(relayGot))
    BY <1>c, <2>2, <2>6
  <2>8. Framed(relayBuffer \o toRelay', clientSent, Len(relayGot))
    <3>1. Framed(relayBuffer \o (toRelay' \o t), clientSent, Len(relayGot))
      BY <2>4, <2>7, WholeFramed
    <3>a. toRelay' \in Seq(Piece)
      BY <2>5
    <3>2. /\ (relayBuffer ++ toRelay') ++ t = relayBuffer ++ (toRelay' ++ t)
          /\ relayBuffer ++ toRelay' \in Seq(Piece)
      BY <1>a, <3>a, Queues
    <3>3. /\ Framed((relayBuffer \o toRelay') \o t, clientSent, Len(relayGot))
          /\ relayBuffer \o toRelay' \in Seq(Piece)
      BY <3>1, <3>2 DEF ++
    <3>4. QED
      BY <1>a, <3>3, FrontFramed
  <2>9. phase # "new"
    BY <1>c, <2>2
  <2>10. QED
    BY <2>2, <2>7, <2>8, <2>9 DEF Up
<1>6. ASSUME SendFails PROVE Up'
  <2>1. /\ wire' # "up" /\ out' = <<>>
        /\ UNCHANGED <<relayBuffer, relayGot, toRelay, clientSent>>
    BY <1>6 DEF SendFails, relayVars, wireVars
  <2>2. QED
    BY <1>c, <2>1 DEF Up
<1>7. QED
  BY <1>1, <1>2, <1>3, <1>4, <1>5, <1>6, UpSteps

(* The inductive invariant.                                                 *)
Inv == TypeOK /\ Down /\ Up

(* It holds at the start.                                                   *)
LEMMA InitInv == Init => Inv
<1> SUFFICES ASSUME Init PROVE Inv
  OBVIOUS
<1>1. /\ buffer = <<>> /\ toClient = <<>> /\ relayOut = <<>> /\ relaySent = <<>>
      /\ relayBuffer = <<>> /\ toRelay = <<>> /\ out = <<>> /\ clientSent = <<>>
      /\ Len(got) = 0 /\ Len(relayGot) = 0
  BY DEF Init
<1>2. <<>> \o <<>> = <<>>
  OBVIOUS
<1>3. Framed(<<>>, <<>>, 0)
  BY NothingSent, WholeFramed
<1>4. Down /\ Up
  BY <1>1, <1>2, <1>3, NothingSent DEF Down, Up
<1>5. QED
  BY <1>4, InitTypes DEF Inv

(* Every step keeps it.                                                     *)
LEMMA StepInv == Inv /\ [Next]_vars => Inv'
BY StepTypes, DownStep, UpStep DEF Inv

(* So it always holds.                                                      *)
LEMMA AlwaysInv == Spec => []Inv
<1>1. QED
  BY InitInv, StepInv, PTL DEF Spec

(* Every variable keeps its type, for every relay and whatever breaks.      *)
THEOREM TypeCorrect == Spec => []TypeOK
<1>1. Inv => TypeOK
  BY DEF Inv
<1>2. QED
  BY <1>1, AlwaysInv, PTL

(* Both directions of a connection are FrameChannels: whatever pieces the   *)
(* connection delivers at a time, wherever a deadline falls and wherever the*)
(* connection breaks, frames are decoded whole, in order, each once         *)
(* (take_buffered_frame(), send_all()).                                     *)
THEOREM FramesArriveWholeHolds == Spec => FramesArriveWhole
<1>1. Init => FromRelay!Init /\ FromClient!Init
  BY DEF Init, FromRelay!Init, FromClient!Init
<1>2. ASSUME Inv, [Next]_vars
      PROVE  [FromRelay!Send \/ FromRelay!Receive]_<<relaySent, got>>
  <2>1. TypeOK /\ Down
    BY <1>2 DEF Inv
  <2>2. CASE UNCHANGED <<relaySent, got>>
    BY <2>2
  <2>3. CASE Taken
    <3>1. UNCHANGED relaySent
      BY <2>3 DEF Taken
    <3>2. FromRelay!Receive
      BY <1>2, <2>1, <2>3, <3>1, DownStep DEF FromRelay!Receive
    <3>3. QED
      BY <3>2
  <2>4. CASE RelaySends
    <3>1. PICK i \in 1..Len(relay) : i = Len(relaySent) + 1
      BY <2>1, <2>4 DEF RelaySends, TypeOK, RelayTypes
    <3>2. /\ relaySent' = Append(relaySent, relay[i]) /\ UNCHANGED got
      BY <2>4, <3>1 DEF RelaySends, clientVars
    <3>3. relaySent \in Seq(Frame) /\ relay[i] \in Frame
      BY <2>1 DEF TypeOK, RelayTypes
    <3>4. FromRelay!Send
      BY <3>2, <3>3, FrameQueued DEF FromRelay!Send
    <3>5. QED
      BY <3>4
  <2>5. CASE RelayWrites \/ WireBreaks \/ ReceiveSome
    BY <2>2, <2>5 DEF RelayWrites, WireBreaks, ReceiveSome, relayVars,
        clientVars
  <2>6. CASE DownIdle \/ DownOver
    BY <2>2, <2>6 DEF DownIdle, DownOver
  <2>7. QED
    BY <1>2, <2>1, <2>3, <2>4, <2>5, <2>6, DownSteps
<1>3. ASSUME Inv, [Next]_vars
      PROVE  [FromClient!Send \/ FromClient!Receive]_<<clientSent, relayGot>>
  <2>1. TypeOK /\ Up
    BY <1>3 DEF Inv
  <2>2. CASE UNCHANGED <<clientSent, relayGot>>
    BY <2>2
  <2>3. CASE Begun
    <3>1. PICK f \in Frame : clientSent' = Append(clientSent, f)
      BY <2>3 DEF Begun, Begin
    <3>2. UNCHANGED relayGot /\ clientSent \in Seq(Frame)
      BY <2>1, <2>3 DEF Begun, TypeOK, ClientTypes
    <3>3. FromClient!Send
      BY <3>1, <3>2, FrameQueued DEF FromClient!Send
    <3>4. QED
      BY <3>3
  <2>4. CASE RelayReads
    <3>1. UNCHANGED clientSent
      BY <2>4 DEF RelayReads, clientVars
    <3>2. \/ relayGot' = relayGot
          \/ /\ Len(relayGot) < Len(clientSent)
             /\ relayGot' = Append(relayGot, clientSent[Len(relayGot) + 1])
      BY <1>3, <2>1, <2>4, UpStep
    <3>3. QED
      BY <3>1, <3>2 DEF FromClient!Receive
  <2>5. CASE UpIdle \/ WireBreaks \/ SendSome \/ SendFails
    BY <2>2, <2>5 DEF UpIdle, WireBreaks, SendSome, SendFails, relayVars,
        clientVars
  <2>6. QED
    BY <1>3, <2>1, <2>3, <2>4, <2>5, UpSteps
<1>4. Spec => FromRelay!Spec
  BY <1>1, <1>2, AlwaysInv, PTL DEF Spec, FromRelay!Spec
<1>5. Spec => FromClient!Spec
  BY <1>1, <1>3, AlwaysInv, PTL DEF Spec, FromClient!Spec
<1>6. QED
  BY <1>4, <1>5 DEF FramesArriveWhole
=============================================================================
