--------------------------- MODULE Session_proofs ---------------------------
(***************************************************************************)
(* What holds of Session for every number of io threads, every size of     *)
(* header, fragment and read buffer, and every number and length of        *)
(* messages.                                                               *)
(***************************************************************************)
EXTENDS Session, SequenceTheorems, FiniteSetTheorems, TLAPS

-----------------------------------------------------------------------------
(* The inductive invariant *)

Count(n) == IF n = 0 THEN 0 ELSE FragmentsCount(n)

FrameSet == [MessageId : Messages, FragmentId : Nat, thisSize : 0..MAX_FRAGMENT_SIZE,
             FragmentsCount : Nat \ {0}]
ByteSet == [frame : DOMAIN sent, at : Nat \ {0}]
Call == [id : Messages, data : Seq(ByteSet)]
Jobs == {Task("process"), Task("disconnect")}
          \cup [type : {"message"}, id : Messages, data : Seq(ByteSet)]

Types ==
  /\ size \in [Messages -> Sizes \cup {0}]
  /\ sent \in Seq(FrameSet)
  /\ wire \in Seq(ByteSet) /\ tmpBuf \in Seq(ByteSet) /\ recvBuffer \in Seq(ByteSet)
  /\ peer \in {"open", "closed", "reset"}
  /\ reading \in BOOLEAN /\ gone \in BOOLEAN
  /\ DOMAIN segments \subseteq Messages
  /\ \A m \in DOMAIN segments : segments[m] = <<>>
  /\ posted \in Seq(Jobs)
  /\ io \in [Threads -> Jobs \cup {Task("idle"), Task("received")}]
  /\ parsed \in 0..Len(sent)
  /\ handled \in Seq(Call)

\* A frame says of its message what the peer knows of it, and a message of one
\* fragment has one frame only.
FramesHonest ==
  /\ \A i \in DOMAIN sent : LET m == sent[i].MessageId IN
       /\ size[m] # 0
       /\ sent[i].thisSize = ThisSize(size[m], sent[i].FragmentId)
       /\ sent[i].FragmentsCount = FragmentsCount(size[m])
       /\ sent[i].FragmentsCount = 1 => sent[i].FragmentId = 0
  /\ \A i, j \in DOMAIN sent :
       sent[i].MessageId = sent[j].MessageId /\ sent[i].FragmentsCount = 1 => i = j

\* The chain: a pending read, its handler, process_data posted, process_data
\* running; no two of them.
InChain(t) == io[t].type \in {"received", "process"}
Chain ==
  /\ reading => \A t \in Threads : ~InChain(t)
  /\ reading => \A i \in DOMAIN posted : posted[i].type # "process"
  /\ \A t \in Threads, i \in DOMAIN posted : ~(InChain(t) /\ posted[i].type = "process")
  /\ \A t, u \in Threads : InChain(t) /\ InChain(u) => t = u
  /\ \A i, j \in DOMAIN posted :
       posted[i].type = "process" /\ posted[j].type = "process" => i = j

\* What was received and not cut off, and what is still under way; End is where
\* a frame ends.
Stream == Unparsed \o wire
End(frames, i) == HeaderSize + frames[i].thisSize

\* The bytes s are the frames after the first p, in full unless the connection
\* broke.  Framed relates neighbours; what is cut off is a whole frame, so two
\* bytes of one frame are related at any distance.
Placed(s, frames, p) ==
  /\ s # <<>> => s[1] = Byte(p + 1, 1)
  /\ \A i \in 1..Len(s) : s[i].at <= End(frames, s[i].frame)
  /\ \A i \in 1..(Len(s) - 1) :
       s[i + 1] = IF s[i].at < End(frames, s[i].frame) THEN Byte(s[i].frame, s[i].at + 1)
                                                       ELSE Byte(s[i].frame + 1, 1)
  /\ \A i, j \in 1..Len(s) :
       (j - i) + s[i].at \in 1..End(frames, s[i].frame)
          => s[j] = Byte(s[i].frame, (j - i) + s[i].at)
Whole(s, frames, p) ==
  /\ \A i \in 1..Len(s) : i + (End(frames, s[i].frame) - s[i].at) <= Len(s)
  /\ IF s = <<>> THEN p = Len(frames)
     ELSE s[Len(s)] = Byte(Len(frames), End(frames, Len(frames)))

InPlace == Placed(Stream, sent, parsed) /\ (peer # "reset" => Whole(Stream, sent, parsed))

\* A read is pending only when no frame can be cut off.
ReadNeeded == reading => ~HasFrame

\* A call of data_handler hands over the body of a frame that was cut off.
HonestIn(call, p, frames, sizes) ==
  \E i \in 1..p :
    /\ frames[i].MessageId = call.id /\ frames[i].FragmentsCount = 1
    /\ call.data = [k \in 1..sizes[call.id] |-> Byte(i, HeaderSize + k)]
Honest(call) == HonestIn(call, parsed, sent, size)
IsCall(job, m) == job.type = "message" /\ job.id = m
CallsHonest ==
  /\ \A i \in DOMAIN posted : posted[i].type = "message" => Honest(posted[i])
  /\ \A t \in Threads : io[t].type = "message" => Honest(io[t])
  /\ \A i \in DOMAIN handled : Honest(handled[i])

\* One call per message, wherever it is.
CalledOnce ==
  \A m \in Messages :
    /\ \A i, j \in DOMAIN posted : IsCall(posted[i], m) /\ IsCall(posted[j], m) => i = j
    /\ \A t, u \in Threads : IsCall(io[t], m) /\ IsCall(io[u], m) => t = u
    /\ \A i, j \in DOMAIN handled : handled[i].id = m /\ handled[j].id = m => i = j
    /\ \A i \in DOMAIN posted, t \in Threads : ~(IsCall(posted[i], m) /\ IsCall(io[t], m))
    /\ \A i \in DOMAIN posted, j \in DOMAIN handled : ~(IsCall(posted[i], m) /\ handled[j].id = m)
    /\ \A t \in Threads, j \in DOMAIN handled : ~(IsCall(io[t], m) /\ handled[j].id = m)

\* The end of the stream is posted last, when everything before it was cut off.
Ending == \E i \in DOMAIN posted : posted[i].type = "disconnect"
Ended ==
  /\ \A i \in DOMAIN posted : posted[i].type = "disconnect" => i = Len(posted)
  /\ gone => posted = <<>>
  /\ gone \/ Ending =>
       /\ ~reading /\ peer # "open" /\ parsed = Len(sent)
       /\ \A t \in Threads : ~InChain(t)
       /\ \A i \in DOMAIN posted : posted[i].type # "process"

IInv == Types /\ FramesHonest /\ Chain /\ InPlace /\ ReadNeeded /\ CallsHonest /\ CalledOnce /\ Ended

-----------------------------------------------------------------------------
(* Lengths and frames *)

LEMMA Fragments ==
  ASSUME NEW total \in Nat \ {0}
  PROVE  /\ FragmentsCount(total) \in Nat \ {0}
         /\ FragmentsCount(total) = 1 <=> total < MAX_FRAGMENT_SIZE
         /\ \A f \in Nat : f < FragmentsCount(total) => f * MAX_FRAGMENT_SIZE <= total
<1> DEFINE M == MAX_FRAGMENT_SIZE
           c == FragmentsCount(total)
<1>1. M \in Nat \ {0}
  BY SessionAssumption
<1>2. /\ c \in Nat
      /\ c * M <= total + M
      /\ total + M < c * M + M
  BY <1>1 DEF FragmentsCount
<1> HIDE DEF c
<1>3. c # 0
  BY <1>1, <1>2
<1>4. ASSUME NEW f \in Nat, f < c PROVE f * M <= total
  <2>1. f * M + M <= c * M
    <3>1. PICK d \in Nat : c = f + 1 + d
      BY <1>2, <1>4
    <3>2. c * M = f * M + M + d * M
      BY <1>1, <3>1
    <3>3. d * M >= 0
      BY <1>1, <3>1
    <3> QED
      BY <1>1, <3>2, <3>3
  <2> QED
    BY <1>1, <1>2, <2>1
<1>5. c = 1 => total < M
  BY <1>1, <1>2
<1>6. total < M => c = 1
  <2>1. c > 1 => M <= total
    BY <1>1, <1>2, <1>4
  <2> QED
    BY <1>1, <1>2, <1>3, <2>1
<1> QED
  BY <1>2, <1>3, <1>4, <1>5, <1>6 DEF c

\* What a fragment carries is within its bounds, also where transmitMessage
\* takes too little off.
LEMMA FrameFits ==
  ASSUME NEW total \in Nat \ {0}, NEW f \in Nat, f < FragmentsCount(total)
  PROVE  /\ ThisSize(total, f) \in 0..MAX_FRAGMENT_SIZE
         /\ FragmentsCount(total) = 1 => f = 0 /\ ThisSize(total, 0) = total
<1> DEFINE M == MAX_FRAGMENT_SIZE
<1>1. M \in Nat \ {0} /\ HeaderSize \in Nat
  BY SessionAssumption
<1>2. f * M <= total
  BY Fragments
<1>3. f * (M - HeaderSize) = f * M - f * HeaderSize /\ f * HeaderSize >= 0
  BY <1>1
<1>4. f * M \in Nat /\ f * HeaderSize \in Nat
  BY <1>1
<1>5. RemainingSize(total, f) \in Nat
  <2>1. CASE Peer = "transmitMessage"
    <3>1. RemainingSize(total, f) = total - f * (M - HeaderSize)
      BY <2>1 DEF RemainingSize
    <3> QED
      BY <1>2, <1>3, <1>4, <3>1
  <2>2. CASE Peer # "transmitMessage"
    <3>1. RemainingSize(total, f) = total - f * (M - 0)
      BY <2>2 DEF RemainingSize
    <3> QED
      BY <1>1, <1>2, <1>4, <3>1
  <2> QED
    BY <2>1, <2>2
<1>6. RemainingSize(total, 0) = total
  BY <1>1 DEF RemainingSize
<1>7. FragmentsCount(total) = 1 => f = 0 /\ total < M
  BY Fragments
<1> QED
  BY <1>1, <1>5, <1>6, <1>7 DEF ThisSize, AtMost

-----------------------------------------------------------------------------
(* The bytes of the stream *)

BytesOf(frames) == [frame : DOMAIN frames, at : Nat \ {0}]

LEMMA FrameEnds ==
  ASSUME NEW frames \in Seq(FrameSet), NEW i \in DOMAIN frames
  PROVE  /\ HeaderSize \in Nat \ {0}
         /\ frames[i].thisSize \in Nat
         /\ End(frames, i) \in Nat \ {0}
<1>1. HeaderSize \in Nat \ {0} /\ MAX_FRAGMENT_SIZE \in Nat
  BY SessionAssumption
<1>2. frames[i] \in FrameSet
  OBVIOUS
<1> QED
  BY <1>1, <1>2 DEF End, FrameSet

\* A frame is written behind what is there.
LEMMA PlacedAppend ==
  ASSUME NEW frames \in Seq(FrameSet), NEW fr \in FrameSet, NEW p \in 0..Len(frames),
         NEW s \in Seq(BytesOf(frames)), Placed(s, frames, p), Whole(s, frames, p),
         NEW z, NEW new, new = Append(frames, fr),
         z \in Seq(BytesOf(new)), Len(z) = Len(s) + HeaderSize + fr.thisSize,
         \A i \in 1..Len(s) : z[i] = s[i],
         \A k \in 1..(HeaderSize + fr.thisSize) : z[Len(s) + k] = Byte(Len(frames) + 1, k)
  PROVE  Placed(z, new, p) /\ Whole(z, new, p)
<1> DEFINE n == Len(frames)
           L == Len(s)
           B == HeaderSize + fr.thisSize
<1>1. n \in Nat /\ L \in Nat /\ DOMAIN frames = 1..n
  OBVIOUS
<1>2. HeaderSize \in Nat \ {0} /\ fr.thisSize \in Nat /\ B \in Nat \ {0}
  BY SessionAssumption DEF FrameSet
<1>3. /\ Len(new) = n + 1
      /\ End(new, n + 1) = B
      /\ \A i \in 1..n : End(new, i) = End(frames, i) /\ End(frames, i) \in Nat \ {0}
  <2>1. /\ Len(new) = n + 1 /\ new[n + 1] = fr
        /\ \A i \in 1..n : new[i] = frames[i]
    BY AppendProperties
  <2> QED
    BY <1>1, <2>1, FrameEnds DEF End
<1>4. \A i \in 1..L : /\ z[i] = s[i] /\ s[i].frame \in 1..n /\ s[i].at \in Nat \ {0}
                      /\ End(new, s[i].frame) = End(frames, s[i].frame)
                      /\ End(frames, s[i].frame) \in Nat \ {0}
                      /\ s[i].at <= End(frames, s[i].frame)
                      /\ i + (End(frames, s[i].frame) - s[i].at) <= L
  <2> TAKE i \in 1..L
  <2>1. s[i] \in BytesOf(frames)
    BY ElementOfSeq
  <2>2. s[i].frame \in 1..n /\ s[i].at \in Nat \ {0}
    BY <1>1, <2>1 DEF BytesOf
  <2>3. s[i].at <= End(frames, s[i].frame)
    BY DEF Placed
  <2>4. i + (End(frames, s[i].frame) - s[i].at) <= L
    BY DEF Whole
  <2> QED
    BY <1>3, <2>2, <2>3, <2>4
<1>5. \A i \in (L + 1)..(L + B) : z[i] = Byte(n + 1, i - L)
  <2> TAKE i \in (L + 1)..(L + B)
  <2>1. i - L \in 1..B /\ L + (i - L) = i
    BY <1>1, <1>2
  <2>2. \A k \in 1..B : z[L + k] = Byte(n + 1, k)
    OBVIOUS
  <2> HIDE DEF n, L, B
  <2>3. z[L + (i - L)] = Byte(n + 1, i - L)
    BY <2>1, <2>2
  <2> QED
    BY <2>1, <2>3
<1>6. Len(z) = L + B /\ z # <<>>
  BY <1>1, <1>2
<1>7. L # 0 => s # <<>> /\ z[L] = Byte(n, End(frames, n)) /\ n \in 1..n
  <2> HAVE L # 0
  <2>1. s # <<>>
    BY EmptySeq
  <2>2. s[L] = Byte(n, End(frames, n))
    BY <2>1 DEF Whole
  <2>3. L \in 1..L
    BY <1>1
  <2>4. z[L] = s[L] /\ s[L].frame \in 1..n
    BY <1>4, <2>3
  <2>5. s[L].frame = n
    BY <2>2 DEF Byte
  <2> QED
    BY <2>1, <2>2, <2>4, <2>5
<1>8. L = 0 => p = n
  BY DEF Whole
<1> HIDE DEF n, L, B
<1>9. z[1] = Byte(p + 1, 1)
  <2>1. CASE L = 0
    BY <1>1, <1>2, <1>5, <1>8, <2>1
  <2>2. CASE L # 0
    BY <1>1, <1>4, <1>7, <2>2 DEF Placed
  <2> QED
    BY <2>1, <2>2
<1>a. \A i \in (L + 1)..(L + B) : z[i].frame = n + 1 /\ z[i].at = i - L
  <2> TAKE i \in (L + 1)..(L + B)
  <2>1. z[i] = Byte(n + 1, i - L)
    BY <1>5
  <2> QED
    BY <2>1 DEF Byte
<1>10. \A i \in 1..Len(z) : z[i].at <= End(new, z[i].frame)
  <2> TAKE i \in 1..Len(z)
  <2>2. i \in 1..L \/ i \in (L + 1)..(L + B)
    BY <1>1, <1>2, <1>6
  <2>3. CASE i \in 1..L
    BY <1>4, <2>3
  <2>4. CASE i \in (L + 1)..(L + B)
    BY <1>1, <1>2, <1>3, <1>a, <2>4
  <2> QED
    BY <2>2, <2>3, <2>4
<1>11. ASSUME NEW i \in 1..(Len(z) - 1)
       PROVE  z[i + 1] = IF z[i].at < End(new, z[i].frame) THEN Byte(z[i].frame, z[i].at + 1)
                                                           ELSE Byte(z[i].frame + 1, 1)
  <2>1. CASE i < L
    <3>1. i \in 1..L /\ i + 1 \in 1..L /\ i \in 1..(Len(s) - 1)
      BY <1>1, <2>1 DEF L
    <3>2. s[i + 1] = IF s[i].at < End(frames, s[i].frame) THEN Byte(s[i].frame, s[i].at + 1)
                                                          ELSE Byte(s[i].frame + 1, 1)
      BY <3>1 DEF Placed
    <3> QED
      BY <1>4, <3>1, <3>2
  <2>2. CASE i = L
    <3>1. z[i] = Byte(n, End(frames, n)) /\ End(new, n) = End(frames, n)
      BY <1>1, <1>3, <1>7, <2>2
    <3>2. z[i + 1] = Byte(n + 1, 1)
      BY <1>1, <1>2, <1>5, <2>2
    <3> QED
      BY <1>1, <1>3, <1>7, <2>2, <3>1, <3>2 DEF Byte
  <2>3. CASE i > L
    <3>1. i \in (L + 1)..(L + B) /\ i + 1 \in (L + 1)..(L + B)
      BY <1>1, <1>2, <1>6, <2>3
    <3>2. z[i] = Byte(n + 1, i - L) /\ z[i + 1] = Byte(n + 1, (i + 1) - L)
      BY <1>5, <3>1
    <3>3. i - L < B /\ (i + 1) - L = (i - L) + 1
      BY <1>1, <1>2, <3>1
    <3> QED
      BY <1>3, <3>2, <3>3 DEF Byte
  <2> QED
    BY <1>1, <2>1, <2>2, <2>3
<1>12. ASSUME NEW i \in 1..Len(z), NEW j \in 1..Len(z),
              (j - i) + z[i].at \in 1..End(new, z[i].frame)
       PROVE  z[j] = Byte(z[i].frame, (j - i) + z[i].at)
  <2>1. CASE i <= L
    <3>1. i \in 1..L
      BY <1>1, <2>1
    <3>2. (j - i) + s[i].at \in 1..End(frames, s[i].frame)
      BY <1>4, <1>12, <3>1
    <3>3. j \in 1..L
      <4>1. PICK a, e : a = s[i].at /\ e = End(frames, s[i].frame)
        OBVIOUS
      <4>2. a \in Nat /\ e \in Nat /\ i + (e - a) <= L
        BY <1>4, <3>1, <4>1
      <4>3. (j - i) + a <= e
        BY <3>2, <4>1, <4>2
      <4>4. L \in Nat /\ j \in Nat \ {0} /\ i \in Nat
        BY <1>1, <1>2, <1>6
      <4>5. j <= L
        BY <4>2, <4>3, <4>4
      <4> QED
        BY <4>4, <4>5
    <3>4. s[j] = Byte(s[i].frame, (j - i) + s[i].at)
      BY <3>1, <3>2, <3>3 DEF Placed, L
    <3> QED
      BY <1>4, <3>1, <3>3, <3>4
  <2>2. CASE i > L
    <3>1. z[i] = Byte(n + 1, i - L)
      BY <1>1, <1>2, <1>5, <1>6, <2>2
    <3>2. j > L /\ (j - i) + (i - L) = j - L
      BY <1>1, <1>2, <1>6, <1>12, <3>1 DEF Byte
    <3>3. z[j] = Byte(n + 1, j - L)
      BY <1>1, <1>2, <1>5, <1>6, <3>2
    <3> QED
      BY <3>1, <3>2, <3>3 DEF Byte
  <2> QED
    BY <1>1, <2>1, <2>2
<1>13. Placed(z, new, p)
  BY <1>9, <1>10, <1>11, <1>12 DEF Placed
<1>14. \A i \in 1..Len(z) : i + (End(new, z[i].frame) - z[i].at) <= Len(z)
  <2>1. \A i \in 1..L : i + (End(new, z[i].frame) - z[i].at) <= Len(z)
    <3> TAKE i \in 1..L
    <3>1. i + (End(new, z[i].frame) - z[i].at) <= L
      BY <1>4
    <3>2. End(new, z[i].frame) \in Nat /\ z[i].at \in Nat
      BY <1>4
    <3> QED
      BY <1>1, <1>2, <1>6, <3>1, <3>2
  <2>2. \A i \in (L + 1)..(L + B) : i + (End(new, z[i].frame) - z[i].at) <= Len(z)
    <3> TAKE i \in (L + 1)..(L + B)
    <3> QED
      BY <1>1, <1>2, <1>3, <1>6, <1>a
  <2> QED
    BY <1>1, <1>2, <1>6, <2>1, <2>2
<1>15. z[Len(z)] = Byte(n + 1, B)
  BY <1>1, <1>2, <1>5, <1>6
<1> QED
  BY <1>3, <1>6, <1>13, <1>14, <1>15 DEF Whole

\* The first frame is there from its first byte on, as far as anything is there.
LEMMA FirstFrame ==
  ASSUME NEW frames \in Seq(FrameSet), NEW p \in Nat, NEW s \in Seq(BytesOf(frames)),
         s # <<>>, Placed(s, frames, p)
  PROVE  /\ p + 1 \in DOMAIN frames
         /\ End(frames, p + 1) \in Nat \ {0}
         /\ \A j \in 1..Len(s) : j <= End(frames, p + 1) => s[j] = Byte(p + 1, j)
         /\ Whole(s, frames, p) => End(frames, p + 1) <= Len(s)
<1>1. Len(s) \in Nat \ {0} /\ s[1] = Byte(p + 1, 1) /\ s[1] \in BytesOf(frames)
  BY EmptySeq, ElementOfSeq DEF Placed
<1>2. p + 1 \in DOMAIN frames /\ s[1].frame = p + 1 /\ s[1].at = 1
  BY <1>1 DEF BytesOf, Byte
<1>3. End(frames, p + 1) \in Nat \ {0}
  BY <1>2, FrameEnds
<1>4. ASSUME NEW j \in 1..Len(s), j <= End(frames, p + 1) PROVE s[j] = Byte(p + 1, j)
  <2>1. (j - 1) + s[1].at = j
    BY <1>1, <1>2
  <2>2. (j - 1) + s[1].at \in 1..End(frames, s[1].frame)
    BY <1>1, <1>2, <1>3, <1>4, <2>1
  <2> QED
    BY <1>1, <1>2, <2>1, <2>2 DEF Placed
<1>5. Whole(s, frames, p) => End(frames, p + 1) <= Len(s)
  BY <1>1, <1>2, <1>3 DEF Whole
<1> QED
  BY <1>2, <1>3, <1>4, <1>5

\* The first frame is cut off.
LEMMA PlacedDrop ==
  ASSUME NEW frames \in Seq(FrameSet), NEW p \in Nat, NEW s \in Seq(BytesOf(frames)),
         s # <<>>, Placed(s, frames, p), End(frames, p + 1) <= Len(s),
         NEW z \in Seq(BytesOf(frames)), Len(z) = Len(s) - End(frames, p + 1),
         \A i \in 1..Len(z) : z[i] = s[i + End(frames, p + 1)]
  PROVE  /\ Placed(z, frames, p + 1)
         /\ Whole(s, frames, p) => Whole(z, frames, p + 1)
<1> DEFINE E == End(frames, p + 1)
<1>1. /\ Len(s) \in Nat /\ Len(z) \in Nat /\ E \in Nat \ {0} /\ E <= Len(s)
      /\ s[E] = Byte(p + 1, E)
      /\ Len(z) = Len(s) - E
  BY FirstFrame
<1>2. \A i \in 1..Len(z) : i + E \in 1..Len(s) /\ z[i] = s[i + E]
  BY <1>1
<1>3. \A i \in 1..Len(z) : /\ z[i].at \in Nat \ {0} /\ z[i].frame \in DOMAIN frames
                           /\ End(frames, z[i].frame) \in Nat
  <2> TAKE i \in 1..Len(z)
  <2>1. z[i] \in BytesOf(frames)
    BY ElementOfSeq
  <2> QED
    BY <2>1, FrameEnds DEF BytesOf
<1> HIDE DEF E
<1>4. z # <<>> => z[1] = Byte(p + 2, 1)
  <2> SUFFICES ASSUME z # <<>> PROVE z[1] = Byte(p + 2, 1)
    OBVIOUS
  <2>1. 1 \in 1..Len(z) /\ z[1] = s[E + 1] /\ E \in 1..(Len(s) - 1)
    BY <1>1, <1>2, EmptySeq
  <2>2. s[E + 1] = Byte((p + 1) + 1, 1)
    <3>1. s[E].frame = p + 1 /\ s[E].at = E
      BY <1>1 DEF Byte
    <3>2. s[E + 1] = IF s[E].at < End(frames, s[E].frame) THEN Byte(s[E].frame, s[E].at + 1)
                                                          ELSE Byte(s[E].frame + 1, 1)
      BY <2>1 DEF Placed
    <3> QED
      BY <1>1, <3>1, <3>2 DEF E
  <2>3. (p + 1) + 1 = p + 2
    OBVIOUS
  <2> QED
    BY <2>1, <2>2, <2>3
<1>5. \A i \in 1..Len(z) : z[i].at <= End(frames, z[i].frame)
  BY <1>2 DEF Placed
<1>6. ASSUME NEW i \in 1..(Len(z) - 1)
      PROVE  z[i + 1] = IF z[i].at < End(frames, z[i].frame) THEN Byte(z[i].frame, z[i].at + 1)
                                                             ELSE Byte(z[i].frame + 1, 1)
  <2>1. /\ i \in 1..Len(z) /\ i + 1 \in 1..Len(z) /\ i + E \in 1..(Len(s) - 1)
        /\ (i + 1) + E = (i + E) + 1
    BY <1>1
  <2>2. z[i] = s[i + E] /\ z[i + 1] = s[(i + E) + 1]
    BY <1>2, <2>1
  <2> QED
    BY <2>1, <2>2 DEF Placed
<1>7. ASSUME NEW i \in 1..Len(z), NEW j \in 1..Len(z),
             (j - i) + z[i].at \in 1..End(frames, z[i].frame)
      PROVE  z[j] = Byte(z[i].frame, (j - i) + z[i].at)
  <2>1. (j + E) - (i + E) = j - i
    BY <1>1
  <2>2. /\ z[i] = s[i + E] /\ z[j] = s[j + E] /\ i + E \in 1..Len(s) /\ j + E \in 1..Len(s)
    BY <1>2
  <2>3. ((j + E) - (i + E)) + s[i + E].at \in 1..End(frames, s[i + E].frame)
    BY <1>7, <2>1, <2>2
  <2>4. s[j + E] = Byte(s[i + E].frame, ((j + E) - (i + E)) + s[i + E].at)
    BY <2>2, <2>3 DEF Placed
  <2> QED
    BY <2>1, <2>2, <2>4
<1>8. Placed(z, frames, p + 1)
  BY <1>4, <1>5, <1>6, <1>7 DEF Placed
<1>9. ASSUME Whole(s, frames, p) PROVE Whole(z, frames, p + 1)
  <2>1. ASSUME NEW i \in 1..Len(z) PROVE i + (End(frames, z[i].frame) - z[i].at) <= Len(z)
    <3>1. (i + E) + (End(frames, z[i].frame) - z[i].at) <= Len(s)
      BY <1>2, <1>9 DEF Whole
    <3> QED
      BY <1>1, <1>3, <3>1
  <2>2. s[Len(s)] = Byte(Len(frames), End(frames, Len(frames)))
    BY <1>9 DEF Whole
  <2>3. CASE z = <<>>
    BY <1>1, <2>2, <2>1, <2>3 DEF Whole, Byte
  <2>4. CASE z # <<>>
    <3>1. Len(z) \in 1..Len(z)
      BY <1>1, <2>4, EmptySeq
    <3>2. z[Len(z)] = s[Len(z) + E] /\ Len(z) + E = Len(s)
      BY <1>1, <1>2, <3>1
    <3> QED
      BY <2>1, <2>2, <2>4, <3>2 DEF Whole
  <2> QED
    BY <2>3, <2>4
<1> QED
  BY <1>8, <1>9

-----------------------------------------------------------------------------
(* The state *)

StreamFacts ==
  /\ Unparsed \in Seq(ByteSet) /\ Len(Unparsed) \in Nat
  /\ wire \in Seq(ByteSet) /\ Len(wire) \in Nat
  /\ Stream \in Seq(ByteSet) /\ Stream \in Seq(BytesOf(sent))
  /\ Len(Stream) = Len(Unparsed) + Len(wire)
  /\ \A i \in 1..Len(Unparsed) : Stream[i] = Unparsed[i]
  /\ \A k \in 1..Len(wire) : Stream[Len(Unparsed) + k] = wire[k]
  /\ Len(recvBuffer) \in Nat /\ Len(Unparsed) >= Len(recvBuffer)
  /\ \A i \in 1..Len(recvBuffer) : Stream[i] = recvBuffer[i]

LEMMA StreamType == Types => StreamFacts
<1> SUFFICES ASSUME Types PROVE StreamFacts
  OBVIOUS
<1>1. <<>> \in Seq(ByteSet) /\ Len(<<>>) = 0
  BY EmptySeq
<1>2. /\ wire \in Seq(ByteSet) /\ tmpBuf \in Seq(ByteSet) /\ recvBuffer \in Seq(ByteSet)
      /\ Len(wire) \in Nat /\ Len(tmpBuf) \in Nat /\ Len(recvBuffer) \in Nat
  BY LenProperties DEF Types
<1>3. /\ Unparsed \in Seq(ByteSet) /\ Len(Unparsed) >= Len(recvBuffer) /\ Len(Unparsed) \in Nat
      /\ \A i \in 1..Len(recvBuffer) : Unparsed[i] = recvBuffer[i]
  <2>1. CASE Executing("received") = {}
    BY <1>1, <1>2, <2>1, ConcatProperties DEF Unparsed
  <2>2. CASE Executing("received") # {}
    BY <1>2, <2>2, ConcatProperties DEF Unparsed
  <2> QED
    BY <2>1, <2>2
<1>4. /\ Stream \in Seq(ByteSet) /\ Len(Stream) = Len(Unparsed) + Len(wire)
      /\ \A i \in 1..(Len(Unparsed) + Len(wire)) :
           Stream[i] = IF i <= Len(Unparsed) THEN Unparsed[i] ELSE wire[i - Len(Unparsed)]
  BY <1>2, <1>3, ConcatProperties DEF Stream
<1>5. ASSUME NEW i \in 1..Len(Unparsed) PROVE Stream[i] = Unparsed[i]
  <2>1. i \in 1..(Len(Unparsed) + Len(wire)) /\ i <= Len(Unparsed)
    BY <1>2, <1>3
  <2> QED
    BY <1>4, <2>1
<1>6. ASSUME NEW k \in 1..Len(wire) PROVE Stream[Len(Unparsed) + k] = wire[k]
  <2>1. /\ Len(Unparsed) + k \in 1..(Len(Unparsed) + Len(wire))
        /\ ~(Len(Unparsed) + k <= Len(Unparsed)) /\ (Len(Unparsed) + k) - Len(Unparsed) = k
    BY <1>2, <1>3
  <2> QED
    BY <1>4, <2>1
<1>7. \A i \in 1..Len(recvBuffer) : Stream[i] = recvBuffer[i]
  BY <1>2, <1>3, <1>5
<1> QED
  BY <1>2, <1>3, <1>4, <1>5, <1>6, <1>7 DEF ByteSet, BytesOf, StreamFacts

LEMMA StreamTypeNext == Types' => StreamFacts'
  BY StreamType, PTL

LEMMA FrameFacts ==
  ASSUME Types, FramesHonest, NEW i \in DOMAIN sent
  PROVE  /\ i \in 1..Len(sent) /\ sent[i] \in FrameSet
         /\ sent[i].MessageId \in Messages /\ size[sent[i].MessageId] # 0
         /\ sent[i].thisSize = ThisSize(size[sent[i].MessageId], sent[i].FragmentId)
         /\ sent[i].FragmentsCount = FragmentsCount(size[sent[i].MessageId])
         /\ sent[i].FragmentsCount = 1 => sent[i].FragmentId = 0
<1>1. sent \in Seq(FrameSet) /\ sent[i] \in FrameSet /\ i \in 1..Len(sent)
  BY DEF Types
<1>2. sent[i].MessageId \in Messages
  BY <1>1 DEF FrameSet
<1> QED
  BY <1>1, <1>2 DEF FramesHonest

\* What process_data finds at the beginning of recvBuffer.
LEMMA HeaderFound ==
  ASSUME Types, InPlace, Len(recvBuffer) >= HeaderSize
  PROVE  /\ Head(recvBuffer) = Byte(parsed + 1, 1)
         /\ parsed + 1 \in DOMAIN sent
         /\ Header = sent[parsed + 1]
         /\ HasFrame <=> Len(recvBuffer) >= End(sent, parsed + 1)
<1>1. HeaderSize \in Nat \ {0}
  BY SessionAssumption
<1>2. /\ recvBuffer \in Seq(ByteSet) /\ Len(recvBuffer) \in Nat \ {0}
      /\ Head(recvBuffer) = recvBuffer[1]
  BY <1>1 DEF Types
<1>3. Stream \in Seq(BytesOf(sent)) /\ Stream[1] = recvBuffer[1] /\ Stream # <<>>
  BY <1>2, StreamType, EmptySeq DEF StreamFacts
<1>4. Placed(Stream, sent, parsed) /\ sent \in Seq(FrameSet) /\ parsed \in Nat
  BY DEF InPlace, Types
<1>5. parsed + 1 \in DOMAIN sent
  BY <1>3, <1>4, FirstFrame
<1>6. Stream[1] = Byte(parsed + 1, 1)
  BY <1>3, <1>4 DEF Placed
<1>7. Header = sent[parsed + 1]
  BY <1>2, <1>3, <1>6 DEF Header, Byte
<1> QED
  BY <1>2, <1>3, <1>5, <1>6, <1>7, FrameEnds DEF HasFrame, End

\* Frames written stay what they are, and so do the calls that come of them.
LEMMA HonestKept ==
  ASSUME Types, parsed' \in Nat, parsed <= parsed', NEW call, HonestIn(call, parsed, sent, size),
         \A i \in 1..parsed : sent'[i] = sent[i] /\ size'[sent[i].MessageId] = size[sent[i].MessageId]
  PROVE  HonestIn(call, parsed', sent', size')
<1>1. PICK i \in 1..parsed :
        /\ sent[i].MessageId = call.id /\ sent[i].FragmentsCount = 1
        /\ call.data = [k \in 1..size[call.id] |-> Byte(i, HeaderSize + k)]
  BY DEF HonestIn
<1>2. i \in 1..parsed' /\ sent'[i] = sent[i] /\ size'[call.id] = size[call.id]
  <2>1. parsed \in Nat /\ i \in 1..parsed
    BY DEF Types
  <2> QED
    BY <1>1, <2>1
<1> QED
  BY <1>1, <1>2 DEF HonestIn

\* The peer writes a frame: the first of a message, or one that is not the only one.
LEMMA WriteStep ==
  ASSUME IInv, NEW m \in Messages, NEW total \in Sizes, NEW f \in Nat,
         f < FragmentsCount(total), peer = "open",
         size' = [size EXCEPT ![m] = total], size[m] \in {0, total},
         size[m] = 0 \/ FragmentsCount(total) = 1 => \A i \in DOMAIN sent : sent[i].MessageId # m,
         Write(Frame(m, total, f)), UNCHANGED peer, Unchanged
  PROVE  IInv'
<1> DEFINE n == Len(sent)
           fr == Frame(m, total, f)
<1>1. n \in Nat /\ DOMAIN sent = 1..n /\ total \in Nat \ {0} /\ sent \in Seq(FrameSet)
  BY SessionAssumption DEF IInv, Types
<1>2. /\ fr \in FrameSet /\ fr.MessageId = m /\ fr.FragmentId = f
      /\ fr.thisSize = ThisSize(total, f) /\ fr.FragmentsCount = FragmentsCount(total)
      /\ fr.thisSize \in Nat
      /\ FragmentsCount(total) = 1 => f = 0
  BY <1>1, Fragments, FrameFits, SessionAssumption DEF Frame, FrameSet
<1>3. /\ sent' = Append(sent, fr) /\ sent' \in Seq(FrameSet) /\ Len(sent') = n + 1
      /\ sent'[n + 1] = fr /\ DOMAIN sent' = 1..(n + 1)
      /\ \A i \in 1..n : sent'[i] = sent[i]
  BY <1>1, <1>2, AppendProperties DEF Write
<1> HIDE DEF n, fr
<1>4. ByteSet \subseteq ByteSet' /\ Call \subseteq Call' /\ Jobs \subseteq Jobs'
  <2>1. ByteSet \subseteq ByteSet'
    BY <1>1, <1>3 DEF ByteSet
  <2>2. Seq(ByteSet) \subseteq Seq(ByteSet')
    BY <2>1, SeqMonotonic
  <2> QED
    BY <2>1, <2>2 DEF Call, Jobs
<1>5. /\ HeaderSize \in Nat \ {0} /\ HeaderSize + fr.thisSize \in Nat
      /\ Bytes(n + 1, fr) \in Seq(ByteSet') /\ Len(Bytes(n + 1, fr)) = HeaderSize + fr.thisSize
      /\ \A k \in 1..(HeaderSize + fr.thisSize) : Bytes(n + 1, fr)[k] = Byte(n + 1, k)
  <2>1. HeaderSize \in Nat \ {0} /\ HeaderSize + fr.thisSize \in Nat
    BY <1>2, SessionAssumption
  <2>2. \A k \in 1..(HeaderSize + fr.thisSize) : Byte(n + 1, k) \in ByteSet'
    BY <1>1, <1>3, <2>1 DEF Byte, ByteSet
  <2> QED
    BY <2>1, <2>2 DEF Bytes
<1>6. /\ wire \in Seq(ByteSet') /\ tmpBuf \in Seq(ByteSet') /\ recvBuffer \in Seq(ByteSet')
      /\ posted \in Seq(Jobs') /\ handled \in Seq(Call')
  BY <1>4, SeqMonotonic DEF IInv, Types
<1>7. wire' = wire \o Bytes(n + 1, fr) /\ wire' \in Seq(ByteSet')
  BY <1>5, <1>6, ConcatProperties DEF Write, n, fr
<1>8. Types'
  BY <1>1, <1>3, <1>4, <1>6, <1>7 DEF IInv, Types, Unchanged
<1>9. FramesHonest'
  <2>1. \A i \in 1..n : sent[i].MessageId \in Messages /\ size[sent[i].MessageId] # 0
    BY <1>1, FrameFacts DEF IInv
  <2>2. \A i \in 1..n : size'[sent[i].MessageId] = size[sent[i].MessageId]
    BY <2>1 DEF IInv, Types
  <2>3. size'[m] = total /\ total # 0
    BY <1>1 DEF IInv, Types
  <2>4. \A i \in 1..(n + 1) : i \in 1..n \/ i = n + 1
    BY <1>1
  <2>5. ASSUME NEW i \in 1..(n + 1)
        PROVE  /\ size'[sent'[i].MessageId] # 0
               /\ sent'[i].thisSize = ThisSize(size'[sent'[i].MessageId], sent'[i].FragmentId)
               /\ sent'[i].FragmentsCount = FragmentsCount(size'[sent'[i].MessageId])
               /\ sent'[i].FragmentsCount = 1 => sent'[i].FragmentId = 0
    <3>1. CASE i \in 1..n
      BY <1>1, <1>3, <2>2, <3>1 DEF IInv, FramesHonest
    <3>2. CASE i = n + 1
      BY <1>2, <1>3, <2>3, <3>2
    <3> QED
      BY <2>4, <3>1, <3>2
  <2>6. ASSUME NEW i \in 1..(n + 1), NEW j \in 1..(n + 1),
               sent'[i].MessageId = sent'[j].MessageId, sent'[i].FragmentsCount = 1
        PROVE  i = j
    <3>1. sent'[j].FragmentsCount = 1
      BY <2>5, <2>6
    <3>2. CASE i \in 1..n /\ j \in 1..n
      BY <1>1, <1>3, <2>6, <3>2 DEF IInv, FramesHonest
    <3>3. CASE i = n + 1
      BY <1>1, <1>2, <1>3, <2>4, <2>6, <3>3
    <3>4. CASE j = n + 1
      BY <1>1, <1>2, <1>3, <2>4, <2>6, <3>1, <3>4
    <3> QED
      BY <2>4, <3>2, <3>3, <3>4
  <2> QED
    BY <1>3, <2>5, <2>6 DEF FramesHonest
<1>10. Chain' /\ CalledOnce'
  BY DEF IInv, Chain, CalledOnce, InChain, IsCall, Unchanged
<1>11. InPlace'
  <2>1. Unparsed' = Unparsed
    BY DEF Unparsed, Executing, Unchanged
  <2>2. StreamFacts /\ StreamFacts'
    BY <1>8, StreamType, StreamTypeNext DEF IInv
  <2>3. /\ Len(wire') = Len(wire) + HeaderSize + fr.thisSize
        /\ \A k \in 1..Len(wire) : k \in 1..Len(wire') /\ wire'[k] = wire[k]
        /\ \A k \in 1..(HeaderSize + fr.thisSize) :
             Len(wire) + k \in 1..Len(wire') /\ wire'[Len(wire) + k] = Byte(n + 1, k)
    <3> DEFINE b == Bytes(n + 1, fr)
    <3>1. /\ Len(wire') = Len(wire) + Len(b) /\ Len(wire) \in Nat
          /\ \A k \in 1..(Len(wire) + Len(b)) :
               wire'[k] = IF k <= Len(wire) THEN wire[k] ELSE b[k - Len(wire)]
      BY <1>5, <1>6, <1>7, ConcatProperties
    <3> HIDE DEF b
    <3>2. Len(b) = HeaderSize + fr.thisSize /\ Len(b) \in Nat /\ HeaderSize \in Nat /\ fr.thisSize \in Nat
      BY <1>2, <1>5 DEF b
    <3>3. ASSUME NEW k \in 1..Len(wire) PROVE k \in 1..Len(wire') /\ wire'[k] = wire[k]
      <4>1. k \in 1..(Len(wire) + Len(b)) /\ k <= Len(wire)
        BY <3>1, <3>2
      <4> QED
        BY <3>1, <4>1
    <3>4. ASSUME NEW k \in 1..(HeaderSize + fr.thisSize)
          PROVE  Len(wire) + k \in 1..Len(wire') /\ wire'[Len(wire) + k] = Byte(n + 1, k)
      <4>1. /\ Len(wire) + k \in 1..(Len(wire) + Len(b)) /\ ~(Len(wire) + k <= Len(wire))
            /\ (Len(wire) + k) - Len(wire) = k
        BY <3>1, <3>2
      <4> QED
        BY <1>5, <3>1, <4>1 DEF b
    <3> QED
      BY <3>1, <3>2, <3>3, <3>4
  <2>4. /\ Len(Unparsed) \in Nat /\ Len(wire) \in Nat /\ Len(Stream) = Len(Unparsed) + Len(wire)
        /\ Len(Stream') = Len(Unparsed) + Len(wire')
        /\ Len(Stream') = Len(Stream) + HeaderSize + fr.thisSize
    <3>1. /\ Len(Unparsed) \in Nat /\ Len(wire) \in Nat /\ Len(Stream) = Len(Unparsed) + Len(wire)
          /\ Len(Stream') = Len(Unparsed) + Len(wire')
      BY <2>1, <2>2 DEF StreamFacts
    <3> QED
      BY <1>2, <1>5, <2>3, <3>1
  <2>5. ASSUME NEW i \in 1..Len(Stream) PROVE Stream'[i] = Stream[i]
    <3>1. CASE i \in 1..Len(Unparsed)
      BY <2>1, <2>2, <3>1 DEF StreamFacts
    <3>2. CASE i \notin 1..Len(Unparsed)
      <4>1. PICK k \in 1..Len(wire) : i = Len(Unparsed) + k
        <5>1. i - Len(Unparsed) \in 1..Len(wire) /\ i = Len(Unparsed) + (i - Len(Unparsed))
          BY <2>4, <3>2
        <5> QED
          BY <5>1
      <4> QED
        BY <2>1, <2>2, <2>3, <4>1 DEF StreamFacts
    <3> QED
      BY <3>1, <3>2
  <2>8. ASSUME NEW k \in 1..(HeaderSize + fr.thisSize)
        PROVE  Stream'[Len(Stream) + k] = Byte(n + 1, k)
    <3>1. Len(Stream) + k = Len(Unparsed) + (Len(wire) + k)
      BY <2>4
    <3> QED
      BY <2>1, <2>2, <2>3, <3>1 DEF StreamFacts
  <2>6. Placed(Stream', sent', parsed) /\ Whole(Stream', sent', parsed)
    <3>1. Placed(Stream, sent, parsed) /\ Whole(Stream, sent, parsed) /\ parsed \in 0..Len(sent)
      BY DEF IInv, InPlace, Types
    <3>2. Stream \in Seq(BytesOf(sent)) /\ Stream' \in Seq(BytesOf(sent'))
      BY <2>2 DEF StreamFacts
    <3> QED
      BY <1>1, <1>2, <1>3, <2>4, <2>5, <2>8, <3>1, <3>2, PlacedAppend DEF n
  <2>7. parsed' = parsed
    BY DEF Unchanged
  <2> QED
    BY <2>6, <2>7 DEF InPlace
<1>12. ReadNeeded'
  <2>1. Len(recvBuffer) >= HeaderSize => Head(recvBuffer).frame \in DOMAIN sent
    BY HeaderFound DEF IInv, Byte
  <2>2. Len(recvBuffer) >= HeaderSize => Header' = Header
    BY <1>1, <1>3, <2>1 DEF Header, Unchanged
  <2> QED
    BY <2>2 DEF IInv, ReadNeeded, HasFrame, Unchanged
<1>13. CallsHonest'
  <2>1. \A i \in 1..parsed : sent'[i] = sent[i] /\ size'[sent[i].MessageId] = size[sent[i].MessageId]
    <3> TAKE i \in 1..parsed
    <3>1. i \in 1..n
      BY <1>1 DEF IInv, Types, n
    <3>2. sent'[i] = sent[i] /\ sent[i].MessageId \in Messages /\ size[sent[i].MessageId] # 0
      BY <1>1, <1>3, <3>1, FrameFacts DEF IInv
    <3> QED
      BY <3>2 DEF IInv, Types
  <2>2. parsed' = parsed /\ parsed \in Nat /\ io' = io /\ posted' = posted /\ handled' = handled
    BY <1>1 DEF Unchanged, IInv, Types
  <2>3. \A call : HonestIn(call, parsed, sent, size) => HonestIn(call, parsed', sent', size')
    <3> SUFFICES ASSUME NEW call, HonestIn(call, parsed, sent, size)
                 PROVE  HonestIn(call, parsed', sent', size')
      OBVIOUS
    <3>1. Types /\ parsed' \in Nat /\ parsed <= parsed'
      BY <2>2 DEF IInv
    <3> QED
      BY <2>1, <3>1, HonestKept
  <2> QED
    BY <2>2, <2>3 DEF CallsHonest, IInv, Honest
<1>14. Ended'
  BY DEF IInv, Ended, Ending, InChain, Unchanged
<1> QED
  BY <1>8, <1>9, <1>10, <1>11, <1>12, <1>13, <1>14 DEF IInv

-----------------------------------------------------------------------------
(* What the steps of the io threads have in common *)

LEMMA Posting ==
  ASSUME Types, NEW job, job \in Jobs', Jobs' = Jobs, Post(job)
  PROVE  /\ posted' \in Seq(Jobs) /\ Len(posted) \in Nat /\ Len(posted') = Len(posted) + 1
         /\ DOMAIN posted = 1..Len(posted) /\ DOMAIN posted' = 1..(Len(posted) + 1)
         /\ posted'[Len(posted) + 1] = job
         /\ \A i \in DOMAIN posted : posted'[i] = posted[i]
         /\ \A i \in DOMAIN posted' : i \in DOMAIN posted \/ i = Len(posted) + 1
<1>1. posted \in Seq(Jobs) /\ job \in Jobs
  BY DEF Types
<1>2. /\ Append(posted, job) \in Seq(Jobs)
      /\ Len(Append(posted, job)) = Len(posted) + 1
      /\ \A i \in 1..Len(posted) : Append(posted, job)[i] = posted[i]
      /\ Append(posted, job)[Len(posted) + 1] = job
  BY <1>1, AppendProperties
<1>3. Len(posted) \in Nat /\ DOMAIN posted = 1..Len(posted)
  BY <1>1
<1> QED
  BY <1>2, <1>3 DEF Post

\* While no frame is written, the sets of bytes, jobs and calls stay.
LEMMA SameSets == ASSUME UNCHANGED sent PROVE ByteSet' = ByteSet /\ Jobs' = Jobs /\ Call' = Call
  BY DEF ByteSet, Jobs, Call

LEMMA Kinds ==
  /\ Task("idle").type = "idle" /\ Task("received").type = "received"
  /\ Task("process").type = "process" /\ Task("disconnect").type = "disconnect"
  /\ Task("process") \in Jobs /\ Task("disconnect") \in Jobs
  BY DEF Task, Jobs

LEMMA SameStream ==
  ASSUME InPlace, UNCHANGED <<Stream, sent, parsed, peer>>
  PROVE  InPlace'
  BY DEF InPlace

\* No call of data_handler comes or goes.
LEMMA SameCalls ==
  ASSUME Types, CallsHonest, CalledOnce, UNCHANGED <<size, sent, parsed, handled>>,
         \A i \in DOMAIN posted' :
            posted'[i].type = "message" => i \in DOMAIN posted /\ posted'[i] = posted[i],
         \A t \in Threads : io'[t].type = "message" => io'[t] = io[t]
  PROVE  CallsHonest' /\ CalledOnce'
<1>1. \A m : \A i \in DOMAIN posted' : IsCall(posted'[i], m) => i \in DOMAIN posted /\ IsCall(posted[i], m)
  BY DEF IsCall
<1>2. \A m : \A t \in Threads : IsCall(io'[t], m) => IsCall(io[t], m)
  BY DEF IsCall
<1>3. CalledOnce'
  BY <1>1, <1>2 DEF CalledOnce
<1>4. CallsHonest'
  BY DEF CallsHonest, Honest
<1> QED
  BY <1>3, <1>4

-----------------------------------------------------------------------------
(* Every step preserves the invariant *)

LEMMA InitIInv == Init => IInv
<1> SUFFICES ASSUME Init PROVE IInv
  OBVIOUS
<1>1. \A S : <<>> \in Seq(S) /\ Len(<<>>) = 0 /\ DOMAIN <<>> = {}
  BY EmptySeq
<1>2. Types
  <2>1. sent = <<>> /\ wire = <<>> /\ tmpBuf = <<>> /\ recvBuffer = <<>> /\ posted = <<>>
        /\ handled = <<>> /\ segments = <<>>
    BY DEF Init
  <2>2. /\ sent \in Seq(FrameSet) /\ wire \in Seq(ByteSet) /\ tmpBuf \in Seq(ByteSet)
        /\ recvBuffer \in Seq(ByteSet) /\ posted \in Seq(Jobs) /\ handled \in Seq(Call)
        /\ Len(sent) = 0
    BY <1>1, <2>1
  <2>3. DOMAIN segments = {}
    BY <1>1, <2>1
  <2>4. reading \in BOOLEAN /\ gone \in BOOLEAN
    BY DEF Init
  <2>5. /\ size \in [Messages -> Sizes \cup {0}] /\ peer \in {"open", "closed", "reset"}
        /\ io \in [Threads -> Jobs \cup {Task("idle"), Task("received")}]
        /\ parsed = 0
    BY DEF Init
  <2> QED
    BY <2>2, <2>3, <2>4, <2>5 DEF Types
<1>3. FramesHonest /\ Chain /\ CallsHonest /\ CalledOnce /\ Ended
  BY <1>1, Kinds DEF Init, FramesHonest, Chain, CallsHonest, CalledOnce, Ended, Ending, InChain, IsCall
<1>4. Stream = <<>>
  <2>1. Unparsed = <<>> \o <<>>
    BY DEF Init, Unparsed
  <2>2. <<>> \o <<>> = <<>>
    BY <1>1, ConcatEmptySeq
  <2> QED
    BY <2>1, <2>2 DEF Stream, Init
<1>5. InPlace
  BY <1>1, <1>4 DEF Init, InPlace, Placed, Whole
<1>6. ReadNeeded
  <2>1. HeaderSize \in Nat \ {0}
    BY SessionAssumption
  <2> QED
    BY <1>1, <2>1 DEF ReadNeeded, HasFrame, Init
<1> QED
  BY <1>2, <1>3, <1>5, <1>6 DEF IInv

LEMMA SendStep ==
  ASSUME IInv, (\E n \in Sizes : SendFirst(n)) \/ (\E m \in Messages : SendNext(m))
  PROVE  IInv'
<1>1. ASSUME NEW total \in Sizes, SendFirst(total) PROVE IInv'
  <2>1. PICK m \in Messages : size[m] = 0 /\ size' = [size EXCEPT ![m] = total]
                              /\ Write(Frame(m, total, 0))
    BY <1>1 DEF SendFirst
  <2>2. \A i \in DOMAIN sent : sent[i].MessageId # m
    BY <2>1, FrameFacts DEF IInv
  <2>3. 0 < FragmentsCount(total)
    <3>1. total \in Nat \ {0}
      BY SessionAssumption
    <3>2. FragmentsCount(total) \in Nat \ {0}
      BY <3>1, Fragments
    <3> QED
      BY <3>2
  <2> QED
    <3>1. peer = "open" /\ UNCHANGED peer /\ Unchanged /\ size[m] \in {0, total} /\ 0 \in Nat
      BY <1>1, <2>1 DEF SendFirst
    <3> QED
      BY <2>1, <2>2, <2>3, <3>1, WriteStep
<1>2. ASSUME NEW m \in Messages, SendNext(m) PROVE IInv'
  <2> DEFINE f == Cardinality(FramesOf(m))
  <2>1. /\ size[m] # 0 /\ f < FragmentsCount(size[m]) /\ Write(Frame(m, size[m], f))
        /\ peer = "open" /\ UNCHANGED <<size, peer>> /\ Unchanged
    BY <1>2 DEF SendNext
  <2>2. size[m] \in Sizes /\ size[m] \in Nat \ {0} /\ size' = [size EXCEPT ![m] = size[m]]
    BY <2>1, SessionAssumption DEF IInv, Types
  <2>3. IsFiniteSet(FramesOf(m))
    <3>1. FramesOf(m) \subseteq 1..Len(sent) /\ Len(sent) \in Nat
      BY DEF FramesOf, IInv, Types
    <3>2. IsFiniteSet(1..Len(sent))
      BY <3>1, FS_Interval
    <3> QED
      BY <3>1, <3>2, FS_Subset
  <2>4. f \in Nat /\ (f = 0 => FramesOf(m) = {})
    BY <2>3, FS_CardinalityType, FS_EmptySet
  <2> HIDE DEF f
  <2>5. FragmentsCount(size[m]) = 1 => \A i \in DOMAIN sent : sent[i].MessageId # m
    BY <2>1, <2>4 DEF FramesOf
  <2> QED
    BY <2>1, <2>2, <2>4, <2>5, WriteStep
<1> QED
  BY <1>1, <1>2

LEMMA HangupStep == ASSUME IInv, Hangup PROVE IInv'
<1>1. UNCHANGED <<size, sent>> /\ Unchanged /\ ByteSet' = ByteSet /\ Jobs' = Jobs /\ Call' = Call
  BY SameSets DEF Hangup
<1>2. Types'
  <2>1. <<>> \in Seq(ByteSet)
    BY EmptySeq
  <2> QED
    BY <1>1, <2>1 DEF Hangup, IInv, Types, Unchanged
<1>3. FramesHonest' /\ Chain' /\ CallsHonest' /\ CalledOnce' /\ Ended'
  BY <1>1 DEF IInv, FramesHonest, Chain, CallsHonest, Honest, CalledOnce, IsCall, Ended, Ending,
              InChain, Unchanged, Hangup
<1>4. ReadNeeded'
  BY <1>1 DEF IInv, ReadNeeded, HasFrame, Header, Unchanged
<1>5. InPlace'
  <2>1. Unparsed' = Unparsed
    BY <1>1 DEF Unparsed, Executing, Unchanged
  <2>2. CASE UNCHANGED wire
    <3>1. Stream' = Stream /\ peer = "open"
      BY <2>1, <2>2 DEF Stream, Hangup
    <3> QED
      BY <1>1, <3>1 DEF IInv, InPlace, Unchanged
  <2>3. CASE wire' = <<>> /\ peer' = "reset"
    <3>1. StreamFacts
      BY StreamType DEF IInv
    <3>2. Stream' = Unparsed
      BY <2>1, <2>3, <3>1, ConcatEmptySeq DEF Stream, StreamFacts
    <3>3. /\ Len(Stream') <= Len(Stream) /\ Len(Stream') \in Nat /\ Len(Stream) \in Nat
          /\ \A i \in 1..Len(Stream') : i \in 1..Len(Stream) /\ Stream'[i] = Stream[i]
      BY <3>1, <3>2 DEF StreamFacts
    <3>4. Stream' # <<>> => Stream # <<>> /\ 1 \in 1..Len(Stream')
      BY <3>1, <3>2, <3>3, EmptySeq DEF StreamFacts
    <3>5. \A i \in 1..(Len(Stream') - 1) : /\ i \in 1..Len(Stream') /\ i + 1 \in 1..Len(Stream')
                                           /\ i \in 1..(Len(Stream) - 1)
      BY <3>3
    <3>6. Placed(Stream, sent, parsed)
      BY DEF IInv, InPlace
    <3> HIDE DEF Stream
    <3>7. Placed(Stream', sent, parsed)
      BY <3>3, <3>4, <3>5, <3>6 DEF Placed
    <3> QED
      BY <1>1, <2>3, <3>7 DEF InPlace, Unchanged
  <2> QED
    BY <2>2, <2>3 DEF Hangup
<1> QED
  BY <1>2, <1>3, <1>4, <1>5 DEF IInv

\* Who is where in the chain.
LEMMA ChainFacts ==
  ASSUME Types, Chain, NEW t \in Threads
  PROVE  /\ reading => Executing("received") = {}
         /\ io[t].type = "received" => t \in Executing("received")
         /\ io[t].type = "process" => Executing("received") = {}
         /\ InChain(t) => \A u \in Threads \ {t} : ~InChain(u)
         /\ InChain(t) => ~reading /\ \A i \in DOMAIN posted : posted[i].type # "process"
  BY DEF Chain, InChain, Executing

LEMMA ReadSomeStep ==
  ASSUME IInv, NEW t \in Threads, ReadSome(t)
  PROVE  IInv'
<1>1. /\ Idle(t) /\ reading /\ reading' = FALSE /\ Run(t, Task("received"))
      /\ UNCHANGED <<size, sent, peer, recvBuffer, segments, posted, parsed, handled, gone>>
      /\ ByteSet' = ByteSet /\ Jobs' = Jobs /\ Call' = Call
  BY SameSets DEF ReadSome
<1>2. PICK n \in 1..AtMost(Len(wire), TmpSize) :
        tmpBuf' = SubSeq(wire, 1, n) /\ wire' = SubSeq(wire, n + 1, Len(wire))
  BY DEF ReadSome
<1>3. wire \in Seq(ByteSet) /\ Len(wire) \in Nat /\ recvBuffer \in Seq(ByteSet)
  BY DEF IInv, Types
<1>4. n \in 1..Len(wire) /\ Len(wire) \in 1..Len(wire)
  <2>1. TmpSize \in Nat
    BY SessionAssumption
  <2> QED
    BY <1>3, <2>1 DEF AtMost
<1>5. tmpBuf' \in Seq(ByteSet) /\ wire' \in Seq(ByteSet)
  <2>1. \A i \in 1..n : wire[i] \in ByteSet
    BY <1>3, <1>4, ElementOfSeq
  <2>2. \A i \in (n + 1)..Len(wire) : wire[i] \in ByteSet
    BY <1>3, <1>4, ElementOfSeq
  <2> QED
    BY <1>2, <1>3, <1>4, <2>1, <2>2, SubSeqProperties
<1>6. tmpBuf' \o wire' = wire
  <2>1. /\ 1 \in 1..(Len(wire) + 1) /\ n \in (1 - 1)..Len(wire) /\ Len(wire) \in n..Len(wire)
    BY <1>3, <1>4
  <2>2. SubSeq(wire, 1, n) \o SubSeq(wire, n + 1, Len(wire)) = SubSeq(wire, 1, Len(wire))
    BY <1>3, <2>1, ConcatAdjacentSubSeq
  <2> QED
    BY <1>2, <1>3, <2>2, SubSeqFull
<1>7. /\ io' \in [Threads -> Jobs \cup {Task("idle"), Task("received")}]
      /\ io'[t].type = "received" /\ \A u \in Threads \ {t} : io'[u] = io[u]
  BY <1>1, Kinds DEF IInv, Types, Run
<1>8. Types'
  BY <1>1, <1>5, <1>7 DEF IInv, Types
<1>9. FramesHonest'
  BY <1>1 DEF IInv, FramesHonest
<1>10. Chain'
  BY <1>1, <1>7 DEF IInv, Chain, InChain
<1>11. InPlace'
  <2>1. Stream = recvBuffer \o wire
    BY <1>1, <1>3, ChainFacts, ConcatEmptySeq DEF IInv, Stream, Unparsed
  <2>2. Executing("received")' # {}
    BY <1>7 DEF Executing
  <2>3. Stream' = (recvBuffer \o tmpBuf') \o wire'
    BY <1>1, <2>2 DEF Stream, Unparsed
  <2>4. (recvBuffer \o tmpBuf') \o wire' = recvBuffer \o (tmpBuf' \o wire')
    BY <1>3, <1>5, ConcatAssociative
  <2> QED
    BY <1>1, <1>6, <2>1, <2>3, <2>4, SameStream DEF IInv
<1>12. ReadNeeded'
  BY <1>1 DEF ReadNeeded
<1>13. CallsHonest' /\ CalledOnce'
  <2>1. \A u \in Threads : io'[u].type = "message" => io'[u] = io[u]
    BY <1>7
  <2> QED
    BY <1>1, <2>1, SameCalls DEF IInv
<1>14. Ended'
  BY <1>1 DEF IInv, Ended, Ending
<1> QED
  BY <1>8, <1>9, <1>10, <1>11, <1>12, <1>13, <1>14 DEF IInv

LEMMA ReceivedStep ==
  ASSUME IInv, NEW t \in Threads, Received(t)
  PROVE  IInv'
<1>1. /\ io[t].type = "received" /\ recvBuffer' = recvBuffer \o tmpBuf
      /\ Post(Task("process")) /\ Run(t, Task("idle"))
      /\ UNCHANGED <<size, sent, wire, peer, reading, tmpBuf, segments, parsed, handled, gone>>
      /\ ByteSet' = ByteSet /\ Jobs' = Jobs /\ Call' = Call
  BY SameSets DEF Received, stream
<1>2. /\ posted' \in Seq(Jobs) /\ Len(posted) \in Nat
      /\ DOMAIN posted = 1..Len(posted) /\ DOMAIN posted' = 1..(Len(posted) + 1)
      /\ posted'[Len(posted) + 1].type = "process"
      /\ \A i \in DOMAIN posted : posted'[i] = posted[i]
      /\ \A i \in DOMAIN posted' : i \in DOMAIN posted \/ i = Len(posted) + 1
  BY <1>1, Posting, Kinds DEF IInv
<1>3. /\ io' \in [Threads -> Jobs \cup {Task("idle"), Task("received")}]
      /\ io'[t].type = "idle" /\ \A u \in Threads \ {t} : io'[u] = io[u]
  BY <1>1, Kinds DEF IInv, Types, Run
<1>4. /\ \A u \in Threads \ {t} : ~InChain(u)
      /\ ~reading /\ \A i \in DOMAIN posted : posted[i].type # "process"
      /\ InChain(t)
  BY <1>1, ChainFacts DEF IInv, InChain
<1>5. recvBuffer' \in Seq(ByteSet)
  BY <1>1, ConcatProperties DEF IInv, Types
<1>6. Types'
  BY <1>1, <1>2, <1>3, <1>5 DEF IInv, Types
<1>7. FramesHonest'
  BY <1>1 DEF IInv, FramesHonest
<1>8. Chain'
  BY <1>1, <1>2, <1>3, <1>4 DEF Chain, InChain
<1>9. InPlace'
  <2>1. Executing("received") # {} /\ Executing("received")' = {}
    BY <1>1, <1>3, <1>4 DEF Executing, InChain
  <2>2. Stream = recvBuffer' \o wire
    BY <1>1, <2>1 DEF Stream, Unparsed
  <2>3. Stream' = (recvBuffer' \o <<>>) \o wire
    BY <1>1, <2>1 DEF Stream, Unparsed
  <2> QED
    BY <1>1, <1>5, <2>2, <2>3, ConcatEmptySeq, SameStream DEF IInv
<1>10. ReadNeeded'
  BY <1>1, <1>4 DEF ReadNeeded
<1>11. CallsHonest' /\ CalledOnce'
  <2>1. \A u \in Threads : io'[u].type = "message" => io'[u] = io[u]
    BY <1>3
  <2>2. \A i \in DOMAIN posted' :
          posted'[i].type = "message" => i \in DOMAIN posted /\ posted'[i] = posted[i]
    BY <1>2
  <2> QED
    BY <1>1, <2>1, <2>2, SameCalls DEF IInv
<1>12. Ended'
  <2>1. ~gone /\ ~Ending
    BY <1>4 DEF IInv, Ended
  <2>2. ~gone' /\ \A i \in DOMAIN posted' : posted'[i].type # "disconnect"
    BY <1>1, <1>2, <2>1 DEF Ending
  <2> QED
    BY <2>2 DEF Ended, Ending
<1> QED
  BY <1>6, <1>7, <1>8, <1>9, <1>10, <1>11, <1>12 DEF IInv

\* Whoever reads to the end has cut everything off before.
LEMMA ReadEofStep ==
  ASSUME IInv, NEW t \in Threads, ReadEof(t)
  PROVE  IInv'
<1>1. /\ reading /\ wire = <<>> /\ peer = "closed" /\ reading' = FALSE
      /\ Post(Task("disconnect"))
      /\ UNCHANGED <<size, sent, wire, peer, tmpBuf, recvBuffer, segments, io, parsed, handled, gone>>
      /\ ByteSet' = ByteSet /\ Jobs' = Jobs /\ Call' = Call
  BY SameSets DEF ReadEof, stream
<1>2. /\ posted' \in Seq(Jobs) /\ Len(posted) \in Nat /\ Len(posted') = Len(posted) + 1
      /\ DOMAIN posted = 1..Len(posted) /\ DOMAIN posted' = 1..(Len(posted) + 1)
      /\ posted'[Len(posted) + 1].type = "disconnect"
      /\ \A i \in DOMAIN posted : posted'[i] = posted[i]
      /\ \A i \in DOMAIN posted' : i \in DOMAIN posted \/ i = Len(posted) + 1
  BY <1>1, Posting, Kinds DEF IInv
<1>3. parsed = Len(sent)
  <2>1. Stream = recvBuffer
    <3>1. Stream = (recvBuffer \o <<>>) \o <<>> /\ recvBuffer \in Seq(ByteSet)
      BY <1>1, ChainFacts DEF IInv, Types, Stream, Unparsed
    <3> QED
      BY <3>1, ConcatEmptySeq
  <2>2. Placed(Stream, sent, parsed) /\ Whole(Stream, sent, parsed)
    BY <1>1 DEF IInv, InPlace
  <2>3. CASE Stream # <<>>
    <3>1. Stream \in Seq(BytesOf(sent)) /\ parsed \in Nat /\ sent \in Seq(FrameSet)
      BY StreamType DEF StreamFacts, IInv, Types
    <3>2. End(sent, parsed + 1) <= Len(recvBuffer) /\ parsed + 1 \in DOMAIN sent
      BY <2>1, <2>2, <2>3, <3>1, FirstFrame
    <3>3. Len(recvBuffer) >= HeaderSize
      <4>1. HeaderSize \in Nat /\ sent[parsed + 1].thisSize \in Nat
        BY <3>1, <3>2, FrameEnds
      <4>2. Len(recvBuffer) \in Nat
        BY StreamType DEF StreamFacts, IInv
      <4> QED
        BY <3>2, <4>1, <4>2 DEF End
    <3>4. HasFrame
      BY <3>2, <3>3, HeaderFound, StreamType DEF IInv, StreamFacts
    <3> QED
      BY <1>1, <3>4 DEF IInv, ReadNeeded
  <2>4. CASE Stream = <<>>
    BY <2>2, <2>4 DEF Whole
  <2> QED
    BY <2>3, <2>4
<1>4. Types'
  BY <1>1, <1>2 DEF IInv, Types
<1>5. FramesHonest'
  BY <1>1 DEF IInv, FramesHonest
<1>6. /\ \A u \in Threads : ~InChain(u)
      /\ \A i \in DOMAIN posted' : posted'[i].type # "process"
  BY <1>1, <1>2 DEF IInv, Chain
<1>7. Chain'
  BY <1>1, <1>6 DEF Chain, InChain
<1>8. InPlace'
  BY <1>1, SameStream DEF IInv, Stream, Unparsed, Executing
<1>9. ReadNeeded'
  BY <1>1 DEF ReadNeeded
<1>10. CallsHonest' /\ CalledOnce'
  <2>1. \A i \in DOMAIN posted' :
          posted'[i].type = "message" => i \in DOMAIN posted /\ posted'[i] = posted[i]
    BY <1>2
  <2> QED
    BY <1>1, <2>1, SameCalls DEF IInv
<1>11. Ended'
  <2>1. ~gone /\ ~Ending
    BY <1>1 DEF IInv, Ended
  <2>2. \A i \in DOMAIN posted' : posted'[i].type = "disconnect" => i = Len(posted')
    BY <1>2, <2>1 DEF Ending
  <2> QED
    BY <1>1, <1>3, <1>6, <2>1, <2>2 DEF Ended, InChain
<1> QED
  BY <1>4, <1>5, <1>7, <1>8, <1>9, <1>10, <1>11 DEF IInv

LEMMA ReadErrorStep ==
  ASSUME IInv, NEW t \in Threads, ReadError(t)
  PROVE  IInv'
<1>1. /\ reading' = FALSE
      /\ UNCHANGED <<size, sent, wire, peer, tmpBuf, recvBuffer, segments, posted, io, parsed,
                     handled, gone>>
      /\ ByteSet' = ByteSet /\ Jobs' = Jobs /\ Call' = Call
  BY SameSets DEF ReadError, stream
<1>2. Types' /\ FramesHonest' /\ Chain' /\ ReadNeeded' /\ Ended'
  BY <1>1 DEF IInv, Types, FramesHonest, Chain, ReadNeeded, Ended, Ending, InChain
<1>3. InPlace'
  BY <1>1, SameStream DEF IInv, Stream, Unparsed, Executing
<1>4. CallsHonest' /\ CalledOnce'
  BY <1>1, SameCalls DEF IInv
<1> QED
  BY <1>2, <1>3, <1>4 DEF IInv

LEMMA StartStep ==
  ASSUME IInv, NEW t \in Threads, Start(t)
  PROVE  IInv'
<1>1. /\ io[t].type = "idle" /\ posted # <<>> /\ Run(t, Head(posted)) /\ posted' = Tail(posted)
      /\ gone' = (gone \/ Head(posted).type = "disconnect")
      /\ UNCHANGED <<size, sent, wire, peer, reading, tmpBuf, recvBuffer, segments, parsed, handled>>
      /\ ByteSet' = ByteSet /\ Jobs' = Jobs /\ Call' = Call
  BY SameSets DEF Start, stream, Idle
<1> DEFINE L == Len(posted)
<1>2. /\ posted \in Seq(Jobs) /\ L \in Nat \ {0} /\ DOMAIN posted = 1..L /\ Head(posted) = posted[1]
      /\ posted[1] \in Jobs
  <2>1. posted \in Seq(Jobs)
    BY DEF IInv, Types
  <2> QED
    BY <1>1, <2>1, EmptySeq, ElementOfSeq
<1>3. /\ posted' \in Seq(Jobs) /\ Len(posted') = L - 1 /\ DOMAIN posted' = 1..(L - 1)
      /\ \A i \in DOMAIN posted' : i + 1 \in DOMAIN posted /\ posted'[i] = posted[i + 1] /\ i + 1 # 1
  <2>1. /\ posted' \in Seq(Jobs) /\ Len(posted') = L - 1
        /\ \A i \in 1..Len(posted') : posted'[i] = posted[i + 1]
    BY <1>1, <1>2, HeadTailProperties
  <2> QED
    BY <1>2, <2>1
<1> HIDE DEF L
<1>4. /\ io' \in [Threads -> Jobs \cup {Task("idle"), Task("received")}]
      /\ io'[t] = posted[1] /\ \A u \in Threads \ {t} : io'[u] = io[u]
  BY <1>1, <1>2 DEF IInv, Types, Run
<1>5. posted[1].type # "received" /\ posted[1].type # "idle" /\ 1 \in DOMAIN posted
  BY <1>2 DEF Jobs, Task
<1>6. Types'
  <2>1. gone' \in BOOLEAN
    BY <1>1 DEF IInv, Types
  <2> QED
    BY <1>1, <1>3, <1>4, <2>1 DEF IInv, Types
<1>7. FramesHonest'
  BY <1>1 DEF IInv, FramesHonest
<1>8. Chain'
  <2>1. CASE posted[1].type = "process"
    <3>1. /\ ~reading /\ \A u \in Threads : ~InChain(u)
          /\ \A i \in DOMAIN posted' : posted'[i].type # "process"
      BY <1>3, <1>5, <2>1 DEF IInv, Chain
    <3> QED
      BY <1>1, <1>4, <3>1 DEF Chain, InChain
  <2>2. CASE posted[1].type # "process"
    <3>1. \A u \in Threads : InChain(u)' => InChain(u)
      BY <1>4, <1>5, <2>2 DEF InChain
    <3>2. \A i, j \in DOMAIN posted' :
               posted'[i].type = "process" /\ posted'[j].type = "process" => i = j
      <4> TAKE i, j \in DOMAIN posted'
      <4>1. posted[i + 1].type = "process" /\ posted[j + 1].type = "process" => i + 1 = j + 1
        BY <1>3 DEF IInv, Chain
      <4> QED
        BY <1>2, <1>3, <4>1
    <3>3. \A u \in Threads, i \in DOMAIN posted' : ~(InChain(u) /\ posted'[i].type = "process")
      BY <1>3 DEF IInv, Chain
    <3>4. reading => \A i \in DOMAIN posted' : posted'[i].type # "process"
      BY <1>3 DEF IInv, Chain
    <3>5. /\ reading => \A u \in Threads : ~InChain(u)
          /\ \A u, v \in Threads : InChain(u) /\ InChain(v) => u = v
      BY DEF IInv, Chain
    <3> QED
      BY <1>1, <3>1, <3>2, <3>3, <3>4, <3>5 DEF Chain
  <2> QED
    BY <2>1, <2>2
<1>9. InPlace'
  <2>1. Executing("received")' = Executing("received")
    BY <1>1, <1>4, <1>5 DEF Executing
  <2> QED
    BY <1>1, <2>1, SameStream DEF IInv, Stream, Unparsed
<1>10. ReadNeeded'
  BY <1>1 DEF IInv, ReadNeeded, HasFrame, Header
<1>11. CallsHonest'
  <2>1. \A call : Honest(call)' <=> Honest(call)
    BY <1>1 DEF Honest
  <2>2. \A i \in DOMAIN posted' : posted'[i].type = "message" => HonestIn(posted'[i], parsed, sent, size)
    BY <1>3 DEF IInv, CallsHonest, Honest
  <2>3. \A u \in Threads : io'[u].type = "message" => HonestIn(io'[u], parsed, sent, size)
    BY <1>4, <1>5 DEF IInv, CallsHonest, Honest
  <2> QED
    BY <1>1, <2>2, <2>3 DEF IInv, CallsHonest, Honest
<1>12. CalledOnce'
  <2> SUFFICES ASSUME NEW m \in Messages
               PROVE  /\ \A i, j \in DOMAIN posted' : IsCall(posted'[i], m) /\ IsCall(posted'[j], m) => i = j
                      /\ \A u, v \in Threads : IsCall(io'[u], m) /\ IsCall(io'[v], m) => u = v
                      /\ \A i, j \in DOMAIN handled : handled[i].id = m /\ handled[j].id = m => i = j
                      /\ \A i \in DOMAIN posted', u \in Threads : ~(IsCall(posted'[i], m) /\ IsCall(io'[u], m))
                      /\ \A i \in DOMAIN posted', j \in DOMAIN handled :
                            ~(IsCall(posted'[i], m) /\ handled[j].id = m)
                      /\ \A u \in Threads, j \in DOMAIN handled : ~(IsCall(io'[u], m) /\ handled[j].id = m)
    BY <1>1 DEF CalledOnce, IsCall
  <2>1. /\ \A i, j \in DOMAIN posted : IsCall(posted[i], m) /\ IsCall(posted[j], m) => i = j
        /\ \A u, v \in Threads : IsCall(io[u], m) /\ IsCall(io[v], m) => u = v
        /\ \A i, j \in DOMAIN handled : handled[i].id = m /\ handled[j].id = m => i = j
        /\ \A i \in DOMAIN posted, u \in Threads : ~(IsCall(posted[i], m) /\ IsCall(io[u], m))
        /\ \A i \in DOMAIN posted, j \in DOMAIN handled : ~(IsCall(posted[i], m) /\ handled[j].id = m)
        /\ \A u \in Threads, j \in DOMAIN handled : ~(IsCall(io[u], m) /\ handled[j].id = m)
    BY DEF IInv, CalledOnce
  <2>2. \A i \in DOMAIN posted' : IsCall(posted'[i], m) => ~IsCall(posted[1], m)
    BY <1>3, <1>5, <2>1
  <2>3. \A u \in Threads : IsCall(io'[u], m) => (u = t /\ IsCall(posted[1], m)) \/ (u # t /\ IsCall(io[u], m))
    BY <1>4
  <2>4. \A i, j \in DOMAIN posted' : IsCall(posted'[i], m) /\ IsCall(posted'[j], m) => i = j
    <3> TAKE i, j \in DOMAIN posted'
    <3>1. IsCall(posted[i + 1], m) /\ IsCall(posted[j + 1], m) => i + 1 = j + 1
      BY <1>3, <2>1
    <3> QED
      BY <1>2, <1>3, <3>1
  <2>5. \A i \in DOMAIN posted', u \in Threads : ~(IsCall(posted'[i], m) /\ IsCall(io'[u], m))
    BY <1>3, <2>1, <2>2, <2>3
  <2>6. \A i \in DOMAIN posted', j \in DOMAIN handled : ~(IsCall(posted'[i], m) /\ handled[j].id = m)
    BY <1>3, <2>1
  <2>7. \A u, v \in Threads : IsCall(io'[u], m) /\ IsCall(io'[v], m) => u = v
    BY <1>5, <2>1, <2>3
  <2>8. \A u \in Threads, j \in DOMAIN handled : ~(IsCall(io'[u], m) /\ handled[j].id = m)
    BY <1>5, <2>1, <2>3
  <2> QED
    BY <2>1, <2>4, <2>5, <2>6, <2>7, <2>8
<1>13. Ended'
  <2>1. ~gone
    BY <1>1 DEF IInv, Ended
  <2>2. \A i \in DOMAIN posted' : posted'[i].type = "disconnect" => i = Len(posted')
    <3> SUFFICES ASSUME NEW i \in DOMAIN posted', posted'[i].type = "disconnect"
                 PROVE  i = Len(posted')
      OBVIOUS
    <3>1. i + 1 = L
      BY <1>3 DEF IInv, Ended, L
    <3> QED
      BY <1>2, <1>3, <3>1
  <2>3. gone' => posted[1].type = "disconnect" /\ posted' = <<>>
    <3>1. gone' => posted[1].type = "disconnect"
      BY <1>1, <1>2, <2>1
    <3>2. posted[1].type = "disconnect" => L = 1
      BY <1>5 DEF IInv, Ended, L
    <3>3. L = 1 => Len(posted') = 0
      BY <1>3
    <3> QED
      BY <1>3, <3>1, <3>2, <3>3, EmptySeq
  <2>4. gone' \/ Ending' => Ending
    BY <1>3, <1>5, <2>3 DEF Ending
  <2>5. ASSUME Ending
        PROVE  /\ ~reading' /\ peer' # "open" /\ parsed' = Len(sent')
               /\ \A u \in Threads : ~InChain(u)'
               /\ \A i \in DOMAIN posted' : posted'[i].type # "process"
    <3>1. /\ ~reading /\ peer # "open" /\ parsed = Len(sent)
          /\ \A u \in Threads : ~InChain(u)
          /\ \A i \in DOMAIN posted : posted[i].type # "process"
      BY <2>5 DEF IInv, Ended
    <3>2. \A u \in Threads : ~InChain(u)'
      BY <1>4, <1>5, <3>1 DEF InChain
    <3> QED
      BY <1>1, <1>3, <3>1, <3>2
  <2> QED
    BY <2>2, <2>3, <2>4, <2>5 DEF Ended
<1> QED
  BY <1>6, <1>7, <1>8, <1>9, <1>10, <1>11, <1>12, <1>13 DEF IInv

LEMMA ReadOnStep ==
  ASSUME IInv, NEW t \in Threads, ReadOn(t)
  PROVE  IInv'
<1>1. /\ io[t].type = "process" /\ ~HasFrame /\ reading' = TRUE /\ Run(t, Task("idle"))
      /\ UNCHANGED <<size, sent, wire, peer, tmpBuf, recvBuffer, segments, posted, parsed, handled, gone>>
      /\ ByteSet' = ByteSet /\ Jobs' = Jobs /\ Call' = Call
  BY SameSets DEF ReadOn, stream
<1>2. /\ io' \in [Threads -> Jobs \cup {Task("idle"), Task("received")}]
      /\ io'[t].type = "idle" /\ \A u \in Threads \ {t} : io'[u] = io[u]
  BY <1>1, Kinds DEF IInv, Types, Run
<1>3. /\ \A u \in Threads \ {t} : ~InChain(u)
      /\ \A i \in DOMAIN posted : posted[i].type # "process"
      /\ InChain(t) /\ Executing("received") = {}
  BY <1>1, ChainFacts DEF IInv, InChain
<1>4. \A u \in Threads : ~InChain(u)'
  BY <1>2, <1>3 DEF InChain
<1>5. Types' /\ FramesHonest'
  BY <1>1, <1>2 DEF IInv, Types, FramesHonest
<1>6. Chain'
  BY <1>1, <1>3, <1>4 DEF Chain
<1>7. InPlace'
  <2>1. Executing("received")' = {}
    BY <1>4 DEF Executing, InChain
  <2> QED
    BY <1>1, <1>3, <2>1, SameStream DEF IInv, Stream, Unparsed
<1>8. ReadNeeded'
  BY <1>1 DEF ReadNeeded, HasFrame, Header
<1>9. CallsHonest' /\ CalledOnce'
  <2>1. \A u \in Threads : io'[u].type = "message" => io'[u] = io[u]
    BY <1>2
  <2> QED
    BY <1>1, <2>1, SameCalls DEF IInv
<1>10. Ended'
  <2>1. ~gone /\ ~Ending
    BY <1>3 DEF IInv, Ended
  <2> QED
    BY <1>1, <2>1 DEF Ended, Ending
<1> QED
  BY <1>5, <1>6, <1>7, <1>8, <1>9, <1>10 DEF IInv

\* merge_fragments of one fragment is its body: the fold is over one element.
LEMMA MergeOne ==
  ASSUME NEW S, NEW body \in Seq(S), NEW f \in Nat
  PROVE  merge_fragments([g \in {f} |-> body]) = body
<1> DEFINE fragments == [g \in {f} |-> body]
           first(T) == CHOOSE x \in T : \A g \in T : x >= g
           step(iter, s) == IF s = {} THEN <<>> ELSE fragments[first(s)] \o iter[s \ {first(s)}]
           IsFold(iter) == iter = [s \in SUBSET DOMAIN fragments |-> step(iter, s)]
           fold == CHOOSE iter : IsFold(iter)
<1>1. DOMAIN fragments = {f} /\ fragments[f] = body
  OBVIOUS
<1>2. first({f}) = f
  OBVIOUS
<1>3. body \o <<>> = body
  BY ConcatEmptySeq
<1>4. merge_fragments(fragments) = fold[DOMAIN fragments]
  BY DEF merge_fragments, MapThenFoldSet
<1>5. \E iter : IsFold(iter)
  <2> DEFINE it == [s \in SUBSET {f} |-> IF s = {} THEN <<>> ELSE body]
  <2>1. \A s \in SUBSET {f} : s = {} \/ s = {f}
    OBVIOUS
  <2>2. \A s \in SUBSET {f} : it[s] = step(it, s)
    <3>1. it[{}] = <<>> /\ it[{f}] = body /\ {f} # {} /\ {f} \ {f} = {}
      OBVIOUS
    <3> HIDE DEF it, fragments, first
    <3>2. step(it, {}) = <<>>
      OBVIOUS
    <3>3. step(it, {f}) = body
      BY <1>1, <1>2, <1>3, <3>1
    <3> QED
      BY <2>1, <3>1, <3>2, <3>3
  <2>3. IsFold(it)
    BY <1>1, <2>2
  <2> QED
    BY <2>3
<1>6. IsFold(fold)
  BY <1>5
<1> HIDE DEF fold, fragments, first
<1>7. fold = [s \in SUBSET {f} |-> step(fold, s)]
  BY <1>1, <1>6
<1>8. fold[{}] = <<>>
  BY <1>7
<1>9. fold[{f}] = body
  <2>1. {f} \in SUBSET {f} /\ {f} # {} /\ {f} \ {f} = {}
    OBVIOUS
  <2>2. fold[{f}] = step(fold, {f})
    BY <1>7, <2>1
  <2>3. step(fold, {f}) = fragments[f] \o fold[{}]
    BY <1>2, <2>1
  <2> QED
    BY <1>1, <1>3, <1>8, <2>2, <2>3
<1> QED
  BY <1>1, <1>4, <1>9 DEF fragments

\* A frame is cut off whole: the body is the one that was sent, and what is
\* left begins with the next frame.
LEMMA CutOff ==
  ASSUME IInv, NEW t \in Threads, io[t].type = "process", HasFrame,
         NEW h, h = Header, recvBuffer' = Rest(h), parsed' = parsed + 1,
         UNCHANGED <<size, sent, wire, peer, tmpBuf>>, Executing("received")' = {}
  PROVE  /\ recvBuffer' \in Seq(ByteSet) /\ parsed + 1 \in 1..Len(sent)
         /\ h = sent[parsed + 1] /\ h \in FrameSet
         /\ h.thisSize \in Nat
         /\ Body(h) \in Seq(ByteSet)
         /\ Body(h) = [k \in 1..h.thisSize |-> Byte(parsed + 1, HeaderSize + k)]
         /\ Types' => InPlace'
<1> DEFINE E == End(sent, parsed + 1)
           r == Len(recvBuffer)
<1>1. Len(recvBuffer) >= HeaderSize
  BY DEF HasFrame
<1>2. /\ Head(recvBuffer) = Byte(parsed + 1, 1) /\ parsed + 1 \in DOMAIN sent /\ h = sent[parsed + 1]
      /\ r >= E
  BY <1>1, HeaderFound DEF IInv
<1>3. /\ sent \in Seq(FrameSet) /\ recvBuffer \in Seq(ByteSet) /\ parsed \in Nat
      /\ parsed + 1 \in 1..Len(sent) /\ h \in FrameSet
  BY <1>2 DEF IInv, Types
<1>4. HeaderSize \in Nat \ {0} /\ h.thisSize \in Nat /\ E \in Nat \ {0} /\ E = HeaderSize + h.thisSize
  BY <1>2, <1>3, FrameEnds DEF End
<1>5. StreamFacts /\ r \in Nat
  BY StreamType DEF IInv, StreamFacts
<1>6. /\ Stream = Unparsed \o wire /\ Unparsed = recvBuffer
      /\ Stream \in Seq(BytesOf(sent)) /\ Placed(Stream, sent, parsed)
      /\ peer # "reset" => Whole(Stream, sent, parsed)
  <2>1. Executing("received") = {}
    BY ChainFacts DEF IInv
  <2> QED
    BY <1>3, <1>5, <2>1, ConcatEmptySeq DEF IInv, InPlace, Stream, Unparsed, StreamFacts
<1>7. /\ r >= E /\ Len(Stream) = r + Len(wire) /\ Len(wire) \in Nat
      /\ Stream # <<>>
      /\ \A i \in 1..r : Stream[i] = recvBuffer[i]
      /\ \A k \in 1..Len(wire) : Stream[r + k] = wire[k]
  <2>1. /\ r >= E /\ Len(Stream) = r + Len(wire) /\ Len(wire) \in Nat
        /\ \A i \in 1..r : Stream[i] = recvBuffer[i]
        /\ \A k \in 1..Len(wire) : Stream[r + k] = wire[k]
    BY <1>2, <1>5, <1>6 DEF StreamFacts
  <2>2. Len(Stream) # 0
    BY <1>4, <1>5, <2>1
  <2> QED
    BY <2>1, <2>2, EmptySeq
<1> HIDE DEF r, E
<1>8. /\ recvBuffer' \in Seq(ByteSet) /\ Len(recvBuffer') = r - E
      /\ \A i \in 1..(r - E) : recvBuffer'[i] = recvBuffer[E + i]
  <2>1. recvBuffer' = SubSeq(recvBuffer, E + 1, r)
    BY <1>4 DEF Rest, r
  <2>2. \A i \in (E + 1)..r : recvBuffer[i] \in ByteSet
    BY <1>3, <1>4, <1>5, ElementOfSeq DEF r
  <2>3. /\ SubSeq(recvBuffer, E + 1, r) \in Seq(ByteSet)
        /\ Len(SubSeq(recvBuffer, E + 1, r)) = IF E + 1 <= r THEN r - (E + 1) + 1 ELSE 0
        /\ \A i \in 1..(r - (E + 1) + 1) : SubSeq(recvBuffer, E + 1, r)[i] = recvBuffer[(E + 1) + i - 1]
    BY <1>4, <1>5, <2>2, SubSeqProperties
  <2>4. r - (E + 1) + 1 = r - E /\ \A i \in Int : (E + 1) + i - 1 = E + i
    BY <1>4, <1>5
  <2> QED
    <3>1. Len(recvBuffer') = r - E
      <4>1. r \in Int /\ E \in Int /\ r >= E
        BY <1>4, <1>5, <1>7
      <4>2. CASE r = E
        BY <2>1, <2>3, <4>1, <4>2
      <4>3. CASE r > E
        BY <2>1, <2>3, <2>4, <4>1, <4>3
      <4> QED
        BY <4>1, <4>2, <4>3
    <3>2. ASSUME NEW i \in 1..(r - E) PROVE recvBuffer'[i] = recvBuffer[E + i]
      <4>1. i \in 1..(r - (E + 1) + 1) /\ (E + 1) + i - 1 = E + i
        BY <1>4, <1>5, <2>4
      <4> QED
        BY <2>1, <2>3, <4>1
    <3> QED
      BY <2>1, <2>3, <3>1, <3>2
<1>9. /\ Body(h) \in Seq(ByteSet) /\ Len(Body(h)) = h.thisSize
      /\ \A k \in 1..h.thisSize : Body(h)[k] = recvBuffer[HeaderSize + k]
  <2>1. Body(h) = SubSeq(recvBuffer, HeaderSize + 1, E)
    BY <1>4 DEF Body
  <2>2. \A i \in (HeaderSize + 1)..E : recvBuffer[i] \in ByteSet
    BY <1>3, <1>4, <1>5, <1>7, ElementOfSeq DEF r
  <2>3. /\ SubSeq(recvBuffer, HeaderSize + 1, E) \in Seq(ByteSet)
        /\ Len(SubSeq(recvBuffer, HeaderSize + 1, E)) =
             IF HeaderSize + 1 <= E THEN E - (HeaderSize + 1) + 1 ELSE 0
        /\ \A i \in 1..(E - (HeaderSize + 1) + 1) :
             SubSeq(recvBuffer, HeaderSize + 1, E)[i] = recvBuffer[(HeaderSize + 1) + i - 1]
    BY <1>4, <2>2, SubSeqProperties
  <2>4. E - (HeaderSize + 1) + 1 = h.thisSize /\ \A i \in Int : (HeaderSize + 1) + i - 1 = HeaderSize + i
    BY <1>4
  <2> QED
    <3>1. Len(Body(h)) = h.thisSize
      BY <1>4, <2>1, <2>3
    <3>2. ASSUME NEW i \in 1..h.thisSize PROVE Body(h)[i] = recvBuffer[HeaderSize + i]
      <4>1. i \in 1..(E - (HeaderSize + 1) + 1) /\ (HeaderSize + 1) + i - 1 = HeaderSize + i
        BY <1>4, <2>4
      <4> QED
        BY <2>1, <2>3, <4>1
    <3> QED
      BY <2>1, <2>3, <3>1, <3>2
<1>10. \A k \in 1..h.thisSize : Body(h)[k] = Byte(parsed + 1, HeaderSize + k)
  <2> TAKE k \in 1..h.thisSize
  <2>1. HeaderSize + k \in 1..r /\ HeaderSize + k \in 1..Len(Stream) /\ HeaderSize + k <= E
    BY <1>4, <1>5, <1>7
  <2>2. Stream[HeaderSize + k] = Byte(parsed + 1, HeaderSize + k)
    BY <1>3, <1>6, <1>7, <2>1, FirstFrame DEF E
  <2> QED
    BY <1>7, <1>9, <2>1, <2>2
<1>11. Body(h) = [k \in 1..h.thisSize |-> Byte(parsed + 1, HeaderSize + k)]
  <2>1. DOMAIN Body(h) = 1..h.thisSize /\ Body(h) = [k \in DOMAIN Body(h) |-> Body(h)[k]]
    BY <1>9
  <2> QED
    BY <1>10, <2>1
<1>12. ASSUME Types' PROVE InPlace'
  <2>1. StreamFacts'
    BY <1>12, StreamTypeNext
  <2>2. Unparsed' = recvBuffer'
    BY <1>8, ConcatEmptySeq DEF Unparsed
  <2>3. Stream' \in Seq(BytesOf(sent)) /\ Len(Stream') = (r - E) + Len(wire)
    BY <1>8, <2>1, <2>2 DEF StreamFacts
  <2>4. Len(Stream') = Len(Stream) - E
    BY <1>4, <1>5, <1>7, <2>3
  <2>5. ASSUME NEW i \in 1..Len(Stream') PROVE Stream'[i] = Stream[i + E]
    <3>1. CASE i <= r - E
      <4>1. i \in 1..(r - E) /\ E + i \in 1..r /\ E + i = i + E
        <5>1. r \in Int /\ E \in Int /\ i \in Int /\ i >= 1 /\ E >= 0
          BY <1>4, <1>5, <2>3, <1>7
        <5> QED
          BY <3>1, <5>1
      <4>2. Stream'[i] = recvBuffer'[i]
        BY <1>8, <2>1, <2>2, <4>1 DEF StreamFacts
      <4> QED
        BY <1>7, <1>8, <4>1, <4>2
    <3>2. CASE i > r - E
      <4> DEFINE k == i - (r - E)
      <4>0. r \in Int /\ E \in Int /\ Len(wire) \in Int /\ i \in Int /\ i <= (r - E) + Len(wire)
        BY <1>4, <1>5, <1>7, <2>3
      <4>1. k \in 1..Len(wire) /\ i = (r - E) + k /\ i + E = r + k
        BY <3>2, <4>0
      <4> HIDE DEF k
      <4>2. Stream'[(r - E) + k] = wire[k]
        BY <1>8, <2>1, <2>2, <4>1 DEF StreamFacts
      <4> QED
        BY <1>7, <4>1, <4>2
    <3> QED
      BY <1>4, <1>5, <3>1, <3>2
  <2>6. E <= Len(Stream)
    BY <1>4, <1>5, <1>7
  <2>7. Placed(Stream', sent, parsed + 1) /\ (Whole(Stream, sent, parsed) => Whole(Stream', sent, parsed + 1))
    BY <1>3, <1>6, <1>7, <2>3, <2>4, <2>5, <2>6, PlacedDrop DEF E
  <2> QED
    BY <1>6, <2>7 DEF InPlace
<1> QED
  BY <1>2, <1>3, <1>4, <1>8, <1>9, <1>11, <1>12

\* process_data cuts a frame off, and hands the message over if that was all of it.
LEMMA ParseFrameStep ==
  ASSUME IInv, NEW t \in Threads, ParseFrame(t)
  PROVE  IInv'
<1> DEFINE h == Header
           m == h.MessageId
           fragments == Emplaced(FragmentsCopy(m), h.FragmentId, Body(h))
           call == [type |-> "message", id |-> m, data |-> merge_fragments(fragments)]
           new == Len(posted) + 1
<1>1. /\ io[t].type = "process" /\ HasFrame /\ recvBuffer' = Rest(h) /\ parsed' = parsed + 1
      /\ UNCHANGED <<size, sent, wire, peer, reading, tmpBuf, io, handled, gone>>
      /\ ByteSet' = ByteSet /\ Jobs' = Jobs /\ Call' = Call
  BY SameSets DEF ParseFrame, stream
<1>2. \/ /\ Cardinality(DOMAIN fragments) = h.FragmentsCount
         /\ segments' = [n \in DOMAIN segments \ {m} |-> segments[n]]
         /\ Post(call)
      \/ /\ Cardinality(DOMAIN fragments) # h.FragmentsCount
         /\ segments' = [n \in DOMAIN segments \cup {m} |-> FragmentsCopy(n)]
         /\ UNCHANGED posted
  BY DEF ParseFrame
<1>3. /\ \A u \in Threads \ {t} : ~InChain(u)
      /\ ~reading /\ \A i \in DOMAIN posted : posted[i].type # "process"
      /\ InChain(t) /\ Executing("received") = {} /\ Executing("received")' = {}
  BY <1>1, ChainFacts DEF IInv, InChain, Executing
<1>4. /\ recvBuffer' \in Seq(ByteSet) /\ parsed + 1 \in 1..Len(sent)
      /\ h = sent[parsed + 1] /\ h \in FrameSet
      /\ Body(h) \in Seq(ByteSet)
      /\ Body(h) = [k \in 1..h.thisSize |-> Byte(parsed + 1, HeaderSize + k)]
      /\ Types' => InPlace'
  BY <1>1, <1>3, CutOff
<1> HIDE DEF h
<1>5. /\ m \in Messages /\ h.FragmentId \in Nat /\ h.FragmentsCount \in Nat
      /\ size[m] # 0 /\ size[m] \in Nat \ {0}
      /\ h.thisSize = ThisSize(size[m], h.FragmentId)
      /\ h.FragmentsCount = FragmentsCount(size[m])
      /\ h.FragmentsCount = 1 => h.FragmentId = 0
  <2>1. parsed + 1 \in DOMAIN sent
    BY <1>4 DEF IInv, Types
  <2>2. m \in Messages /\ h.FragmentId \in Nat /\ h.FragmentsCount \in Nat
    BY <1>4 DEF FrameSet
  <2> HIDE DEF m
  <2>3. size[m] \in Sizes \cup {0}
    BY <2>2 DEF IInv, Types
  <2>4. size[m] \in Nat
    <3>1. \A n \in Sizes \cup {0} : n \in Nat
      BY SessionAssumption
    <3> QED
      BY <2>3, <3>1
  <2>5. /\ size[m] # 0
        /\ h.thisSize = ThisSize(size[m], h.FragmentId)
        /\ h.FragmentsCount = FragmentsCount(size[m])
        /\ h.FragmentsCount = 1 => h.FragmentId = 0
    <3>1. h = sent[parsed + 1] /\ m = sent[parsed + 1].MessageId
      BY <1>4 DEF m
    <3>2. Types /\ FramesHonest
      BY DEF IInv
    <3> QED
      BY <2>1, <3>1, <3>2, FrameFacts
  <2> QED
    BY <2>2, <2>4, <2>5
<1>6. \A n : FragmentsCopy(n) = <<>>
  BY DEF FragmentsCopy, IInv, Types
<1>7. fragments = [g \in {h.FragmentId} |-> Body(h)] /\ Cardinality(DOMAIN fragments) = 1
  <2>1. DOMAIN <<>> = {}
    BY EmptySeq
  <2>2. fragments = [g \in {h.FragmentId} |-> Body(h)]
    BY <1>6, <2>1 DEF Emplaced
  <2> QED
    BY <2>2, FS_Singleton
<1>8. call = [type |-> "message", id |-> m, data |-> Body(h)]
  <2>1. merge_fragments([g \in {h.FragmentId} |-> Body(h)]) = Body(h)
    BY <1>4, <1>5, MergeOne
  <2> QED
    BY <1>7, <2>1
<1> HIDE DEF fragments, call, m
<1>9. call \in Jobs /\ call.type = "message" /\ call.id = m /\ call.data = Body(h)
  BY <1>4, <1>5, <1>8 DEF Jobs
<1>10. parsed \in Nat /\ parsed' \in 0..Len(sent) /\ parsed <= parsed' /\ parsed' \in Nat
       /\ parsed + 1 \in DOMAIN sent /\ DOMAIN sent = 1..Len(sent) /\ Len(sent) \in Nat
  BY <1>1, <1>4 DEF IInv, Types
<1>11. FramesHonest'
  BY <1>1 DEF IInv, FramesHonest
<1>12. ReadNeeded'
  BY <1>1, <1>3 DEF ReadNeeded
<1>13. ~gone /\ ~Ending
  BY <1>3 DEF IInv, Ended
<1>14. \A c : HonestIn(c, parsed, sent, size) => HonestIn(c, parsed', sent', size')
  <2> SUFFICES ASSUME NEW c, HonestIn(c, parsed, sent, size)
               PROVE  HonestIn(c, parsed', sent', size')
    OBVIOUS
  <2> QED
    BY <1>1, <1>10, HonestKept DEF IInv
<1>15. CASE h.FragmentsCount = 1
  <2>1. segments' = [n \in DOMAIN segments \ {m} |-> segments[n]] /\ Post(call)
    BY <1>2, <1>7, <1>15
  <2>2. /\ posted' \in Seq(Jobs) /\ Len(posted) \in Nat
        /\ DOMAIN posted = 1..Len(posted) /\ DOMAIN posted' = 1..new
        /\ posted'[new] = call
        /\ \A i \in DOMAIN posted : posted'[i] = posted[i]
        /\ \A i \in DOMAIN posted' : i \in DOMAIN posted \/ i = new
    BY <1>1, <1>9, <2>1, Posting DEF IInv
  <2> HIDE DEF new
  <2>3. Types'
    BY <1>1, <1>4, <1>10, <2>1, <2>2 DEF IInv, Types
  <2>4. Chain'
    BY <1>1, <1>3, <1>9, <2>2 DEF IInv, Chain, InChain
  <2>5. HonestIn(call, parsed', sent', size')
    <3>1. h.thisSize = size[m]
      <4>1. 0 < FragmentsCount(size[m])
        BY <1>5, <1>15
      <4> QED
        BY <1>5, <1>15, <4>1, FrameFits
    <3>2. call.data = [k \in 1..size[m] |-> Byte(parsed + 1, HeaderSize + k)]
      BY <1>4, <1>9, <3>1
    <3>3. sent[parsed + 1].MessageId = call.id /\ sent[parsed + 1].FragmentsCount = 1
      BY <1>4, <1>9, <1>15 DEF m
    <3>4. parsed + 1 \in 1..(parsed + 1)
      BY <1>10
    <3>5. HonestIn(call, parsed + 1, sent, size)
      BY <1>9, <3>2, <3>3, <3>4 DEF HonestIn
    <3> QED
      BY <1>1, <3>5
  <2>6. CallsHonest'
    <3>1. \A i \in DOMAIN posted : posted[i].type = "message" => HonestIn(posted[i], parsed', sent', size')
      BY <1>14 DEF IInv, CallsHonest, Honest
    <3>2. \A u \in Threads : io[u].type = "message" => HonestIn(io[u], parsed', sent', size')
      BY <1>14 DEF IInv, CallsHonest, Honest
    <3>3. \A i \in DOMAIN handled : HonestIn(handled[i], parsed', sent', size')
      BY <1>14 DEF IInv, CallsHonest, Honest
    <3>4. \A i \in DOMAIN posted' :
            posted'[i].type = "message" => HonestIn(posted'[i], parsed', sent', size')
      BY <2>2, <2>5, <3>1
    <3> QED
      BY <1>1, <3>2, <3>3, <3>4 DEF CallsHonest, Honest
  <2>7. CalledOnce'
    <3>1. ASSUME NEW c, HonestIn(c, parsed, sent, size) PROVE c.id # m
      <4>1. PICK i \in 1..parsed : sent[i].MessageId = c.id /\ sent[i].FragmentsCount = 1
        BY <3>1 DEF HonestIn
      <4>2. i \in DOMAIN sent /\ i # parsed + 1
        BY <1>10
      <4>3. sent[parsed + 1].MessageId = m
        BY <1>4 DEF m
      <4> QED
        BY <1>10, <4>1, <4>2, <4>3 DEF IInv, FramesHonest
    <3>2. /\ \A i \in DOMAIN posted : ~IsCall(posted[i], m)
          /\ \A u \in Threads : ~IsCall(io[u], m)
          /\ \A i \in DOMAIN handled : handled[i].id # m
      BY <3>1 DEF IInv, CallsHonest, Honest, IsCall
    <3>3. IsCall(call, m) /\ \A n : IsCall(call, n) => n = m
      BY <1>9 DEF IsCall
    <3> SUFFICES ASSUME NEW n \in Messages
                 PROVE  /\ \A i, j \in DOMAIN posted' : IsCall(posted'[i], n) /\ IsCall(posted'[j], n) => i = j
                        /\ \A u, v \in Threads : IsCall(io[u], n) /\ IsCall(io[v], n) => u = v
                        /\ \A i, j \in DOMAIN handled : handled[i].id = n /\ handled[j].id = n => i = j
                        /\ \A i \in DOMAIN posted', u \in Threads : ~(IsCall(posted'[i], n) /\ IsCall(io[u], n))
                        /\ \A i \in DOMAIN posted', j \in DOMAIN handled :
                              ~(IsCall(posted'[i], n) /\ handled[j].id = n)
                        /\ \A u \in Threads, j \in DOMAIN handled : ~(IsCall(io[u], n) /\ handled[j].id = n)
      BY <1>1 DEF CalledOnce, IsCall
    <3>4. /\ \A i, j \in DOMAIN posted : IsCall(posted[i], n) /\ IsCall(posted[j], n) => i = j
          /\ \A u, v \in Threads : IsCall(io[u], n) /\ IsCall(io[v], n) => u = v
          /\ \A i, j \in DOMAIN handled : handled[i].id = n /\ handled[j].id = n => i = j
          /\ \A i \in DOMAIN posted, u \in Threads : ~(IsCall(posted[i], n) /\ IsCall(io[u], n))
          /\ \A i \in DOMAIN posted, j \in DOMAIN handled : ~(IsCall(posted[i], n) /\ handled[j].id = n)
          /\ \A u \in Threads, j \in DOMAIN handled : ~(IsCall(io[u], n) /\ handled[j].id = n)
      BY DEF IInv, CalledOnce
    <3>5. \A i \in DOMAIN posted' : IsCall(posted'[i], n) =>
            (i \in DOMAIN posted /\ IsCall(posted[i], n)) \/ (i = new /\ n = m)
      BY <2>2, <3>3
    <3> QED
      BY <3>2, <3>4, <3>5
  <2>8. Ended'
    <3>1. ~gone' /\ \A i \in DOMAIN posted' : posted'[i].type # "disconnect"
      BY <1>1, <1>9, <1>13, <2>2 DEF Ending
    <3> QED
      BY <3>1 DEF Ended, Ending
  <2> QED
    BY <1>4, <1>11, <1>12, <2>3, <2>4, <2>6, <2>7, <2>8 DEF IInv
<1>16. CASE h.FragmentsCount # 1
  <2>1. segments' = [n \in DOMAIN segments \cup {m} |-> FragmentsCopy(n)] /\ UNCHANGED posted
    BY <1>2, <1>7, <1>16
  <2>2. Types'
    BY <1>1, <1>4, <1>5, <1>6, <1>10, <2>1 DEF IInv, Types
  <2>3. Chain' /\ Ended'
    BY <1>1, <1>3, <1>13, <2>1 DEF IInv, Chain, InChain, Ended, Ending
  <2>4. CalledOnce'
    BY <1>1, <2>1 DEF IInv, CalledOnce, IsCall
  <2>5. CallsHonest'
    BY <1>1, <1>14, <2>1 DEF IInv, CallsHonest, Honest
  <2> QED
    BY <1>4, <1>11, <1>12, <2>2, <2>3, <2>4, <2>5 DEF IInv
<1> QED
  BY <1>15, <1>16

LEMMA HandleStep ==
  ASSUME IInv, NEW t \in Threads, Handle(t)
  PROVE  IInv'
<1> DEFINE L == Len(handled)
           call == [id |-> io[t].id, data |-> io[t].data]
<1>1. /\ io[t].type \in {"message", "disconnect"} /\ Run(t, Task("idle"))
      /\ handled' = IF io[t].type = "message" THEN Append(handled, call) ELSE handled
      /\ UNCHANGED <<size, sent, wire, peer, reading, tmpBuf, recvBuffer, segments, posted, parsed, gone>>
      /\ ByteSet' = ByteSet /\ Jobs' = Jobs /\ Call' = Call
  BY SameSets DEF Handle, stream
<1>2. /\ io' \in [Threads -> Jobs \cup {Task("idle"), Task("received")}]
      /\ io'[t].type = "idle" /\ \A u \in Threads \ {t} : io'[u] = io[u]
  BY <1>1, Kinds DEF IInv, Types, Run
<1>3. \A u \in Threads : InChain(u)' <=> InChain(u)
  BY <1>1, <1>2 DEF InChain
<1>4. FramesHonest' /\ Chain' /\ ReadNeeded' /\ Ended'
  BY <1>1, <1>3 DEF IInv, FramesHonest, Chain, ReadNeeded, HasFrame, Header, Ended, Ending
<1>5. InPlace'
  <2>1. Executing("received")' = Executing("received")
    BY <1>1, <1>2 DEF Executing
  <2> QED
    BY <1>1, <2>1, SameStream DEF IInv, Stream, Unparsed
<1>6. \A u \in Threads : io'[u].type = "message" => u # t /\ io'[u] = io[u]
  BY <1>2
<1>7. CASE io[t].type = "disconnect"
  <2>1. handled' = handled
    BY <1>1, <1>7
  <2>2. Types'
    BY <1>1, <1>2, <2>1 DEF IInv, Types
  <2>3. CallsHonest' /\ CalledOnce'
    BY <1>1, <1>6, <2>1, SameCalls DEF IInv
  <2> QED
    BY <1>4, <1>5, <2>2, <2>3 DEF IInv
<1>8. CASE io[t].type = "message"
  <2>1. io[t].id \in Messages /\ io[t].data \in Seq(ByteSet) /\ call \in Call
    <3>1. io[t] \in Jobs \cup {Task("idle"), Task("received")}
      BY DEF IInv, Types
    <3>2. io[t] \in [type : {"message"}, id : Messages, data : Seq(ByteSet)]
      BY <1>8, <3>1 DEF Jobs, Task
    <3> QED
      BY <3>2 DEF Call
  <2>2. call.id = io[t].id /\ call.data = io[t].data
    OBVIOUS
  <2>3. /\ handled' \in Seq(Call) /\ L \in Nat /\ DOMAIN handled = 1..L /\ DOMAIN handled' = 1..(L + 1)
        /\ handled'[L + 1] = call
        /\ \A i \in DOMAIN handled : handled'[i] = handled[i]
        /\ \A i \in DOMAIN handled' : i \in DOMAIN handled \/ i = L + 1
    <3>1. handled \in Seq(Call) /\ handled' = Append(handled, call)
      BY <1>1, <1>8 DEF IInv, Types
    <3> HIDE DEF call
    <3>2. L \in Nat /\ DOMAIN handled = 1..L
      BY <3>1
    <3>3. /\ handled' \in Seq(Call) /\ Len(handled') = L + 1 /\ handled'[L + 1] = call
          /\ \A i \in 1..L : handled'[i] = handled[i]
      BY <2>1, <3>1, AppendProperties
    <3> QED
      BY <3>2, <3>3
  <2> HIDE DEF call, L
  <2>4. Types'
    BY <1>1, <1>2, <2>3 DEF IInv, Types
  <2>5. CallsHonest'
    <3>1. HonestIn(io[t], parsed, sent, size)
      BY <1>8 DEF IInv, CallsHonest, Honest
    <3>2. HonestIn(call, parsed, sent, size)
      BY <2>2, <3>1 DEF HonestIn
    <3>3. \A i \in DOMAIN handled' : HonestIn(handled'[i], parsed, sent, size)
      BY <2>3, <3>2 DEF IInv, CallsHonest, Honest
    <3>4. \A u \in Threads : io'[u].type = "message" => HonestIn(io'[u], parsed, sent, size)
      BY <1>6 DEF IInv, CallsHonest, Honest
    <3>5. \A i \in DOMAIN posted : posted[i].type = "message" => HonestIn(posted[i], parsed, sent, size)
      BY DEF IInv, CallsHonest, Honest
    <3> QED
      BY <1>1, <3>3, <3>4, <3>5 DEF CallsHonest, Honest
  <2>6. CalledOnce'
    <3> SUFFICES ASSUME NEW n \in Messages
                 PROVE  /\ \A i, j \in DOMAIN posted : IsCall(posted[i], n) /\ IsCall(posted[j], n) => i = j
                        /\ \A u, v \in Threads : IsCall(io'[u], n) /\ IsCall(io'[v], n) => u = v
                        /\ \A i, j \in DOMAIN handled' : handled'[i].id = n /\ handled'[j].id = n => i = j
                        /\ \A i \in DOMAIN posted, u \in Threads : ~(IsCall(posted[i], n) /\ IsCall(io'[u], n))
                        /\ \A i \in DOMAIN posted, j \in DOMAIN handled' :
                              ~(IsCall(posted[i], n) /\ handled'[j].id = n)
                        /\ \A u \in Threads, j \in DOMAIN handled' : ~(IsCall(io'[u], n) /\ handled'[j].id = n)
      BY <1>1 DEF CalledOnce, IsCall
    <3>1. /\ \A i, j \in DOMAIN posted : IsCall(posted[i], n) /\ IsCall(posted[j], n) => i = j
          /\ \A u, v \in Threads : IsCall(io[u], n) /\ IsCall(io[v], n) => u = v
          /\ \A i, j \in DOMAIN handled : handled[i].id = n /\ handled[j].id = n => i = j
          /\ \A i \in DOMAIN posted, u \in Threads : ~(IsCall(posted[i], n) /\ IsCall(io[u], n))
          /\ \A i \in DOMAIN posted, j \in DOMAIN handled : ~(IsCall(posted[i], n) /\ handled[j].id = n)
          /\ \A u \in Threads, j \in DOMAIN handled : ~(IsCall(io[u], n) /\ handled[j].id = n)
      BY DEF IInv, CalledOnce
    <3>2. \A u \in Threads : IsCall(io'[u], n) => u # t /\ IsCall(io[u], n)
      BY <1>6 DEF IsCall
    <3>3. \A j \in DOMAIN handled' : handled'[j].id = n =>
            (j \in DOMAIN handled /\ handled[j].id = n) \/ (j = L + 1 /\ IsCall(io[t], n))
      BY <1>8, <2>2, <2>3 DEF IsCall
    <3> QED
      BY <3>1, <3>2, <3>3
  <2> QED
    BY <1>4, <1>5, <2>4, <2>5, <2>6 DEF IInv
<1> QED
  BY <1>1, <1>7, <1>8

-----------------------------------------------------------------------------
(* The invariant, and what it says *)

LEMMA NextIInv ==
  ASSUME IInv, [Next]_vars
  PROVE  IInv'
<1>1. CASE UNCHANGED vars
  <2>1. /\ UNCHANGED <<size, sent, wire, peer, reading, tmpBuf, recvBuffer, segments, posted, io,
                       parsed, handled, gone>>
        /\ ByteSet' = ByteSet /\ Jobs' = Jobs /\ Call' = Call
    BY <1>1, SameSets DEF vars, stream
  <2>2. Executing("received")' = Executing("received")
    BY <2>1 DEF Executing
  <2>3. InPlace'
    BY <2>1, <2>2, SameStream DEF IInv, Stream, Unparsed
  <2>4. Types' /\ FramesHonest'
    BY <2>1 DEF IInv, Types, FramesHonest
  <2>5. Chain' /\ ReadNeeded' /\ Ended'
    BY <2>1 DEF IInv, Chain, InChain, ReadNeeded, HasFrame, Header, Ended, Ending
  <2>6. CallsHonest' /\ CalledOnce'
    BY <2>1 DEF IInv, CallsHonest, Honest, CalledOnce, IsCall
  <2> QED
    BY <2>3, <2>4, <2>5, <2>6 DEF IInv
<1>2. CASE PeerSteps
  BY <1>2, SendStep, HangupStep DEF PeerSteps
<1>3. ASSUME NEW t \in Threads, IoThread(t) PROVE IInv'
  BY <1>3, ReadSomeStep, ReceivedStep, ReadEofStep, ReadErrorStep, StartStep, ParseFrameStep,
     ReadOnStep, HandleStep DEF IoThread
<1> QED
  BY <1>1, <1>2, <1>3 DEF Next

\* The state invariant all the rest follows from.
THEOREM Invariant == Spec => []IInv
  BY InitIInv, NextIInv, PTL DEF Spec

\* A set any two elements of which are equal has at most one.
LEMMA AtMostOne ==
  ASSUME NEW S, \A x, y \in S : x = y
  PROVE  Cardinality(S) \in {0, 1} /\ (S = {} => Cardinality(S) = 0) /\ Cardinality(S) <= 1
<1>1. CASE S = {}
  BY <1>1, FS_EmptySet
<1>2. CASE S # {}
  <2>1. PICK x \in S : TRUE
    BY <1>2
  <2>2. S = {x}
    BY <2>1
  <2> QED
    BY <1>2, <2>2, FS_Singleton
<1> QED
  BY <1>1, <1>2

LEMMA IsTypeOK == IInv => TypeOK
<1> SUFFICES ASSUME IInv PROVE TypeOK
  OBVIOUS
<1>1. /\ size \in [Messages -> Sizes \cup {0}]
      /\ sent \in Seq(FrameSet)
      /\ {wire, tmpBuf, recvBuffer} \subseteq Seq(ByteSet)
      /\ peer \in {"open", "closed", "reset"}
      /\ {reading, gone} \subseteq BOOLEAN
      /\ \A m \in DOMAIN segments : m \in Messages /\ segments[m] = <<>>
      /\ parsed \in 0..Len(sent)
      /\ handled \in Seq(Call)
  BY DEF IInv, Types
<1>2. \A job \in Jobs : job.type \in {"process", "message", "disconnect"}
  BY DEF Jobs, Task
<1>3. \A i \in DOMAIN posted : posted[i].type \in {"process", "message", "disconnect"}
  <2>1. posted \in Seq(Jobs)
    BY DEF IInv, Types
  <2> QED
    BY <1>2, <2>1
<1>4. \A t \in Threads : io[t].type \in {"idle", "received", "process", "message", "disconnect"}
  <2> TAKE t \in Threads
  <2>1. io[t] \in Jobs \cup {Task("idle"), Task("received")}
    BY DEF IInv, Types
  <2> QED
    BY <1>2, <2>1 DEF Task
<1> QED
  BY <1>1, <1>3, <1>4 DEF TypeOK, FrameSet, ByteSet, Call

LEMMA IsFramed == IInv => Framed
<1> SUFFICES ASSUME IInv PROVE Framed
  OBVIOUS
<1>1. Stream \in Seq(ByteSet) /\ Len(Stream) \in Nat
  BY StreamType DEF IInv, StreamFacts, BytesOf, ByteSet
<1>2. Stream = Unparsed \o wire
  BY DEF Stream
<1>3. Stream # <<>> => Head(Stream) = Byte(parsed + 1, 1)
  BY <1>1 DEF IInv, InPlace, Placed
<1>4. \A i \in 1..(Len(Stream) - 1) : Follows(Stream[i], Stream[i + 1])
  BY DEF IInv, InPlace, Placed, Follows, LastByte, End
<1>5. peer # "reset" => IF Stream = <<>> THEN parsed = Len(sent)
                        ELSE Stream[Len(Stream)] = Byte(Len(sent), LastByte(Len(sent)))
  BY DEF IInv, InPlace, Whole, LastByte, End
<1> QED
  BY <1>2, <1>3, <1>4, <1>5 DEF Framed

LEMMA IsChainAlone == IInv => ChainAlone
<1> SUFFICES ASSUME IInv PROVE ChainAlone
  OBVIOUS
<1> DEFINE R == Executing("received")
           P == Executing("process")
           Q == {i \in DOMAIN posted : posted[i].type = "process"}
           n == IF reading THEN 1 ELSE 0
<1>1. Chain
  BY DEF IInv
<1>2. /\ \A x, y \in R : x = y
      /\ \A x, y \in P : x = y
      /\ \A x, y \in Q : x = y
  BY <1>1 DEF Chain, InChain, Executing
<1>3. /\ Cardinality(R) \in {0, 1} /\ (R = {} => Cardinality(R) = 0)
      /\ Cardinality(P) \in {0, 1} /\ (P = {} => Cardinality(P) = 0)
      /\ Cardinality(Q) \in {0, 1} /\ (Q = {} => Cardinality(Q) = 0)
  BY <1>2, AtMostOne
<1>4. /\ reading => R = {} /\ P = {} /\ Q = {}
      /\ R = {} \/ P = {}
      /\ Q = {} \/ (R = {} /\ P = {})
  <2>1. reading => R = {} /\ P = {} /\ Q = {}
    BY <1>1 DEF Chain, InChain, Executing
  <2>2. R = {} \/ P = {}
    <3> SUFFICES ASSUME NEW t \in R, NEW u \in P PROVE FALSE
      OBVIOUS
    <3>1. t \in Threads /\ io[t].type = "received" /\ u \in Threads /\ io[u].type = "process"
      BY DEF Executing
    <3> QED
      BY <1>1, <3>1 DEF Chain, InChain
  <2>3. Q = {} \/ (R = {} /\ P = {})
    BY <1>1 DEF Chain, InChain, Executing
  <2> QED
    BY <2>1, <2>2, <2>3
<1>5. n \in {0, 1} /\ (reading \/ n = 0)
  OBVIOUS
<1> HIDE DEF R, P, Q, n
<1>6. n + Cardinality(R) + Cardinality(P) + Cardinality(Q) <= 1
  BY <1>3, <1>4, <1>5
<1> QED
  BY <1>6 DEF ChainAlone, R, P, Q, n

LEMMA IsHandledWholeAndOnce == IInv => HandledWholeAndOnce
<1> SUFFICES ASSUME IInv, NEW m \in Messages
             PROVE  /\ Cardinality(Calls(m)) <= 1
                    /\ \A c \in Calls(m) : \E i \in FramesOf(m) :
                         c[3] = [k \in 1..size[m] |-> Byte(i, HeaderSize + k)]
  BY DEF HandledWholeAndOnce
<1> DEFINE InQueue(c) == \E i \in DOMAIN posted :
                           IsCall(posted[i], m) /\ c = <<"posted", i, posted[i].data>>
           Running(c)  == \E t \in Threads : IsCall(io[t], m) /\ c = <<"io", t, io[t].data>>
           Made(c)     == \E i \in DOMAIN handled :
                            handled[i].id = m /\ c = <<"handled", i, handled[i].data>>
<1>1. \A c \in Calls(m) : InQueue(c) \/ Running(c) \/ Made(c)
  BY DEF Calls, IsCall, Executing
<1>2. CalledOnce
  BY DEF IInv
<1>3. \A c, d \in Calls(m) : c = d
  <2> SUFFICES ASSUME NEW c \in Calls(m), NEW d \in Calls(m) PROVE c = d
    OBVIOUS
  <2>1. CASE InQueue(c)
    BY <1>1, <1>2, <2>1 DEF CalledOnce
  <2>2. CASE Running(c)
    BY <1>1, <1>2, <2>2 DEF CalledOnce
  <2>3. CASE Made(c)
    BY <1>1, <1>2, <2>3 DEF CalledOnce
  <2> QED
    BY <1>1, <2>1, <2>2, <2>3
<1>4. ASSUME NEW call, call.id = m, Honest(call)
      PROVE  \E i \in FramesOf(m) : call.data = [k \in 1..size[m] |-> Byte(i, HeaderSize + k)]
  <2>1. PICK i \in 1..parsed : /\ sent[i].MessageId = m
                               /\ call.data = [k \in 1..size[m] |-> Byte(i, HeaderSize + k)]
    BY <1>4 DEF Honest, HonestIn
  <2>2. i \in DOMAIN sent
    BY DEF IInv, Types
  <2> QED
    BY <2>1, <2>2 DEF FramesOf
<1>5. ASSUME NEW c \in Calls(m)
      PROVE  \E i \in FramesOf(m) : c[3] = [k \in 1..size[m] |-> Byte(i, HeaderSize + k)]
  <2>1. CASE InQueue(c)
    <3>1. PICK i \in DOMAIN posted : IsCall(posted[i], m) /\ c = <<"posted", i, posted[i].data>>
      BY <2>1
    <3>2. posted[i].id = m /\ Honest(posted[i]) /\ c[3] = posted[i].data
      BY <3>1 DEF IInv, CallsHonest, IsCall
    <3> QED
      BY <1>4, <3>2
  <2>2. CASE Running(c)
    <3>1. PICK t \in Threads : IsCall(io[t], m) /\ c = <<"io", t, io[t].data>>
      BY <2>2
    <3>2. io[t].id = m /\ Honest(io[t]) /\ c[3] = io[t].data
      BY <3>1 DEF IInv, CallsHonest, IsCall
    <3> QED
      BY <1>4, <3>2
  <2>3. CASE Made(c)
    <3>1. PICK i \in DOMAIN handled : handled[i].id = m /\ c = <<"handled", i, handled[i].data>>
      BY <2>3
    <3>2. Honest(handled[i]) /\ c[3] = handled[i].data
      BY <3>1 DEF IInv, CallsHonest
    <3> QED
      BY <1>4, <3>1, <3>2
  <2> QED
    BY <1>1, <2>1, <2>2, <2>3
<1> QED
  BY <1>3, <1>5, AtMostOne

\* However the network cuts the stream, whichever io threads the handlers run
\* on and however long the messages are: process_data never loses its place, at
\* most one link of the chain read - parse - read exists at a time, and what
\* data_handler is called with is the body of a message, once.
THEOREM StreamStaysIntact == Spec => []StreamIntact
<1>1. IInv => StreamIntact
  BY IsTypeOK, IsFramed, IsChainAlone, IsHandledWholeAndOnce DEF StreamIntact
<1> QED
  BY <1>1, Invariant, PTL

\* Once data_handler was told of the end of the connection, nothing of the
\* stream is still to be read, parsed or handed over: on_disconnected may let
\* go of the session.
THEOREM NothingComesAfterDisconnect == Spec => []NothingAfterDisconnect
<1>1. IInv => NothingAfterDisconnect
  BY DEF IInv, Ended, InChain, NothingAfterDisconnect, Executing
<1> QED
  BY <1>1, Invariant, PTL
=============================================================================
