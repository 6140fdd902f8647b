-------------------------- MODULE OneSender_proofs --------------------------
(***************************************************************************)
(* Two Transfer machines when the user at one end only sends: what is said *)
(* to be finished was kept, rows are freed, one partition at most is on    *)
(* its way, and once nothing is, both ends agree on what they wait for.    *)
(*                                                                         *)
(* The ends then take turns.  Between the frames that ask for an answer,   *)
(* a request or the end of a partition, and the answer, one end has        *)
(* nothing to do and nothing else is on the channel.                       *)
(***************************************************************************)
EXTENDS Transfer_proofs, FiniteSetTheorems

-----------------------------------------------------------------------------
(* Frames as sets.                                                         *)

LEMMA FramesIndexed ==
  ASSUME NEW s \in Seq(Message)
  PROVE  /\ DOMAIN s = 1..Len(s) /\ Len(s) \in Nat
         /\ ToSet(s) = {s[i] : i \in 1..Len(s)}
         /\ ToSet(s) \subseteq Message
<1>1. DOMAIN s = 1..Len(s) /\ Len(s) \in Nat /\ \A i \in 1..Len(s) : s[i] \in Message
  BY LenProperties, ElementOfSeq
<1> QED
  BY <1>1 DEF ToSet

LEMMA FramesEmpty == ToSet(<<>>) = {}
BY DEF ToSet

LEMMA FramesOne ==
  ASSUME NEW m \in Message
  PROVE  <<m>> \in Seq(Message) /\ ToSet(<<m>>) = {m}
BY DEF ToSet

LEMMA FramesConcat ==
  ASSUME NEW s \in Seq(Message), NEW t \in Seq(Message)
  PROVE  s \o t \in Seq(Message) /\ ToSet(s \o t) = ToSet(s) \union ToSet(t)
<1>1. PICK u \in Seq(Message) : u = s \o t
  BY ConcatProperties
<1>2. /\ Len(u) = Len(s) + Len(t) /\ Len(s) \in Nat /\ Len(t) \in Nat
      /\ \A i \in 1..Len(s) : u[i] = s[i]
      /\ \A i \in 1..Len(t) : u[Len(s) + i] = t[i]
  BY <1>1, ConcatProperties, LenProperties
<1>3. \A i \in 1..Len(u) : i \in 1..Len(s) \/ (i - Len(s) \in 1..Len(t) /\ i = Len(s) + (i - Len(s)))
  BY <1>2
<1>4. \A i \in 1..Len(u) : u[i] \in ToSet(s) \union ToSet(t)
  <2>1. /\ \A i \in 1..Len(s) : s[i] \in ToSet(s)
        /\ \A i \in 1..Len(t) : t[i] \in ToSet(t)
    BY FramesIndexed
  <2> SUFFICES ASSUME NEW i \in 1..Len(u) PROVE u[i] \in ToSet(s) \union ToSet(t)
    OBVIOUS
  <2>2. CASE i \in 1..Len(s)
    BY <1>2, <2>1, <2>2
  <2>3. CASE i \notin 1..Len(s)
    <3>1. PICK k \in 1..Len(t) : i = Len(s) + k
      BY <1>3, <2>3
    <3> QED
      BY <1>2, <2>1, <3>1
  <2> QED
    BY <2>2, <2>3
<1>5. \A i \in 1..Len(s) : i \in 1..Len(u)
  BY <1>2
<1>6. \A i \in 1..Len(t) : Len(s) + i \in 1..Len(u)
  BY <1>2
<1>7. ToSet(s) \subseteq ToSet(u) /\ ToSet(t) \subseteq ToSet(u)
  <2>1. ToSet(s) \subseteq ToSet(u)
    BY <1>2, <1>5, FramesIndexed
  <2>2. \A i \in 1..Len(t) : t[i] \in ToSet(u)
    BY <1>2, <1>6, FramesIndexed
  <2>3. ToSet(t) \subseteq ToSet(u)
    BY <2>2, FramesIndexed
  <2> QED
    BY <2>1, <2>3
<1>8. ToSet(u) \subseteq ToSet(s) \union ToSet(t)
  BY <1>4, FramesIndexed
<1> QED
  BY <1>1, <1>7, <1>8

LEMMA FramesTail ==
  ASSUME NEW s \in Seq(Message), s # <<>>
  PROVE  /\ Tail(s) \in Seq(Message) /\ Head(s) \in Message
         /\ ToSet(s) = {Head(s)} \union ToSet(Tail(s))
         /\ Len(s) \in Nat /\ Len(s) >= 1 /\ Len(Tail(s)) = Len(s) - 1
         /\ Head(s) = s[1]
         /\ \A i \in 1..Len(Tail(s)) : i + 1 \in 1..Len(s) /\ Tail(s)[i] = s[i + 1]
<1>1. PICK u \in Seq(Message) : u = Tail(s)
  BY HeadTailProperties
<1>2. /\ Head(s) \in Message /\ Len(s) \in Nat /\ Len(s) >= 1 /\ Len(u) = Len(s) - 1
      /\ Head(s) = s[1] /\ \A i \in 1..Len(u) : u[i] = s[i + 1]
  BY <1>1, HeadTailProperties, EmptySeq, LenProperties
<1>3. \A i \in 1..Len(u) : i + 1 \in 1..Len(s)
  BY <1>2
<1>4. \A i \in 1..Len(s) : i = 1 \/ (i - 1 \in 1..Len(u) /\ i = (i - 1) + 1)
  BY <1>2
<1>5. 1 \in 1..Len(s)
  BY <1>2
<1>6. ToSet(s) \subseteq {Head(s)} \union ToSet(u)
  <2>1. ToSet(s) = {s[i] : i \in 1..Len(s)} /\ ToSet(u) = {u[i] : i \in 1..Len(u)}
    BY FramesIndexed
  <2>2. ASSUME NEW i \in 1..Len(s) PROVE s[i] = Head(s) \/ \E k \in 1..Len(u) : s[i] = u[k]
    <3>1. i = 1 \/ \E k \in 1..Len(u) : i = k + 1
      BY <1>4
    <3> QED
      BY <1>2, <3>1
  <2> QED
    BY <2>1, <2>2
<1>7. {Head(s)} \union ToSet(u) \subseteq ToSet(s)
  BY <1>2, <1>3, <1>5, FramesIndexed
<1> QED
  BY <1>1, <1>2, <1>3, <1>6, <1>7

LEMMA FramesPrefix ==
  ASSUME NEW s \in Seq(Message), NEW n \in 0..Len(s)
  PROVE  /\ SubSeq(s, 1, n) \in Seq(Message) /\ Len(SubSeq(s, 1, n)) = n
         /\ \A i \in 1..n : i \in 1..Len(s) /\ SubSeq(s, 1, n)[i] = s[i]
         /\ ToSet(SubSeq(s, 1, n)) \subseteq ToSet(s)
<1>1. Len(s) \in Nat /\ n \in Nat /\ n <= Len(s)
  BY LenProperties
<1>2. PICK u : u = SubSeq(s, 1, n)
  OBVIOUS
<1>3. u \in Seq(Message) /\ Len(u) = n /\ \A i \in 1..n : u[i] = s[i]
  BY <1>1, <1>2, SubSeqProperties
<1>4. \A i \in 1..n : i \in 1..Len(s)
  BY <1>1
<1>5. ToSet(u) \subseteq ToSet(s)
  <2>1. ToSet(s) = {s[i] : i \in 1..Len(s)} /\ ToSet(u) = {u[i] : i \in 1..n}
    BY <1>3, FramesIndexed
  <2> QED
    BY <1>3, <1>4, <2>1
<1> QED
  BY <1>2, <1>3, <1>4, <1>5


-----------------------------------------------------------------------------
(* The invariant: what holds of p, which may send, and q at the other end, *)
(* whose user does not.                                                    *)

\* What p writes, and what q answers.
Outgoing == {"Request", "Header", "Chunk", "Partition", "Closed"}
Answer == {"Response", "PartitionReceived", "FileTransferComplete"}

Carries(s, type) == \E m \in ToSet(s) : m.type = type
Answering(s) == \E m \in ToSet(s) : m.type \in Answer

Roles(p, q) ==
  /\ \A m \in ToSet(net[q]) : m.type \in Outgoing
  /\ \A m \in ToSet(net[p]) : m.type \in Answer \union {"Progress", "Closed"}
  /\ activity[p] \in {"Idle", "AwaitingResponse", "Sending"}
  /\ activity[q] \in {"Idle", "IncomingRequest", "Receiving"}
  /\ rcv[p].pending = <<>>

\* The loss of the channel is the last an end hears.
ClosedLast(s, open) == \A i \in 1..Len(s) : s[i].type = "Closed" => ~open /\ i = Len(s)

\* The files of the batch asked for, or under way, are those of the manifest.
Batch(p) ==
  /\ \A i \in 1..Len(snd[p].offered) :
       /\ snd[p].offered[i].size = Size[snd[p].offered[i].name]
       /\ snd[p].offered[i].size > 0
  /\ activity[p] = "AwaitingResponse" =>
       snd[p].offered # <<>> /\ snd[p].requested = Names(snd[p].offered)
  /\ activity[p] = "Sending" =>
       /\ snd[p].chunker # None
       /\ Len(snd[p].queue) + snd[p].filesSent + 1 = Len(snd[p].offered)
       /\ \A i \in 1..Len(snd[p].queue) :
            snd[p].queue[i] = snd[p].offered[snd[p].filesSent + 1 + i].name

\* The files saved last are the first n of the manifest.
Kept(files, manifest, n) ==
  /\ n <= Len(files)
  /\ \A k \in 1..n : files[Len(files) - n + k].header = manifest[k]

Unread(half) == half.chunker.offset < half.chunker.size

OneAnswer(s) ==
  \A i, j \in 1..Len(s) : s[i].type \in Answer /\ s[j].type \in Answer => i = j

\* What an answer on its way to p tells: where p is, and what q has done.
Tells(m, p, q) ==
  /\ m.type = "Response" =>
       /\ activity[p] = "AwaitingResponse"
       /\ up => rcv[q].pending = <<>>
       /\ up /\ m.accepted =>
            /\ rcv[q].accepted = snd[p].offered /\ rcv[q].received = <<>>
            /\ rcv[q].receiver = None
  /\ m.type = "PartitionReceived" => activity[p] = "Sending" /\ Unread(snd[p])
  /\ m.type = "FileTransferComplete" =>
       /\ activity[p] = "Sending" /\ ~Unread(snd[p])
       /\ rcv[q].receiver = None
       /\ Kept(saved[q], snd[p].offered, snd[p].filesSent + 1)

\* An answer is the only one, and all there is on the channel.
Answered(p, q) ==
  /\ OneAnswer(net[p])
  /\ Answering(net[p]) => \A m \in ToSet(net[q]) : m.type = "Closed"
  /\ \A m \in ToSet(net[p]) : Tells(m, p, q)

\* A header comes first, and what asks for an answer last.
Shape(s) ==
  \A j \in 1..Len(s) : /\ s[j].type = "Header" => j = 1
                       /\ s[j].type \in {"Request", "Partition"} => j = Len(s)

Begun(half) == [name |-> half.chunker.name, size |-> half.chunker.size]

\* On an open channel, what is on its way to q, or waits for its user.
Asking(p, q) ==
  /\ Shape(net[q])
  /\ \A m \in ToSet(net[q]) :
       /\ m.type = "Request" =>
            /\ activity[p] = "AwaitingResponse" /\ m.manifest = snd[p].offered
            /\ rcv[q].pending = <<>>
       /\ m.type = "Partition" => activity[p] = "Sending" /\ Unread(snd[p])
       /\ m.type = "Chunk" => activity[p] = "Sending"
       /\ m.type = "Header" /\ activity[p] = "Sending" => m.header = Begun(snd[p])
  /\ rcv[q].pending # <<>> =>
       /\ activity[p] = "AwaitingResponse" /\ rcv[q].pending = snd[p].offered
       /\ net[q] = <<>> /\ ~Answering(net[p])

\* The last chunk on its way is the last that was read, of a file that did not shrink.
LastChunk(s, half, exact) ==
  \A j \in 1..Len(s) :
    s[j].type = "Chunk" /\ (j < Len(s) => s[j + 1].type # "Chunk") =>
      s[j].chunk[2] = half.chunker.offset \/ (~exact /\ ~Unread(half))

\* On an open channel, q knows only of the batch that p sends and is as far with it.
Engaged(p, q) ==
  activity[p] = "Sending" =>
    /\ LastChunk(net[q], snd[p], Faultless)
    /\ rcv[q].accepted # <<>> =>
         /\ rcv[q].accepted = snd[p].offered
         /\ Len(rcv[q].received) = snd[p].filesSent +
              (IF Carries(net[p], "FileTransferComplete") THEN 1 ELSE 0)
    /\ rcv[q].receiver # None => rcv[q].receiver.header = Begun(snd[p])

KeptSoFar(q) ==
  rcv[q].accepted # <<>> => Kept(saved[q], rcv[q].received, Len(rcv[q].received))

Turns(p, q) ==
  /\ Roles(p, q)
  /\ ClosedLast(net[p], up) /\ ClosedLast(net[q], up)
  /\ Batch(p)
  /\ Answered(p, q)
  /\ KeptSoFar(q)
  /\ up => Asking(p, q) /\ Engaged(p, q)

\* The ends whose peer does not send.
TakeTurns == \A p \in Peer : Other(p) \notin Senders => Turns(p, Other(p))

-----------------------------------------------------------------------------
(* What frames that are taken, written or lost do to the invariant's parts. *)

LEMMA OneAnswerTail ==
  ASSUME NEW s \in Seq(Message), s # <<>>, OneAnswer(s)
  PROVE  OneAnswer(Tail(s)) /\ (Head(s).type \in Answer => ~Answering(Tail(s)))
<1>1. PICK u \in Seq(Message) : u = Tail(s)
  BY FramesTail
<1>2. /\ Head(s) = s[1] /\ Len(s) \in Nat /\ 1 \in 1..Len(s) /\ Len(u) \in Nat
      /\ \A i \in 1..Len(u) : i + 1 \in 1..Len(s) /\ u[i] = s[i + 1] /\ i + 1 # 1
  BY <1>1, FramesTail
<1>3. OneAnswer(u)
  <2> SUFFICES ASSUME NEW i \in 1..Len(u), NEW j \in 1..Len(u),
                      u[i].type \in Answer, u[j].type \in Answer
               PROVE  i = j
    BY DEF OneAnswer
  <2>1. i + 1 = j + 1
    BY <1>2 DEF OneAnswer
  <2> QED
    BY <2>1
<1>4. ASSUME Head(s).type \in Answer PROVE ~Answering(u)
  <2>1. \A i \in 1..Len(u) : u[i].type \notin Answer
    BY <1>2, <1>4 DEF OneAnswer
  <2> QED
    BY <2>1, FramesIndexed DEF Answering
<1> QED
  BY <1>1, <1>3, <1>4

LEMMA NoAnswerIsOne ==
  ASSUME NEW s \in Seq(Message), ~Answering(s)
  PROVE  OneAnswer(s)
BY FramesIndexed DEF Answering, OneAnswer

LEMMA OneAnswerConcat ==
  ASSUME NEW s \in Seq(Message), NEW t \in Seq(Message), ~Answering(s), OneAnswer(t)
  PROVE  OneAnswer(s \o t)
<1>1. PICK u \in Seq(Message) : u = s \o t
  BY ConcatProperties
<1>2. /\ Len(u) = Len(s) + Len(t) /\ Len(s) \in Nat /\ Len(t) \in Nat
      /\ \A i \in 1..Len(s) : u[i] = s[i]
      /\ \A i \in 1..Len(t) : u[Len(s) + i] = t[i]
  BY <1>1, ConcatProperties, LenProperties
<1>3. \A i \in 1..Len(s) : u[i].type \notin Answer
  BY <1>2, FramesIndexed DEF Answering
<1>4. ASSUME NEW i \in 1..Len(u), NEW j \in 1..Len(u), u[i].type \in Answer, u[j].type \in Answer
      PROVE  i = j
  <2>1. i \notin 1..Len(s) /\ j \notin 1..Len(s)
    BY <1>3, <1>4
  <2>2. PICK k \in 1..Len(t) : i = Len(s) + k
    <3>1. i - Len(s) \in 1..Len(t) /\ i = Len(s) + (i - Len(s))
      BY <1>2, <2>1
    <3> QED
      BY <3>1
  <2>3. PICK l \in 1..Len(t) : j = Len(s) + l
    <3>1. j - Len(s) \in 1..Len(t) /\ j = Len(s) + (j - Len(s))
      BY <1>2, <2>1
    <3> QED
      BY <3>1
  <2>4. t[k].type \in Answer /\ t[l].type \in Answer
    BY <1>2, <1>4, <2>2, <2>3
  <2> QED
    BY <2>2, <2>3, <2>4 DEF OneAnswer
<1> QED
  BY <1>1, <1>4 DEF OneAnswer

LEMMA ShapeTail ==
  ASSUME NEW s \in Seq(Message), s # <<>>, Shape(s)
  PROVE  /\ Shape(Tail(s)) /\ ~Carries(Tail(s), "Header")
         /\ Head(s).type \in {"Request", "Partition"} => Tail(s) = <<>>
<1>1. PICK u \in Seq(Message) : u = Tail(s)
  BY FramesTail
<1>2. /\ Head(s) = s[1] /\ Len(s) \in Nat /\ 1 \in 1..Len(s) /\ Len(u) \in Nat
      /\ Len(u) = Len(s) - 1
      /\ \A i \in 1..Len(u) : i + 1 \in 1..Len(s) /\ u[i] = s[i + 1] /\ i + 1 # 1
  BY <1>1, FramesTail
<1>3. \A i \in 1..Len(u) : u[i].type # "Header"
  BY <1>2 DEF Shape
<1>4. \A i \in 1..Len(u) : u[i].type \in {"Request", "Partition"} => i + 1 = Len(s)
  BY <1>2 DEF Shape
<1>5. Shape(u)
  BY <1>2, <1>3, <1>4 DEF Shape
<1>6. Head(s).type \in {"Request", "Partition"} => u = <<>>
  <2>1. Head(s).type \in {"Request", "Partition"} => Len(u) = 0
    BY <1>2 DEF Shape
  <2> QED
    BY <2>1, EmptySeq
<1>7. ~Carries(u, "Header")
  BY <1>3, FramesIndexed DEF Carries
<1> QED
  BY <1>1, <1>5, <1>6, <1>7

LEMMA ShapeAppend ==
  ASSUME NEW s \in Seq(Message), NEW m \in Message, Shape(s), m.type # "Header",
         ~Carries(s, "Request"), ~Carries(s, "Partition")
  PROVE  Shape(s \o <<m>>)
<1>1. PICK u \in Seq(Message) : u = s \o <<m>> /\ u = Append(s, m)
  BY AppendProperties, AppendIsConcat
<1>2. /\ Len(u) = Len(s) + 1 /\ Len(s) \in Nat /\ u[Len(s) + 1] = m
      /\ \A i \in 1..Len(s) : u[i] = s[i]
  BY <1>1, AppendProperties, LenProperties
<1>3. \A i \in 1..Len(s) : s[i].type \notin {"Request", "Partition"}
  BY FramesIndexed DEF Carries
<1>4. ASSUME NEW i \in 1..Len(u)
      PROVE  /\ u[i].type = "Header" => i = 1
             /\ u[i].type \in {"Request", "Partition"} => i = Len(u)
  <2>1. i \in 1..Len(s) \/ i = Len(s) + 1
    BY <1>2
  <2> QED
    BY <1>2, <1>3, <2>1 DEF Shape
<1> QED
  BY <1>1, <1>4 DEF Shape

LEMMA ClosedTail ==
  ASSUME NEW s \in Seq(Message), s # <<>>, NEW open \in BOOLEAN, ClosedLast(s, open)
  PROVE  /\ ClosedLast(Tail(s), open)
         /\ Head(s).type = "Closed" => Tail(s) = <<>> /\ ~open
<1>1. PICK u \in Seq(Message) : u = Tail(s)
  BY FramesTail
<1>2. /\ Head(s) = s[1] /\ Len(s) \in Nat /\ 1 \in 1..Len(s) /\ Len(u) \in Nat
      /\ Len(u) = Len(s) - 1
      /\ \A i \in 1..Len(u) : i + 1 \in 1..Len(s) /\ u[i] = s[i + 1]
  BY <1>1, FramesTail
<1>3. \A i \in 1..Len(u) : u[i].type = "Closed" => ~open /\ i + 1 = Len(s)
  BY <1>2 DEF ClosedLast
<1>4. Head(s).type = "Closed" => ~open /\ Len(u) = 0
  BY <1>2 DEF ClosedLast
<1>5. ClosedLast(u, open)
  BY <1>2, <1>3 DEF ClosedLast
<1>6. Len(u) = 0 => u = <<>>
  BY EmptySeq
<1> QED
  BY <1>1, <1>4, <1>5, <1>6

LEMMA ClosedConcat ==
  ASSUME NEW s \in Seq(Message), NEW t \in Seq(Message), NEW open \in BOOLEAN,
         ClosedLast(s, open), open \/ t = <<>>, ~Carries(t, "Closed")
  PROVE  ClosedLast(s \o t, open)
<1>1. CASE t = <<>>
  BY <1>1, ConcatProperties
<1>2. CASE open
  <2>1. \A m \in ToSet(s \o t) : m.type # "Closed"
    BY <1>2, FramesConcat, FramesIndexed, SMTT(20) DEF ClosedLast, Carries
  <2> QED
    BY <2>1, FramesConcat, FramesIndexed DEF ClosedLast
<1> QED
  BY <1>1, <1>2

\* A channel that is open carries nothing if it carries only the news that it is lost.
LEMMA OnlyClosed ==
  ASSUME NEW s \in Seq(Message), ClosedLast(s, TRUE), \A m \in ToSet(s) : m.type = "Closed"
  PROVE  s = <<>>
<1>1. \A i \in 1..Len(s) : FALSE
  BY FramesIndexed DEF ClosedLast
<1>2. Len(s) = 0
  BY <1>1, LenProperties
<1> QED
  BY <1>2, EmptySeq

LEMMA LastChunkTail ==
  ASSUME NEW s \in Seq(Message), s # <<>>, NEW half, NEW exact \in BOOLEAN,
         NEW less \in BOOLEAN, less => exact, LastChunk(s, half, exact)
  PROVE  LastChunk(Tail(s), half, less)
<1>1. PICK u \in Seq(Message) : u = Tail(s)
  BY FramesTail
<1>2. /\ Len(s) \in Nat /\ Len(u) \in Nat /\ Len(u) = Len(s) - 1
      /\ \A i \in 1..Len(u) : i + 1 \in 1..Len(s) /\ u[i] = s[i + 1]
  BY <1>1, FramesTail
<1> SUFFICES ASSUME NEW j \in 1..Len(u), u[j].type = "Chunk",
                    j < Len(u) => u[j + 1].type # "Chunk"
             PROVE  u[j].chunk[2] = half.chunker.offset \/ (~less /\ ~Unread(half))
  BY <1>1 DEF LastChunk
<1>3. j + 1 \in 1..Len(s) /\ u[j] = s[j + 1]
  BY <1>2
<1>4. ASSUME j + 1 < Len(s) PROVE s[(j + 1) + 1].type # "Chunk"
  <2>1. j + 1 \in 1..Len(u) /\ j < Len(u)
    BY <1>2, <1>4
  <2> QED
    BY <1>2, <2>1
<1>5. s[j + 1].chunk[2] = half.chunker.offset \/ (~exact /\ ~Unread(half))
  BY <1>3, <1>4 DEF LastChunk
<1> QED
  BY <1>3, <1>5

-----------------------------------------------------------------------------
(* Steps of the end that receives.                                         *)

LEMMA NetIsFrames ==
  ASSUME TypeInv, NEW p \in Peer
  PROVE  net[p] \in Seq(Message) /\ up \in BOOLEAN /\ snd[p] \in Sender /\ rcv[p] \in Incoming
         /\ saved[p] \in Seq(Receiver)
BY DEF TypeInv, TypeOK

LEMMA Exchanged ==
  ASSUME TypeInv, NEW p \in Peer, NEW q \in Peer, q = Other(p),
         NEW frames \in Seq(Message), Exchange(p, frames)
  PROVE  /\ net'[p] = Tail(net[p]) /\ net'[q] = net[q] \o Written(frames)
         /\ Written(frames) \in Seq(Message) /\ (up \/ Written(frames) = <<>>)
         /\ ToSet(Written(frames)) \subseteq ToSet(frames)
<1>1. net'[p] = Tail(net[p]) /\ net'[q] = net[q] \o Written(frames)
  BY TwoPeers DEF Exchange, TypeInv, TypeOK
<1> QED
  BY <1>1, FramesEmpty DEF Written

\* Whoever has something to answer has not answered yet.
LEMMA NothingAnswered ==
  ASSUME TypeInv, NEW p \in Peer, NEW q \in Peer, Turns(p, q), net[q] # <<>>,
         Head(net[q]).type # "Closed"
  PROVE  ~Answering(net[p])
<1>1. Head(net[q]) \in ToSet(net[q])
  BY NetIsFrames, FramesTail
<1> QED
  BY <1>1 DEF Turns, Answered

\* Handlers that write no answer, save nothing and begin nothing but what was announced.
LEMMA QuietReceiver ==
  ASSUME TypeInv, NEW p \in Peer, NEW q \in Peer, Turns(p, q), net[q] # <<>>,
         Head(net[q]).type \notin {"Closed", "Request"},
         NEW w \in Seq(Message), up \/ w = <<>>, \A m \in ToSet(w) : m.type = "Progress",
         net'[q] = Tail(net[q]), net'[p] = net[p] \o w,
         snd'[p] = snd[p], activity'[p] = activity[p], up' = up, Faultless' => Faultless,
         rcv'[p].pending = rcv[p].pending, saved'[q] = saved[q],
         activity'[q] \in {"Idle", "IncomingRequest", "Receiving"},
         rcv'[q].pending \in {<<>>, rcv[q].pending},
         \/ rcv'[q].accepted = <<>>
         \/ rcv'[q].accepted = rcv[q].accepted /\ rcv'[q].received = rcv[q].received,
         \/ rcv'[q].receiver = None
         \/ /\ rcv[q].receiver # None
            /\ rcv'[q].receiver.header = rcv[q].receiver.header
         \/ /\ Head(net[q]).type = "Header"
            /\ rcv'[q].receiver.header = Head(net[q]).header
  PROVE  Turns(p, q)'
<1>1. /\ net[p] \in Seq(Message) /\ net[q] \in Seq(Message) /\ up \in BOOLEAN
      /\ net'[p] \in Seq(Message) /\ net'[q] \in Seq(Message)
      /\ ToSet(net[q]) = {Head(net[q])} \union ToSet(net'[q])
      /\ ToSet(net'[p]) = ToSet(net[p]) \union ToSet(w)
  BY NetIsFrames, FramesTail, FramesConcat
<1>2. ~Answering(net[p]) /\ ~Answering(w) /\ ~Carries(w, "Closed")
  BY NothingAnswered DEF Answering, Answer, Carries
<1>3. ~Answering(net'[p])
  BY <1>1, <1>2 DEF Answering
<1>4. Roles(p, q)'
  BY <1>1 DEF Turns, Roles
<1>5. ClosedLast(net'[p], up') /\ ClosedLast(net'[q], up')
  BY <1>1, <1>2, ClosedTail, ClosedConcat DEF Turns
<1>6. Batch(p)'
  BY DEF Turns, Batch
<1>7. Answered(p, q)'
  <2>1. OneAnswer(net'[p])
    BY <1>1, <1>3, NoAnswerIsOne
  <2>2. \A m \in ToSet(net'[p]) : m.type \notin Answer
    BY <1>3 DEF Answering
  <2> QED
    BY <1>3, <2>1, <2>2 DEF Answered, Answer, Tells
<1>8. KeptSoFar(q)'
  BY DEF Turns, KeptSoFar
<1>9. ASSUME up PROVE Asking(p, q)'
  <2>1. Asking(p, q)
    BY <1>9 DEF Turns
  <2>2. Shape(net'[q])
    BY <1>1, <2>1, ShapeTail DEF Asking
  <2>3. rcv[q].pending = <<>>
    BY <2>1 DEF Asking
  <2>4. rcv'[q].pending = <<>>
    BY <2>3
  <2> QED
    BY <1>1, <2>1, <2>2, <2>4 DEF Asking, Unread, Begun
<1>10. ASSUME up PROVE Engaged(p, q)'
  <2>1. Asking(p, q) /\ Engaged(p, q)
    BY <1>10 DEF Turns
  <2> SUFFICES ASSUME activity[p] = "Sending" PROVE Engaged(p, q)'
    BY DEF Engaged
  <2>2. LastChunk(net'[q], snd'[p], Faultless')
    <3>1. LastChunk(net[q], snd[p], Faultless)
      BY <2>1 DEF Engaged
    <3>2. Faultless \in BOOLEAN /\ Faultless' \in BOOLEAN
      BY DEF Faultless
    <3> QED
      BY <1>1, <3>1, <3>2, LastChunkTail
  <2>3. ~Carries(net[p], "FileTransferComplete") /\ ~Carries(net'[p], "FileTransferComplete")
    BY <1>2, <1>3 DEF Answering, Answer, Carries
  <2>4. Head(net[q]).type = "Header" => Head(net[q]).header = Begun(snd[p])
    BY <1>1, <2>1 DEF Asking
  <2> QED
    BY <2>1, <2>2, <2>3, <2>4 DEF Engaged, Begun
<1> QED
  BY <1>4, <1>5, <1>6, <1>7, <1>8, <1>9, <1>10 DEF Turns

\* Steps that answer: when they are done, the channel carries nothing to this end.
LEMMA AnswersGiven ==
  ASSUME TypeInv, NEW p \in Peer, NEW q \in Peer, Turns(p, q), ~Answering(net[p]),
         net'[q] \in Seq(Message), ToSet(net'[q]) \subseteq ToSet(net[q]),
         ClosedLast(net'[q], up),
         NEW w \in Seq(Message), up \/ w = <<>>,
         \A m \in ToSet(w) : m.type \in Answer \union {"Progress"},
         OneAnswer(w), \A m \in ToSet(w) : Tells(m, p, q)',
         net'[p] = net[p] \o w, up => net'[q] = <<>>,
         snd'[p] = snd[p], activity'[p] = activity[p], up' = up,
         rcv'[p].pending = rcv[p].pending,
         activity'[q] \in {"Idle", "IncomingRequest", "Receiving"},
         KeptSoFar(q)',
         up /\ rcv'[q].pending # <<>> =>
           /\ activity[p] = "AwaitingResponse" /\ rcv'[q].pending = snd[p].offered
           /\ ~Answering(w),
         up /\ activity[p] = "Sending" =>
           /\ rcv'[q].accepted # <<>> =>
                /\ rcv'[q].accepted = snd[p].offered
                /\ Len(rcv'[q].received) = snd[p].filesSent +
                     (IF Carries(w, "FileTransferComplete") THEN 1 ELSE 0)
           /\ rcv'[q].receiver # None => rcv'[q].receiver.header = Begun(snd[p])
  PROVE  Turns(p, q)'
<1>1. /\ net[p] \in Seq(Message) /\ net[q] \in Seq(Message) /\ up \in BOOLEAN
      /\ net'[p] \in Seq(Message) /\ net'[q] \in Seq(Message)
      /\ ToSet(net'[p]) = ToSet(net[p]) \union ToSet(w)
  BY NetIsFrames, FramesConcat
<1>2. ~Answering(net[p]) /\ ~Carries(w, "Closed")
  BY DEF Answer, Carries
<1>3. \A m \in ToSet(net[p]) : m.type \notin Answer
  BY <1>2 DEF Answering
<1>4. up => ToSet(net'[q]) = {}
  BY FramesEmpty
<1>5. Answering(net'[p]) <=> Answering(w)
  BY <1>1, <1>3 DEF Answering
<1>6. Roles(p, q)'
  BY <1>1 DEF Turns, Roles
<1>7. ClosedLast(net'[p], up') /\ ClosedLast(net'[q], up')
  BY <1>1, <1>2, ClosedConcat DEF Turns
<1>8. Batch(p)'
  BY DEF Turns, Batch
<1>9. Answered(p, q)'
  <2>1. OneAnswer(net'[p])
    BY <1>1, <1>2, OneAnswerConcat
  <2>2. \A m \in ToSet(net[p]) : Tells(m, p, q)'
    BY <1>3 DEF Tells, Answer
  <2>3. Answering(net'[p]) => \A m \in ToSet(net'[q]) : m.type = "Closed"
    BY <1>4, <1>5, FramesEmpty DEF Answering
  <2> QED
    BY <1>1, <2>1, <2>2, <2>3 DEF Answered
<1>10. ASSUME up PROVE Asking(p, q)'
  <2>1. Shape(net'[q])
    BY <1>10 DEF Shape
  <2> QED
    BY <1>4, <1>5, <1>10, <2>1 DEF Asking
<1>11. ASSUME up PROVE Engaged(p, q)'
  <2>1. LastChunk(net'[q], snd'[p], Faultless')
    <3>1. net'[q] = <<>>
      BY <1>11
    <3>2. \A half, exact : LastChunk(<<>>, half, exact)
      BY DEF LastChunk
    <3> QED
      BY <3>1, <3>2
  <2>2. Carries(net'[p], "FileTransferComplete") <=> Carries(w, "FileTransferComplete")
    BY <1>1, <1>3 DEF Carries, Answer
  <2> QED
    BY <1>11, <2>1, <2>2 DEF Engaged, Begun
<1> QED
  BY <1>6, <1>7, <1>8, <1>9, <1>10, <1>11 DEF Turns

\* Handlers that answer: when they are done, the channel carries nothing to this end.
LEMMA AnsweringReceiver ==
  ASSUME TypeInv, NEW p \in Peer, NEW q \in Peer, Turns(p, q), net[q] # <<>>,
         Head(net[q]).type # "Closed",
         NEW w \in Seq(Message), up \/ w = <<>>,
         \A m \in ToSet(w) : m.type \in Answer \union {"Progress"},
         OneAnswer(w), \A m \in ToSet(w) : Tells(m, p, q)',
         net'[q] = Tail(net[q]), net'[p] = net[p] \o w, up => net'[q] = <<>>,
         snd'[p] = snd[p], activity'[p] = activity[p], up' = up,
         rcv'[p].pending = rcv[p].pending,
         activity'[q] \in {"Idle", "IncomingRequest", "Receiving"},
         KeptSoFar(q)',
         up /\ rcv'[q].pending # <<>> =>
           /\ activity[p] = "AwaitingResponse" /\ rcv'[q].pending = snd[p].offered
           /\ ~Answering(w),
         up /\ activity[p] = "Sending" =>
           /\ rcv'[q].accepted # <<>> =>
                /\ rcv'[q].accepted = snd[p].offered
                /\ Len(rcv'[q].received) = snd[p].filesSent +
                     (IF Carries(w, "FileTransferComplete") THEN 1 ELSE 0)
           /\ rcv'[q].receiver # None => rcv'[q].receiver.header = Begun(snd[p])
  PROVE  Turns(p, q)'
<1>1. net[q] \in Seq(Message) /\ net'[q] \in Seq(Message) /\ up \in BOOLEAN
      /\ ToSet(net'[q]) \subseteq ToSet(net[q])
  BY NetIsFrames, FramesTail
<1>2. ClosedLast(net'[q], up)
  BY <1>1, ClosedTail DEF Turns
<1>3. ~Answering(net[p])
  BY NothingAnswered
<1> QED
  BY <1>1, <1>2, <1>3, AnswersGiven

LEMMA FaultsStay ==
  ASSUME TypeInv, NoFault \/ Fault
  PROVE  (Faultless' => Faultless) /\ (Fault => ~Faultless')
<1>1. budget \in [requests : 0..MaxRequests, faults : 0..MaxFaults, drops : 0..MaxDrops]
      /\ MaxFaults \in Nat
  BY BoundAssumption DEF TypeInv, TypeOK, BudgetOK
<1> QED
  BY <1>1 DEF NoFault, Fault, Faultless

LEMMA RcvPartitionTurns ==
  ASSUME TypeInv, NEW p \in Peer, NEW q \in Peer, p = Other(q), p # q, Turns(p, q),
         RcvPartition(q)
  PROVE  Turns(p, q)'
<1> DEFINE answer == [type |-> "PartitionReceived"]
<1>1. /\ net[q] # <<>> /\ Head(net[q]).type = "Partition"
      /\ Exchange(q, <<answer>>) /\ NoFault
      /\ UNCHANGED <<activity, snd, rcv, up, saved>>
  BY DEF RcvPartition, Arrives
<1>2. answer \in Message
  BY MessageConstructors
<1>3. PICK w \in Seq(Message) :
        /\ w = Written(<<answer>>) /\ (up \/ w = <<>>)
        /\ net'[q] = Tail(net[q]) /\ net'[p] = net[p] \o w
        /\ ToSet(w) \subseteq {answer}
  BY <1>1, <1>2, FramesOne, Exchanged
<1>4. Head(net[q]) \in ToSet(net[q]) /\ net[q] \in Seq(Message)
  BY <1>1, NetIsFrames, FramesTail
<1>5. up => /\ activity[p] = "Sending" /\ Unread(snd[p]) /\ Tail(net[q]) = <<>>
            /\ rcv[q].pending = <<>>
  BY <1>1, <1>4, ShapeTail DEF Turns, Asking
<1>6. ~Answering(net[p]) /\ ~Carries(net[p], "FileTransferComplete")
      /\ ~Carries(w, "FileTransferComplete")
  BY <1>1, <1>3, NothingAnswered DEF Answering, Answer, Carries
<1>7. OneAnswer(w)
  <2>1. OneAnswer(<<answer>>) /\ OneAnswer(<<>>)
    BY DEF OneAnswer
  <2> QED
    BY <1>3, <2>1 DEF Written
<1>8. \A m \in ToSet(w) : Tells(m, p, q)'
  <2>1. up \/ ToSet(w) = {}
    BY <1>3, FramesEmpty
  <2> QED
    BY <1>1, <1>3, <1>5, <2>1 DEF Tells, Unread
<1>9. up /\ activity[p] = "Sending" =>
        /\ rcv[q].accepted # <<>> =>
             /\ rcv[q].accepted = snd[p].offered
             /\ Len(rcv[q].received) = snd[p].filesSent + 0
        /\ rcv[q].receiver # None => rcv[q].receiver.header = Begun(snd[p])
  BY <1>6 DEF Turns, Engaged
<1>10. KeptSoFar(q)'
  BY <1>1 DEF Turns, KeptSoFar
<1>11. activity[q] \in {"Idle", "IncomingRequest", "Receiving"}
  BY DEF Turns, Roles
<1>12. \A m \in ToSet(w) : m.type \in Answer \union {"Progress"}
  BY <1>3 DEF Answer
<1> HIDE DEF answer
<1> QED
  BY <1>1, <1>3, <1>5, <1>6, <1>7, <1>8, <1>9, <1>10, <1>11, <1>12, AnsweringReceiver

\* What q leaves of a machine that fails or learns that the channel is lost.
LEMMA ResetFields ==
  ASSUME NEW q \in Peer
  PROVE  /\ ResetRcv(q).pending = <<>> /\ ResetRcv(q).accepted = <<>>
         /\ ResetRcv(q).receiver = None /\ ResetRcv(q).received = <<>>
         /\ ResetRcv(q).remaining = <<>>
         /\ ResetSnd(q).offered = snd[q].offered
BY DEF ResetRcv, FreshRcv, ResetSnd, FreshSnd

\* What q does to its own machine.
LEMMA OwnHalf ==
  ASSUME TypeInv, NEW p \in Peer, NEW q \in Peer, p # q
  PROVE  /\ \A half : rcv' = [rcv EXCEPT ![q] = half] => rcv'[q] = half /\ rcv'[p] = rcv[p]
         /\ \A half : snd' = [snd EXCEPT ![q] = half] => snd'[q] = half /\ snd'[p] = snd[p]
         /\ \A act : activity' = [activity EXCEPT ![q] = act] =>
              activity'[q] = act /\ activity'[p] = activity[p]
         /\ \A files : saved' = [saved EXCEPT ![q] = files] =>
              saved'[q] = files /\ saved'[p] = saved[p]
BY DEF TypeInv, TypeOK

LEMMA FailTurns ==
  ASSUME TypeInv, NEW p \in Peer, NEW q \in Peer, p = Other(q), p # q, Turns(p, q),
         net[q] # <<>>, Head(net[q]).type \notin {"Closed", "Request"}, NoFault \/ Fault,
         NEW frames \in Seq(Message), \A m \in ToSet(frames) : m.type = "Progress",
         NEW pushed, Fail(q, frames, pushed)
  PROVE  Turns(p, q)'
<1>1. /\ activity' = [activity EXCEPT ![q] = "Idle"]
      /\ snd' = [snd EXCEPT ![q] = ResetSnd(q)] /\ rcv' = [rcv EXCEPT ![q] = ResetRcv(q)]
      /\ Exchange(q, frames) /\ UNCHANGED <<up, saved>>
  BY DEF Fail
<1>2. PICK w \in Seq(Message) :
        /\ up \/ w = <<>>
        /\ net'[q] = Tail(net[q]) /\ net'[p] = net[p] \o w
        /\ ToSet(w) \subseteq ToSet(frames)
  BY <1>1, Exchanged
<1>3. /\ activity'[q] = "Idle" /\ activity'[p] = activity[p] /\ snd'[p] = snd[p]
      /\ rcv'[p] = rcv[p] /\ rcv'[q] = ResetRcv(q)
  BY <1>1 DEF TypeInv, TypeOK
<1> QED
  BY <1>1, <1>2, <1>3, ResetFields, FaultsStay, QuietReceiver, ZenonT(30)

\* A handler that writes nothing.
LEMMA NothingWritten ==
  ASSUME TypeInv, NEW p \in Peer, NEW q \in Peer, p = Other(q), Exchange(q, <<>>)
  PROVE  /\ net'[q] = Tail(net[q]) /\ net'[p] = net[p] \o <<>>
         /\ <<>> \in Seq(Message) /\ \A m \in ToSet(<<>>) : m.type = "Progress"
<1>1. <<>> \in Seq(Message) /\ Written(<<>>) = <<>>
  BY DEF Written
<1> QED
  BY <1>1, Exchanged, FramesEmpty

LEMMA RcvHeaderTurns ==
  ASSUME TypeInv, NEW p \in Peer, NEW q \in Peer, p = Other(q), p # q, Turns(p, q),
         RcvHeader(q)
  PROVE  Turns(p, q)'
<1> DEFINE header == Head(net[q]).header
<1>1. /\ net[q] # <<>> /\ Head(net[q]).type = "Header"
  BY DEF RcvHeader, Arrives
<1>2. <<>> \in Seq(Message) /\ \A m \in ToSet(<<>>) : m.type = "Progress"
  BY FramesEmpty
<1>3. CASE Fail(q, <<>>, <<>>) /\ (NoFault \/ Fault)
  BY <1>1, <1>2, <1>3, FailTurns
<1>4. CASE Exchange(q, <<>>) /\ NoFault /\ UNCHANGED <<activity, snd, rcv, up, saved>>
  <2>1. /\ net'[q] = Tail(net[q]) /\ net'[p] = net[p] \o <<>>
        /\ <<>> \in Seq(Message) /\ \A m \in ToSet(<<>>) : m.type = "Progress"
    BY <1>4, NothingWritten
  <2>2. activity[q] \in {"Idle", "IncomingRequest", "Receiving"}
    BY DEF Turns, Roles
  <2> QED
    BY <1>1, <1>4, <2>1, <2>2, FaultsStay, QuietReceiver
<1>5. CASE /\ rcv' = [rcv EXCEPT ![q].inFile = 0,
                                ![q].receiver = [header |-> header, data |-> <<>>, over |-> FALSE]]
           /\ Exchange(q, <<>>) /\ NoFault /\ UNCHANGED <<activity, snd, up, saved>>
  <2>1. /\ net'[q] = Tail(net[q]) /\ net'[p] = net[p] \o <<>>
        /\ <<>> \in Seq(Message) /\ \A m \in ToSet(<<>>) : m.type = "Progress"
    BY <1>5, NothingWritten
  <2>2. activity[q] \in {"Idle", "IncomingRequest", "Receiving"}
    BY DEF Turns, Roles
  <2>3. /\ rcv'[p] = rcv[p] /\ rcv'[q].receiver.header = header
        /\ rcv'[q].pending = rcv[q].pending /\ rcv'[q].accepted = rcv[q].accepted
        /\ rcv'[q].received = rcv[q].received
    BY <1>5 DEF TypeInv, TypeOK, Incoming
  <2> QED
    BY <1>1, <1>5, <2>1, <2>2, <2>3, FaultsStay, QuietReceiver
<1> QED
  BY <1>3, <1>4, <1>5, Zenon DEF RcvHeader

\* What a chunk that is kept changes, and what is reported of it.
LEMMA ReceivedFrames ==
  ASSUME TypeInv, NEW q \in Peer, Arrives(q, "Chunk"), rcv[q].receiver # None
  PROVE  /\ Received(q).frames \in Seq(Message)
         /\ \A m \in ToSet(Received(q).frames) : m.type = "Progress"
         /\ Received(q).half.receiver # None
         /\ Received(q).half.receiver.header = rcv[q].receiver.header
         /\ Received(q).half.accepted = rcv[q].accepted
         /\ Received(q).half.remaining = rcv[q].remaining
         /\ Received(q).half.received = rcv[q].received
         /\ Received(q).half.pending = rcv[q].pending
<1>1. /\ rcv[q] \in Incoming /\ rcv[q].receiver \in Receiver
      /\ Received(q).half.receiver \in Receiver /\ Received(q).frames \in Seq(Message)
  BY ReceivedType DEF TypeInv, TypeOK, Incoming
<1> DEFINE receiver == [rcv[q].receiver EXCEPT !.data = Append(@, Head(net[q]).chunk),
                                           !.over = @ \/ Head(net[q]).over]
           done == rcv[q].total + rcv[q].inFile + 1
           size == TotalSize(rcv[q].accepted)
           whole == done >= size
           due == /\ size > 0
                  /\ (done - rcv[q].lastProgress) * ProgressSteps >= size \/ whole
<1>2. PICK last : Received(q).half =
        [rcv[q] EXCEPT !.receiver = receiver, !.inFile = @ + 1, !.lastProgress = last]
  BY <1>1, Zenon DEF Received
<1>3. receiver.header = rcv[q].receiver.header
  BY <1>1 DEF Receiver
<1>4. Received(q).half.receiver # None
  BY <1>1, NoneAssumption DEF Receiver, FileHeader, Chunk
<1>5. Received(q).frames = IF due THEN <<[type |-> "Progress", whole |-> whole]>> ELSE <<>>
  BY Zenon DEF Received
<1>6. whole \in BOOLEAN
  OBVIOUS
<1> HIDE DEF receiver, due, whole
<1>7. \A m \in ToSet(Received(q).frames) : m.type = "Progress"
  <2>1. [type |-> "Progress", whole |-> whole] \in Message
    BY <1>6, MessageConstructors
  <2>2. ToSet(<<[type |-> "Progress", whole |-> whole]>>) = {[type |-> "Progress", whole |-> whole]}
    BY <2>1, FramesOne
  <2> QED
    BY <1>5, <2>2, FramesEmpty
<1>8. /\ Received(q).half.receiver = receiver /\ Received(q).half.accepted = rcv[q].accepted
      /\ Received(q).half.remaining = rcv[q].remaining
      /\ Received(q).half.received = rcv[q].received
      /\ Received(q).half.pending = rcv[q].pending
  BY <1>1, <1>2 DEF Incoming
<1> QED
  BY <1>1, <1>3, <1>4, <1>7, <1>8

\* The handlers of a chunk that save nothing.
LEMMA RcvChunkTurns ==
  ASSUME TypeInv, NEW p \in Peer, NEW q \in Peer, p = Other(q), p # q, Turns(p, q),
         RcvIgnoredChunk(q) \/ RcvChunk(q) \/ RcvChunkFails(q)
  PROVE  Turns(p, q)'
<1>1. /\ net[q] # <<>> /\ Head(net[q]).type = "Chunk" /\ Arrives(q, "Chunk")
      /\ activity[q] \in {"Idle", "IncomingRequest", "Receiving"}
  BY DEF RcvIgnoredChunk, RcvChunk, RcvChunkFails, Arrives, Turns, Roles
<1>2. CASE RcvIgnoredChunk(q)
  <2>1. Exchange(q, <<>>) /\ NoFault /\ UNCHANGED <<activity, snd, rcv, up, saved>>
    BY <1>2 DEF RcvIgnoredChunk
  <2>2. /\ net'[q] = Tail(net[q]) /\ net'[p] = net[p] \o <<>>
        /\ <<>> \in Seq(Message) /\ \A m \in ToSet(<<>>) : m.type = "Progress"
    BY <2>1, NothingWritten
  <2> QED
    BY <1>1, <2>1, <2>2, FaultsStay, QuietReceiver
<1>3. ASSUME rcv[q].receiver # None
      PROVE  /\ Received(q).frames \in Seq(Message)
             /\ \A m \in ToSet(Received(q).frames) : m.type = "Progress"
             /\ Received(q).half.receiver # None
             /\ Received(q).half.receiver.header = rcv[q].receiver.header
             /\ Received(q).half.accepted = rcv[q].accepted
             /\ Received(q).half.received = rcv[q].received
             /\ Received(q).half.pending = rcv[q].pending
  BY <1>1, <1>3, ReceivedFrames
<1>4. CASE RcvChunk(q)
  <2>1. /\ rcv[q].receiver # None /\ rcv' = [rcv EXCEPT ![q] = Received(q).half]
        /\ Exchange(q, Received(q).frames) /\ NoFault
        /\ UNCHANGED <<activity, snd, up, saved>>
    BY <1>4 DEF RcvChunk
  <2>2. PICK w \in Seq(Message) :
          /\ (up \/ w = <<>>) /\ ToSet(w) \subseteq ToSet(Received(q).frames)
          /\ net'[q] = Tail(net[q]) /\ net'[p] = net[p] \o w
    BY <1>3, <2>1, Exchanged
  <2>3. rcv'[q] = Received(q).half /\ rcv'[p] = rcv[p]
    BY <2>1 DEF TypeInv, TypeOK
  <2> QED
    BY <1>1, <1>3, <2>1, <2>2, <2>3, FaultsStay, QuietReceiver
<1>5. CASE RcvChunkFails(q)
  <2>1. /\ rcv[q].receiver # None /\ Fault
        /\ \/ Fail(q, <<>>, <<>>)
           \/ Fail(q, Received(q).frames, Received(q).events)
    BY <1>5, Zenon DEF RcvChunkFails, FramesBeforeSaving
  <2>2. <<>> \in Seq(Message) /\ \A m \in ToSet(<<>>) : m.type = "Progress"
    BY FramesEmpty
  <2> QED
    BY <1>1, <1>3, <2>1, <2>2, FailTurns
<1> QED
  BY <1>2, <1>4, <1>5

LEMMA AnsweredFields ==
  ASSUME NEW half \in Incoming, NEW request \in Manifest, NEW accept \in BOOLEAN,
         NEW written \in BOOLEAN
  PROVE  /\ Responded(half, request, accept, written).pending = <<>>
         /\ Responded(half, request, accept, written).receiver = half.receiver
         /\ accept /\ written =>
              /\ Responded(half, request, accept, written).accepted = request
              /\ Responded(half, request, accept, written).received = <<>>
         /\ ~(accept /\ written) =>
              /\ Responded(half, request, accept, written).accepted = half.accepted
              /\ Responded(half, request, accept, written).received = half.received
<1>1. CASE accept /\ written
  BY <1>1 DEF Responded, Incoming
<1>2. CASE ~(accept /\ written)
  BY <1>2 DEF Responded, Incoming
<1> QED
  BY <1>1, <1>2

LEMMA ResponseFrame ==
  ASSUME NEW accepted \in BOOLEAN
  PROVE  /\ Response(accepted) \in Message /\ <<Response(accepted)>> \in Seq(Message)
         /\ ToSet(<<Response(accepted)>>) = {Response(accepted)}
         /\ OneAnswer(<<Response(accepted)>>) /\ OneAnswer(<<>>)
         /\ Response(accepted).type = "Response" /\ Response(accepted).accepted = accepted
<1>1. Response(accepted) \in Message
  BY MessageConstructors DEF Response
<1>2. OneAnswer(<<Response(accepted)>>) /\ OneAnswer(<<>>)
  BY DEF OneAnswer
<1> QED
  BY <1>1, <1>2, FramesOne DEF Response

\* Nothing kept is the beginning of every batch.
LEMMA KeptNone ==
  ASSUME NEW files \in Seq(Receiver), NEW manifest
  PROVE  Kept(files, manifest, 0) /\ Kept(files, manifest, Len(<<>>))
<1>1. Len(files) \in Nat /\ Len(<<>>) = 0
  BY LenProperties
<1> QED
  BY <1>1 DEF Kept

LEMMA RcvRequestTurns ==
  ASSUME TypeInv, AllTidy, NEW p \in Peer, NEW q \in Peer, p = Other(q), p # q, Turns(p, q),
         RcvRequest(q)
  PROVE  Turns(p, q)'
<1> DEFINE request == Head(net[q]).manifest
<1>1. /\ net[q] # <<>> /\ Head(net[q]).type = "Request" /\ NoFault
      /\ UNCHANGED <<snd, up, saved>> /\ request \in Manifest
      /\ rcv[q] \in Incoming /\ saved[q] \in Seq(Receiver)
      /\ activity[q] \in {"Idle", "IncomingRequest", "Receiving"}
  BY HeadMessage, MessageFields, NetIsFrames DEF RcvRequest, Arrives, Turns, Roles
<1>2. Head(net[q]) \in ToSet(net[q]) /\ net[q] \in Seq(Message)
  BY <1>1, NetIsFrames, FramesTail
<1>3. up => /\ activity[p] = "AwaitingResponse" /\ request = snd[p].offered
            /\ Tail(net[q]) = <<>> /\ rcv[q].pending = <<>>
  BY <1>1, <1>2, ShapeTail DEF Turns, Asking
<1>4. ASSUME NEW accepted \in BOOLEAN, Exchange(q, <<Response(accepted)>>)
      PROVE  \E w \in Seq(Message) :
               /\ (up \/ w = <<>>) /\ OneAnswer(w) /\ ToSet(w) \subseteq {Response(accepted)}
               /\ net'[q] = Tail(net[q]) /\ net'[p] = net[p] \o w
  <2>1. OneAnswer(Written(<<Response(accepted)>>))
    BY ResponseFrame DEF Written
  <2> QED
    BY <1>4, <2>1, ResponseFrame, Exchanged, ZenonT(40)
<1>5. CASE Exchange(q, <<Response(FALSE)>>) /\ UNCHANGED <<activity, rcv>>
  <2>1. PICK w \in Seq(Message) :
          /\ (up \/ w = <<>>) /\ OneAnswer(w) /\ ToSet(w) \subseteq {Response(FALSE)}
          /\ net'[q] = Tail(net[q]) /\ net'[p] = net[p] \o w
    BY <1>4, <1>5
  <2>2. /\ \A m \in ToSet(w) : m.type = "Response" /\ ~m.accepted
        /\ up \/ ToSet(w) = {}
    BY <2>1, ResponseFrame, FramesEmpty
  <2>3. \A m \in ToSet(w) : Tells(m, p, q)'
    BY <1>1, <1>3, <1>5, <2>2 DEF Tells
  <2>4. KeptSoFar(q)'
    BY <1>1, <1>5 DEF Turns, KeptSoFar
  <2> QED
    BY <1>1, <1>3, <1>5, <2>1, <2>2, <2>3, <2>4, AnsweringReceiver DEF Answer
<1>6. CASE /\ rcv[q].pending = <<>> /\ rcv[q].accepted = <<>>
           /\ rcv' = [rcv EXCEPT ![q].pending = request]
           /\ activity' = [activity EXCEPT ![q] = "IncomingRequest"]
           /\ Exchange(q, <<>>)
  <2>1. /\ rcv'[q].pending = request /\ rcv'[q].accepted = rcv[q].accepted
        /\ rcv'[p] = rcv[p] /\ activity'[p] = activity[p]
        /\ activity'[q] = "IncomingRequest"
    BY <1>1, <1>6 DEF TypeInv, TypeOK, Incoming
  <2>2. KeptSoFar(q)'
    BY <1>6, <2>1 DEF KeptSoFar
  <2>3. ToSet(<<>>) = {} /\ OneAnswer(<<>>) /\ ~Answering(<<>>)
    BY FramesEmpty, ResponseFrame DEF Answering
  <2>4. net'[q] = Tail(net[q]) /\ net'[p] = net[p] \o <<>> /\ <<>> \in Seq(Message)
    BY <1>6, NothingWritten
  <2> QED
    BY <1>1, <1>3, <2>1, <2>2, <2>3, <2>4, AnsweringReceiver
<1>7. CASE /\ rcv[q].pending = <<>> /\ rcv[q].accepted = <<>>
           /\ Exchange(q, <<Response(TRUE)>>)
           /\ \E written \in WriteOutcomes :
                /\ rcv' = [rcv EXCEPT ![q] = Responded(@, request, TRUE, written)]
                /\ activity' = [activity EXCEPT ![q] =
                     IF written THEN "Receiving" ELSE "IncomingRequest"]
  <2>1. PICK w \in Seq(Message) :
          /\ (up \/ w = <<>>) /\ OneAnswer(w) /\ ToSet(w) \subseteq {Response(TRUE)}
          /\ net'[q] = Tail(net[q]) /\ net'[p] = net[p] \o w
    BY <1>4, <1>7
  <2>2. PICK written \in WriteOutcomes :
          /\ rcv' = [rcv EXCEPT ![q] = Responded(rcv[q], request, TRUE, written)]
          /\ activity' = [activity EXCEPT ![q] =
               IF written THEN "Receiving" ELSE "IncomingRequest"]
    BY <1>7
  <2>3. written \in BOOLEAN /\ (up => written)
    BY DEF WriteOutcomes
  <2>4. /\ rcv'[q] = Responded(rcv[q], request, TRUE, written) /\ rcv'[p] = rcv[p]
        /\ activity'[p] = activity[p]
        /\ activity'[q] \in {"Idle", "IncomingRequest", "Receiving"}
    BY <2>2 DEF TypeInv, TypeOK
  <2>5. rcv[q].receiver = None
    BY <1>7 DEF AllTidy, Tidy
  <2>6. /\ rcv'[q].pending = <<>> /\ rcv'[q].receiver = None
        /\ written => rcv'[q].accepted = request /\ rcv'[q].received = <<>>
        /\ ~written => rcv'[q].accepted = <<>>
    <3> DEFINE half == Responded(rcv[q], request, TRUE, written)
    <3>1. /\ half.pending = <<>> /\ half.receiver = rcv[q].receiver
          /\ written => half.accepted = request /\ half.received = <<>>
          /\ ~written => half.accepted = rcv[q].accepted
      BY <1>1, <2>3, AnsweredFields, Zenon
    <3> HIDE DEF half
    <3> QED
      BY <1>7, <2>4, <2>5, <3>1 DEF half
  <2>7. KeptSoFar(q)'
    BY <1>1, <2>3, <2>6, KeptNone DEF KeptSoFar
  <2>8. /\ \A m \in ToSet(w) : m.type = "Response"
        /\ up \/ ToSet(w) = {}
    BY <2>1, ResponseFrame, FramesEmpty
  <2>9. \A m \in ToSet(w) : Tells(m, p, q)'
    BY <1>1, <1>3, <2>3, <2>4, <2>6, <2>8 DEF Tells
  <2> QED
    BY <1>1, <1>3, <2>1, <2>4, <2>6, <2>7, <2>8, <2>9, AnsweringReceiver DEF Answer
<1> QED
  BY <1>5, <1>6, <1>7, Zenon DEF RcvRequest

\* On a lost channel nothing is asked or answered any more.
LEMMA LostTurns ==
  ASSUME TypeInv, NEW p \in Peer, NEW q \in Peer, Turns(p, q), ~up, up' = up,
         net'[p] = net[p], net'[q] \in Seq(Message), ToSet(net'[q]) \subseteq ToSet(net[q]),
         ClosedLast(net'[q], up),
         snd'[p] = snd[p], activity'[p] = activity[p], rcv'[p].pending = rcv[p].pending,
         activity'[q] \in {"Idle", "IncomingRequest", "Receiving"}, saved'[q] = saved[q],
         rcv'[q].receiver \in {None, rcv[q].receiver}, KeptSoFar(q)'
  PROVE  Turns(p, q)'
<1>1. Roles(p, q)'
  BY DEF Turns, Roles
<1>2. ClosedLast(net'[p], up') /\ ClosedLast(net'[q], up')
  BY DEF Turns
<1>3. Batch(p)'
  BY DEF Turns, Batch
<1>4. Answered(p, q)'
  <2>1. Answering(net'[p]) => \A m \in ToSet(net'[q]) : m.type = "Closed"
    BY DEF Turns, Answered
  <2>2. \A m \in ToSet(net'[p]) : Tells(m, p, q)'
    BY DEF Turns, Answered, Tells, Unread
  <2>3. OneAnswer(net'[p])
    BY DEF Turns, Answered
  <2> QED
    BY <2>1, <2>2, <2>3 DEF Answered
<1> QED
  BY <1>1, <1>2, <1>3, <1>4 DEF Turns

LEMMA RespondTurns ==
  ASSUME TypeInv, AllTidy, NEW p \in Peer, NEW q \in Peer, p = Other(q), p # q, Turns(p, q),
         NEW accept \in BOOLEAN, Respond(q, accept)
  PROVE  Turns(p, q)'
<1> DEFINE half(written) == Responded(rcv[q], rcv[q].pending, accept, written)
<1>1. /\ rcv[q].pending # <<>> /\ NoFault /\ UNCHANGED <<snd, up, saved>>
      /\ Write(q, <<Response(accept)>>)
  BY DEF Respond
<1>2. PICK written \in WriteOutcomes :
        /\ activity' = [activity EXCEPT ![q] =
             IF ~written THEN @ ELSE IF accept THEN "Receiving" ELSE "Idle"]
        /\ rcv' = [rcv EXCEPT ![q] = half(written)]
  BY Zenon DEF Respond
<1>3. /\ written \in BOOLEAN /\ (up => written)
      /\ rcv[q] \in Incoming /\ saved[q] \in Seq(Receiver) /\ rcv[q].pending \in Manifest
      /\ activity[q] \in {"Idle", "IncomingRequest", "Receiving"}
      /\ net[q] \in Seq(Message) /\ net[p] \in Seq(Message)
  BY NetIsFrames DEF WriteOutcomes, Turns, Roles, Incoming
<1>4. rcv[q].accepted = <<>> /\ rcv[q].receiver = None
  BY <1>1 DEF AllTidy, Tidy
<1>5. PICK after : after = half(written)
  OBVIOUS
<1>6. /\ after.pending = <<>> /\ after.receiver = None
      /\ accept /\ written => after.accepted = rcv[q].pending /\ after.received = <<>>
      /\ ~(accept /\ written) => after.accepted = <<>>
  <2>1. /\ half(written).pending = <<>> /\ half(written).receiver = rcv[q].receiver
        /\ accept /\ written =>
             half(written).accepted = rcv[q].pending /\ half(written).received = <<>>
        /\ ~(accept /\ written) => half(written).accepted = rcv[q].accepted
    BY <1>3, AnsweredFields
  <2> HIDE DEF half
  <2> QED
    BY <1>4, <1>5, <2>1
<1> HIDE DEF half
<1>7. /\ rcv'[q] = after /\ rcv'[p] = rcv[p] /\ activity'[p] = activity[p]
      /\ activity'[q] \in {"Idle", "IncomingRequest", "Receiving"}
  BY <1>2, <1>3, <1>5 DEF TypeInv, TypeOK
<1>8. KeptSoFar(q)'
  BY <1>1, <1>3, <1>6, <1>7, KeptNone DEF KeptSoFar
<1>9. PICK w \in Seq(Message) :
        /\ up => w = <<Response(accept)>>
        /\ up \/ w = <<>>
        /\ net'[q] = net[q] /\ net'[p] = net[p] \o w
  <2>1. <<>> \in Seq(Message) /\ <<Response(accept)>> \in Seq(Message)
    <3>1. <<>> \in Seq(Message)
      OBVIOUS
    <3> QED
      BY <3>1, ResponseFrame
  <2> QED
    BY <1>1, <2>1 DEF Write, Written, TypeInv, TypeOK
<1>10. CASE ~up
  <2>1. net'[p] = net[p]
    BY <1>3, <1>9, <1>10
  <2>2. ClosedLast(net'[q], up)
    BY <1>9 DEF Turns
  <2> QED
    BY <1>1, <1>3, <1>6, <1>7, <1>8, <1>9, <1>10, <2>1, <2>2, LostTurns
<1>11. CASE up
  <2>1. /\ activity[p] = "AwaitingResponse" /\ rcv[q].pending = snd[p].offered
        /\ net[q] = <<>> /\ ~Answering(net[p])
    BY <1>1, <1>11 DEF Turns, Asking
  <2>2. /\ OneAnswer(w)
        /\ \A m \in ToSet(w) : m.type = "Response" /\ m.accepted = accept
    BY <1>9, <1>11, ResponseFrame
  <2>3. \A m \in ToSet(w) : Tells(m, p, q)'
    BY <1>1, <1>3, <1>6, <1>7, <1>11, <2>1, <2>2 DEF Tells
  <2>4. ClosedLast(net'[q], up)
    BY <1>9 DEF Turns
  <2> QED
    BY <1>1, <1>3, <1>6, <1>7, <1>8, <1>9, <1>11, <2>1, <2>2, <2>3, <2>4, AnswersGiven
    DEF Answer
<1> QED
  BY <1>10, <1>11

LEMMA RcvClosedTurns ==
  ASSUME TypeInv, NEW p \in Peer, NEW q \in Peer, p = Other(q), p # q, Turns(p, q),
         RcvClosed(q)
  PROVE  Turns(p, q)'
<1>1. /\ net[q] # <<>> /\ Head(net[q]).type = "Closed" /\ UNCHANGED <<up, saved>>
      /\ activity' = [activity EXCEPT ![q] = "Idle"]
      /\ snd' = [snd EXCEPT ![q] = ResetSnd(q)]
      /\ rcv' = [rcv EXCEPT ![q] = ResetRcv(q)] /\ Exchange(q, <<>>)
  BY DEF RcvClosed, Arrives
<1>2. /\ activity'[q] = "Idle" /\ activity'[p] = activity[p] /\ snd'[p] = snd[p]
      /\ rcv'[p] = rcv[p] /\ rcv'[q] = ResetRcv(q)
  BY <1>1 DEF TypeInv, TypeOK
<1>3. net[q] \in Seq(Message) /\ net[p] \in Seq(Message) /\ up \in BOOLEAN
  BY NetIsFrames
<1>4. net'[q] = Tail(net[q]) /\ net'[p] = net[p]
  BY <1>1, <1>3, NothingWritten, ConcatEmptySeq
<1>5. ~up /\ ClosedLast(net'[q], up)
  BY <1>1, <1>3, <1>4, ClosedTail DEF Turns
<1>6. net'[q] \in Seq(Message) /\ ToSet(net'[q]) \subseteq ToSet(net[q])
  BY <1>1, <1>3, <1>4, FramesTail
<1>7. KeptSoFar(q)'
  BY <1>2, ResetFields DEF KeptSoFar
<1> QED
  BY <1>1, <1>2, <1>4, <1>5, <1>6, <1>7, ResetFields, LostTurns

\* One more file is kept of a manifest that grows with it.
LEMMA KeptOneMore ==
  ASSUME NEW files \in Seq(Receiver), NEW file \in Receiver, NEW manifest \in Manifest,
         NEW header \in FileHeader, file.header = header,
         Kept(files, manifest, Len(manifest))
  PROVE  /\ Len(manifest) \in Nat /\ Len(Append(manifest, header)) = Len(manifest) + 1
         /\ Append(manifest, header)[Len(manifest) + 1] = header
         /\ \A k \in 1..Len(manifest) : Append(manifest, header)[k] = manifest[k]
         /\ Kept(Append(files, file), Append(manifest, header), Len(manifest) + 1)
<1>1. PICK n \in Nat : n = Len(manifest) /\ manifest \in Seq(FileHeader)
  BY LenProperties DEF Manifest
<1>2. PICK l \in Nat : l = Len(files)
  BY LenProperties
<1>3. PICK more \in Seq(Receiver) : more = Append(files, file)
  BY AppendProperties
<1>4. PICK longer \in Seq(FileHeader) : longer = Append(manifest, header)
  BY <1>1, AppendProperties
<1>5. Len(more) = l + 1 /\ more[l + 1] = file /\ \A i \in 1..l : more[i] = files[i]
  BY <1>2, <1>3, AppendProperties
<1>6. Len(longer) = n + 1 /\ longer[n + 1] = header /\ \A i \in 1..n : longer[i] = manifest[i]
  BY <1>1, <1>4, AppendProperties
<1>7. n <= l /\ \A k \in 1..n : files[l - n + k].header = manifest[k]
  BY <1>1, <1>2 DEF Kept
<1>8. ASSUME NEW k \in 1..(n + 1) PROVE more[(l + 1) - (n + 1) + k].header = longer[k]
  <2>1. (l + 1) - (n + 1) + k = l - n + k
    BY <1>7
  <2>2. CASE k = n + 1
    <3>1. l - n + k = l + 1
      BY <2>2
    <3> QED
      BY <1>5, <1>6, <2>1, <2>2, <3>1
  <2>3. CASE k \in 1..n
    <3>1. l - n + k \in 1..l
      BY <1>7, <2>3
    <3> QED
      BY <1>5, <1>6, <1>7, <2>1, <2>3, <3>1
  <2> QED
    BY <2>2, <2>3
<1>9. Kept(more, longer, n + 1)
  BY <1>5, <1>7, <1>8 DEF Kept
<1> QED
  BY <1>1, <1>3, <1>4, <1>6, <1>9

LEMMA FinishedHalf ==
  ASSUME NEW half \in Incoming, half.receiver \in Receiver
  PROVE  /\ Finished(half).receiver = None /\ Finished(half).pending = half.pending
         /\ Finished(half).accepted \in {<<>>, half.accepted}
         /\ Finished(half).accepted = IF IsLastFile(half) THEN <<>> ELSE half.accepted
         /\ Finished(half).accepted # <<>> =>
              Finished(half).received = Append(half.received, half.receiver.header)
<1> DEFINE done == [half EXCEPT !.receiver = None, !.total = @ + half.receiver.header.size,
                                !.inFile = 0,
                                !.received = Append(@, half.receiver.header),
                                !.remaining = IF @ = <<>> THEN @ ELSE Tail(@)]
           over == [done EXCEPT !.accepted = <<>>, !.received = <<>>]
<1>1. Finished(half) = IF IsLastFile(half) THEN over ELSE done
  BY Zenon DEF Finished
<1>2. /\ done.receiver = None /\ done.pending = half.pending /\ done.accepted = half.accepted
      /\ done.received = Append(half.received, half.receiver.header)
      /\ over.receiver = None /\ over.pending = half.pending /\ over.accepted = <<>>
  BY DEF Incoming
<1> HIDE DEF done, over
<1> QED
  BY <1>1, <1>2

\* The chunk that completes a file is the last on its way, and all of the file is read.
LEMMA LastChunkEnds ==
  ASSUME TypeInv, AllTidy, InStep, NEW p \in Peer, NEW q \in Peer, p = Other(q), Turns(p, q),
         up, Arrives(q, "Chunk"), rcv[q].receiver # None,
         IsComplete(Received(q).half.receiver)
  PROVE  /\ activity[p] = "Sending" /\ Tail(net[q]) = <<>> /\ ~Unread(snd[p])
         /\ rcv[q].accepted = snd[p].offered /\ Len(rcv[q].received) = snd[p].filesSent
<1>1. /\ net[q] # <<>> /\ net[q] \in Seq(Message) /\ Head(net[q]).type = "Chunk"
      /\ Head(net[q]) \in ToSet(net[q])
  BY NetIsFrames, FramesTail DEF Arrives
<1>2. Asking(p, q) /\ Engaged(p, q) /\ ClosedLast(net[q], up) /\ Roles(p, q)
  BY DEF Turns
<1>3. activity[p] = "Sending"
  BY <1>1, <1>2 DEF Asking
<1>4. rcv[q].accepted # <<>> /\ ~Carries(net[p], "FileTransferComplete")
  BY <1>1, NothingAnswered DEF AllTidy, Tidy, Answering, Carries, Answer
<1>5. /\ rcv[q].accepted = snd[p].offered /\ Len(rcv[q].received) = snd[p].filesSent + 0
      /\ rcv[q].receiver.header = Begun(snd[p]) /\ LastChunk(net[q], snd[p], Faultless)
  BY <1>2, <1>3, <1>4 DEF Engaged
<1>6. snd[p].filesSent \in Nat
  BY NetIsFrames DEF Sender
<1>7. PICK before \in Position, after \in Position :
        Leads(net[q], before, after) /\ Staged(rcv[q], before)
  BY DEF InStep, Fits
<1>8. PICK next \in Position : Advances(before, Head(net[q]), next) /\ Leads(Tail(net[q]), next, after)
  BY <1>1, <1>7, TailLeads
<1>9. /\ next.header = rcv[q].receiver.header /\ next.header \in FileHeader
      /\ next.count \in Nat /\ next.header.size \in Nat
      /\ next.count <= next.header.size
      /\ Head(net[q]).chunk = <<next.header.name, next.count>>
  <2>1. /\ before.header \in FileHeader /\ before.count \in Nat
        /\ before.count < before.header.size
        /\ Head(net[q]).chunk = <<before.header.name, before.count + 1>>
        /\ next = [header |-> before.header, count |-> before.count + 1]
    BY <1>1, <1>8 DEF Advances, Position
  <2>2. before.header.size \in Nat
    BY <2>1 DEF FileHeader
  <2> QED
    BY <1>7, <2>1, <2>2 DEF Staged
<1>10. next.count = next.header.size
  <2>1. Received(q).half.receiver # None
    BY ReceivedFrames
  <2>2. Staged(Received(q).half, next)
    BY <1>7, <1>8, ReceivedReads
  <2>3. /\ Received(q).half.receiver.header = next.header
        /\ Received(q).half.receiver.data = Prefix(next.header, next.count)
    BY <2>1, <2>2 DEF Staged
  <2>4. Len(Prefix(next.header, next.count)) = next.count
    BY <1>9, PrefixProperties
  <2>5. next.count >= next.header.size
    BY <2>3, <2>4 DEF IsComplete
  <2> QED
    BY <1>9, <2>5
<1>11. Head(net[q]).chunk[2] = snd[p].chunker.size
  BY <1>5, <1>9, <1>10 DEF Begun
<1>12. Head(net[q]) = net[q][1] /\ 1 \in 1..Len(net[q]) /\ Len(net[q]) \in Nat
  BY <1>1, FramesTail
<1>13. Tail(net[q]) = <<>>
  <2> SUFFICES ASSUME Tail(net[q]) # <<>> PROVE FALSE
    OBVIOUS
  <2>1. PICK s \in Seq(Message) : s = Tail(net[q])
    BY <1>1, FramesTail
  <2>2. /\ s # <<>> /\ Head(s) \in ToSet(s) /\ ToSet(s) \subseteq ToSet(net[q])
        /\ Head(s) = s[1] /\ 1 \in 1..Len(s) /\ Len(s) \in Nat
        /\ Len(s) = Len(net[q]) - 1 /\ s[1] = net[q][1 + 1] /\ 1 + 1 \in 1..Len(net[q])
    <3>1. s # <<>> /\ Len(s) \in Nat /\ Len(s) >= 1 /\ Head(s) = s[1] /\ Head(s) \in ToSet(s)
      BY <2>1, FramesTail
    <3>2. /\ ToSet(s) \subseteq ToSet(net[q]) /\ Len(s) = Len(net[q]) - 1
          /\ \A i \in 1..Len(s) : i + 1 \in 1..Len(net[q]) /\ s[i] = net[q][i + 1]
      BY <1>1, <2>1, FramesTail
    <3>3. 1 \in 1..Len(s)
      BY <3>1
    <3> QED
      BY <3>1, <3>2, <3>3
  <2>3. Head(s).type \notin {"Chunk", "Header", "Request", "Closed"}
    <3>1. Head(s).type # "Chunk"
      <4>1. \E onwards \in Position : Advances(next, Head(s), onwards)
        BY <1>8, <2>1, <2>2, TailLeads
      <4> QED
        BY <1>9, <1>10, <4>1 DEF Advances
    <3>2. Head(s).type # "Header"
      BY <1>2, <2>2 DEF Asking, Shape
    <3>3. Head(s).type # "Request"
      BY <1>2, <1>3, <2>2 DEF Asking
    <3>4. Head(s).type # "Closed"
      BY <1>2, <2>2 DEF ClosedLast
    <3> QED
      BY <3>1, <3>2, <3>3, <3>4
  <2>4. Head(s).type = "Partition"
    BY <1>2, <2>2, <2>3 DEF Roles, Outgoing
  <2>5. Unread(snd[p])
    BY <1>2, <2>2, <2>4 DEF Asking
  <2>6. net[q][1].chunk[2] = snd[p].chunker.offset
    BY <1>1, <1>5, <1>12, <2>2, <2>4, <2>5 DEF LastChunk
  <2>7. snd[p].chunker \in Chunker
    BY <1>3, NetIsFrames DEF Turns, Batch, Sender
  <2> QED
    BY <1>11, <1>12, <2>5, <2>6, <2>7 DEF Unread, Chunker
<1>14. ~Unread(snd[p])
  <2>1. Len(net[q]) = 1
    <3>1. PICK s \in Seq(Message) : s = Tail(net[q]) /\ Len(s) = Len(net[q]) - 1
      BY <1>1, FramesTail
    <3>2. Len(s) = 0
      BY <1>13, <3>1
    <3> QED
      BY <1>12, <3>1, <3>2
  <2>2. net[q][1].chunk[2] = snd[p].chunker.offset \/ ~Unread(snd[p])
    BY <1>1, <1>5, <1>12, <2>1 DEF LastChunk
  <2>3. snd[p].chunker \in Chunker
    BY <1>3, NetIsFrames DEF Turns, Batch, Sender
  <2> QED
    BY <1>11, <1>12, <2>2, <2>3 DEF Unread, Chunker
<1> QED
  BY <1>3, <1>5, <1>6, <1>13, <1>14

LEMMA RcvLastChunkTurns ==
  ASSUME TypeInv, AllTidy, ManifestHonoured, InStep, NEW p \in Peer, NEW q \in Peer,
         p = Other(q), p # q, Turns(p, q), RcvLastChunk(q)
  PROVE  Turns(p, q)'
<1>1. /\ net[q] # <<>> /\ Head(net[q]).type = "Chunk" /\ Arrives(q, "Chunk")
      /\ rcv[q].receiver # None /\ IsComplete(Received(q).half.receiver)
      /\ NoFault /\ UNCHANGED <<snd, up>>
  BY Zenon DEF RcvLastChunk, Arrives
<1>2. PICK half \in Incoming :
        /\ half = Received(q).half /\ half.receiver \in Receiver
        /\ half.receiver.header = Head(rcv[q].remaining)
        /\ half.receiver.header = rcv[q].receiver.header
        /\ half.accepted = rcv[q].accepted /\ half.remaining = rcv[q].remaining
        /\ half.received = rcv[q].received /\ half.pending = rcv[q].pending
        /\ half.receiver # None
  BY <1>1, ReceivedFields, ReceivedFrames
<1>3. /\ rcv[q].remaining # <<>> /\ rcv[q].accepted # <<>> /\ rcv[q].pending = <<>>
      /\ half.receiver.header \in FileHeader /\ saved[q] \in Seq(Receiver)
      /\ half.received \in Manifest
      /\ activity[q] \in {"Idle", "IncomingRequest", "Receiving"}
  BY <1>1, <1>2, ReceivedFields, NetIsFrames DEF Turns, Roles, Receiver, Incoming
<1>4. PICK frames \in Seq(Message) :
        frames = Received(q).frames /\ \A m \in ToSet(frames) : m.type = "Progress"
  BY <1>1, ReceivedFrames
<1> DEFINE header == half.receiver.header
           file == half.receiver
           finished == Finished(half)
           more == Append(half.received, header)
           stuck == [finished EXCEPT !.accepted = half.accepted, !.remaining = half.remaining,
                                     !.received = Append(half.received, file.header)]
           complete == [type |-> "FileTransferComplete"]
<1>5. \/ /\ saved' = [saved EXCEPT ![q] = Append(@, file)]
         /\ rcv' = [rcv EXCEPT ![q] = finished]
         /\ Exchange(q, frames \o <<complete>>)
         /\ activity' \in {activity, [activity EXCEPT ![q] = "Idle"]}
      \/ /\ ~up /\ rcv' = [rcv EXCEPT ![q] = half] /\ Exchange(q, <<>>)
         /\ UNCHANGED <<activity, saved>>
      \/ /\ ~up /\ saved' = [saved EXCEPT ![q] = Append(@, file)]
         /\ rcv' = [rcv EXCEPT ![q] = stuck] /\ Exchange(q, <<>>) /\ UNCHANGED activity
  BY <1>2, <1>4, Zenon DEF RcvLastChunk
<1>6. /\ file \in Receiver /\ file.header = header
      /\ complete \in Message /\ complete.type = "FileTransferComplete"
  BY <1>2, MessageConstructors DEF Receiver
<1>7. /\ finished.receiver = None /\ finished.pending = <<>>
      /\ finished.accepted \in {<<>>, rcv[q].accepted}
      /\ finished.accepted # <<>> => finished.received = more
      /\ finished \in Incoming
  BY <1>2, <1>3, FinishedHalf, FinishedType
<1>8. stuck.receiver = None /\ stuck.received = more
  <2> HIDE DEF finished
  <2> QED
    BY <1>6, <1>7 DEF Incoming
<1>9. PICK n \in Nat : n = Len(rcv[q].received)
  BY <1>2, <1>3, LenProperties DEF Manifest
<1>10. /\ Len(more) = n + 1 /\ more[n + 1] = header
       /\ \A k \in 1..n : more[k] = half.received[k]
       /\ Kept(Append(saved[q], file), more, n + 1)
  <2>1. Kept(saved[q], half.received, Len(half.received))
    BY <1>2, <1>3 DEF Turns, KeptSoFar
  <2>2. PICK manifest \in Manifest : manifest = half.received /\ n = Len(manifest)
    BY <1>2, <1>3, <1>9
  <2>3. PICK next \in FileHeader : next = header
    BY <1>3
  <2> HIDE DEF file, header
  <2>4. /\ Len(Append(manifest, next)) = n + 1
        /\ Append(manifest, next)[n + 1] = next
        /\ \A k \in 1..n : Append(manifest, next)[k] = manifest[k]
        /\ Kept(Append(saved[q], file), Append(manifest, next), n + 1)
    <3>1. Kept(saved[q], manifest, Len(manifest)) /\ file.header = next
      BY <1>6, <2>1, <2>2, <2>3
    <3>2. saved[q] \in Seq(Receiver) /\ file \in Receiver
      BY <1>3, <1>6
    <3> QED
      BY <2>2, <3>1, <3>2, KeptOneMore
  <2>5. more = Append(manifest, next)
    BY <2>2, <2>3
  <2> HIDE DEF more
  <2> QED
    BY <2>2, <2>3, <2>4, <2>5
<1> HIDE DEF header, file, finished, more, stuck, complete
<1>11. CASE ~up /\ rcv' = [rcv EXCEPT ![q] = half] /\ Exchange(q, <<>>) /\ UNCHANGED <<activity, saved>>
  <2>1. /\ net'[q] = Tail(net[q]) /\ net'[p] = net[p] \o <<>>
        /\ <<>> \in Seq(Message) /\ \A m \in ToSet(<<>>) : m.type = "Progress"
    BY <1>11, NothingWritten
  <2>2. rcv'[q] = half /\ rcv'[p] = rcv[p]
    BY <1>11 DEF TypeInv, TypeOK
  <2> QED
    BY <1>1, <1>2, <1>3, <1>11, <2>1, <2>2, FaultsStay, QuietReceiver, ZenonT(40)
<1>12. CASE /\ ~up /\ saved' = [saved EXCEPT ![q] = Append(@, file)]
            /\ rcv' = [rcv EXCEPT ![q] = stuck] /\ Exchange(q, <<>>) /\ UNCHANGED activity
  <2>1. net'[q] = Tail(net[q]) /\ net'[p] = net[p] \o <<>> /\ <<>> \in Seq(Message)
    BY <1>12, NothingWritten
  <2>2. ToSet(<<>>) = {} /\ OneAnswer(<<>>)
    BY FramesEmpty, ResponseFrame
  <2>3. rcv'[q] = stuck /\ rcv'[p] = rcv[p] /\ saved'[q] = Append(saved[q], file)
    BY <1>12 DEF TypeInv, TypeOK
  <2>4. KeptSoFar(q)'
    BY <1>8, <1>10, <2>3 DEF KeptSoFar
  <2> QED
    BY <1>1, <1>3, <1>12, <2>1, <2>2, <2>3, <2>4, AnsweringReceiver
<1>13. CASE /\ saved' = [saved EXCEPT ![q] = Append(@, file)]
            /\ rcv' = [rcv EXCEPT ![q] = finished]
            /\ Exchange(q, frames \o <<complete>>)
            /\ activity' \in {activity, [activity EXCEPT ![q] = "Idle"]}
  <2>1. /\ <<complete>> \in Seq(Message) /\ ToSet(<<complete>>) = {complete}
        /\ OneAnswer(<<complete>>) /\ ~Answering(frames)
    <3>1. OneAnswer(<<complete>>)
      BY DEF OneAnswer
    <3> QED
      BY <1>4, <1>6, <3>1, FramesOne DEF Answering, Answer
  <2>2. PICK all \in Seq(Message) :
          /\ all = frames \o <<complete>> /\ OneAnswer(all)
          /\ ToSet(all) = ToSet(frames) \union {complete}
    <3>1. PICK last \in Seq(Message) : last = <<complete>>
      BY <2>1
    <3>2. ToSet(last) = {complete} /\ OneAnswer(last)
      BY <2>1, <3>1
    <3>3. PICK all \in Seq(Message) :
            all = frames \o last /\ ToSet(all) = ToSet(frames) \union ToSet(last)
      BY FramesConcat
    <3>4. OneAnswer(all)
      BY <2>1, <3>2, <3>3, OneAnswerConcat
    <3> QED
      BY <3>1, <3>2, <3>3, <3>4
  <2>3. PICK w \in Seq(Message) :
          /\ w = Written(all) /\ (up \/ w = <<>>)
          /\ net'[q] = Tail(net[q]) /\ net'[p] = net[p] \o w
    BY <1>13, <2>2, Exchanged
  <2>4. OneAnswer(w) /\ ToSet(w) \subseteq ToSet(all)
        /\ (up => Carries(w, "FileTransferComplete")) /\ (~up => ToSet(w) = {})
    <3>1. up => w = all
      BY <2>3 DEF Written
    <3> QED
      BY <1>6, <2>2, <2>3, <3>1, FramesEmpty, ResponseFrame DEF Carries
  <2>5. /\ rcv'[q] = finished /\ rcv'[p] = rcv[p] /\ saved'[q] = Append(saved[q], file)
        /\ activity'[p] = activity[p]
        /\ activity'[q] \in {"Idle", "IncomingRequest", "Receiving"}
    BY <1>3, <1>13 DEF TypeInv, TypeOK
  <2>6. KeptSoFar(q)'
    BY <1>7, <1>10, <2>5 DEF KeptSoFar
  <2>7. up => /\ activity[p] = "Sending" /\ Tail(net[q]) = <<>> /\ ~Unread(snd[p])
              /\ rcv[q].accepted = snd[p].offered /\ n = snd[p].filesSent
    BY <1>1, <1>9, LastChunkEnds
  <2>8. up => \A k \in 1..(n + 1) : more[k] = snd[p].offered[k]
    <3> SUFFICES ASSUME up, NEW k \in 1..(n + 1) PROVE more[k] = snd[p].offered[k]
      OBVIOUS
    <3>1. rcv[q].received \o rcv[q].remaining = snd[p].offered
      BY <1>3, <2>7 DEF ManifestHonoured, Honours
    <3>2. PICK rest \in Seq(FileHeader) : rest = rcv[q].remaining /\ rest # <<>>
      BY <1>2, <1>3 DEF Incoming, Manifest
    <3>3. PICK done \in Seq(FileHeader) : done = rcv[q].received
      BY <1>2, <1>3 DEF Manifest
    <3>4. /\ Len(rest) \in Nat /\ Len(rest) # 0 /\ Head(rest) = rest[1]
      BY <3>2, EmptySeq, LenProperties
    <3>5. /\ \A i \in 1..n : (done \o rest)[i] = done[i]
          /\ \A i \in 1..Len(rest) : (done \o rest)[n + i] = rest[i]
      BY <1>9, <3>3, <3>4, ConcatProperties
    <3>6. CASE k = n + 1
      <4>1. 1 \in 1..Len(rest)
        BY <3>4
      <4>2. snd[p].offered[n + 1] = rest[1]
        BY <3>1, <3>2, <3>3, <3>5, <4>1
      <4> QED
        BY <1>2, <1>10, <3>2, <3>4, <3>6, <4>2 DEF header
    <3>7. CASE k \in 1..n
      BY <1>2, <1>10, <3>1, <3>2, <3>3, <3>5, <3>7, ZenonT(30)
    <3> QED
      BY <3>6, <3>7
  <2>9. up => Kept(saved'[q], snd[p].offered, snd[p].filesSent + 1)
    BY <1>10, <2>5, <2>7, <2>8 DEF Kept
  <2>10. \A m \in ToSet(w) : Tells(m, p, q)'
    <3> SUFFICES ASSUME NEW m \in ToSet(w) PROVE Tells(m, p, q)'
      OBVIOUS
    <3>1. up /\ (m.type = "Progress" \/ m.type = "FileTransferComplete")
      BY <1>4, <1>6, <2>2, <2>4
    <3> QED
      BY <1>1, <1>7, <2>5, <2>7, <2>9, <3>1 DEF Tells, Unread
  <2>11. \A m \in ToSet(w) : m.type \in Answer \union {"Progress"}
    BY <1>4, <1>6, <2>2, <2>4 DEF Answer
  <2>12. up /\ activity[p] = "Sending" =>
           /\ rcv'[q].accepted # <<>> =>
                /\ rcv'[q].accepted = snd[p].offered
                /\ Len(rcv'[q].received) = snd[p].filesSent +
                     (IF Carries(w, "FileTransferComplete") THEN 1 ELSE 0)
           /\ rcv'[q].receiver # None => rcv'[q].receiver.header = Begun(snd[p])
    BY <1>7, <1>10, <2>4, <2>5, <2>7
  <2>13. up => net'[q] = <<>>
    BY <2>3, <2>7
  <2> QED
    BY <1>1, <1>7, <2>3, <2>4, <2>5, <2>6, <2>10, <2>11, <2>12, <2>13, AnsweringReceiver
<1> QED
  BY <1>5, <1>11, <1>12, <1>13

-----------------------------------------------------------------------------
(* Steps of the end that sends.                                            *)

HeaderFrame(c) == [type |-> "Header", header |-> [name |-> c.name, size |-> c.size]]

\* At most one partition of chunks, all together.
Window(s) ==
  \E h \in Int : \A j \in 1..Len(s) : s[j].type = "Chunk" => j - h \in 1..PartitionSize

\* One partition: a header at most, the chunks in order, and a pause at most.
OnePartition(all, c, last, pause) ==
  /\ all \in Seq(Message) /\ Shape(all) /\ Window(all)
  /\ \A m \in ToSet(all) : \/ m = HeaderFrame(c)
                           \/ m.type = "Chunk"
                           \/ m.type = "Partition" /\ pause # <<>>
  /\ \A j \in 1..Len(all) :
       all[j].type = "Chunk" /\ (j < Len(all) => all[j + 1].type # "Chunk") =>
         all[j].chunk[2] = last

LEMMA PartitionFrames ==
  ASSUME NEW c \in Chunker, NEW last \in c.offset..PartitionEnd(c), NEW grown \in BOOLEAN,
         NEW header, header = <<>> \/ header = <<HeaderFrame(c)>>,
         NEW pause, pause = <<>> \/ pause = <<[type |-> "Partition"]>>,
         NEW frames, frames = header \o ChunksOf(c.name, c.offset + 1, last, grown) \o pause
  PROVE  OnePartition(frames, c, last, pause)
<1>1. /\ c.offset \in Nat /\ c.name \in File /\ c.size \in Nat /\ last \in Nat
      /\ c.offset <= last
  BY PartitionEndType DEF Chunker
<1>2. PICK n \in Nat : n = last - c.offset
  BY <1>1
<1>3. PICK chunks \in Seq(Message) :
        /\ chunks = ChunksOf(c.name, c.offset + 1, last, grown) /\ Len(chunks) = n
        /\ \A i \in 1..n : chunks[i].type = "Chunk" /\ chunks[i].chunk[2] = c.offset + i
  <2>1. ChunksOf(c.name, c.offset + 1, last, grown) \in Seq(Message)
    <3>1. c.offset + 1 \in Nat /\ c.offset + 1 <= last + 1
      BY <1>1
    <3> QED
      BY <1>1, <3>1, ChunksType
  <2>2. PICK chunks \in Seq(Message) : chunks = ChunksOf(c.name, c.offset + 1, last, grown)
    BY <2>1
  <2>3. last - (c.offset + 1) + 1 = n
    BY <1>1, <1>2
  <2>4. chunks = [i \in 1..n |-> [type |-> "Chunk", chunk |-> <<c.name, (c.offset + 1) + i - 1>>,
                                   over |-> grown /\ i = n]]
    BY <2>2, <2>3, Zenon DEF ChunksOf
  <2>5. Len(chunks) = n
    <3>1. DOMAIN chunks = 1..n
      BY <2>4, Zenon
    <3>2. PICK m \in Nat : m = Len(chunks) /\ 1..m = 1..n
      BY <3>1, LenProperties
    <3>3. m = 0 \/ m \in 1..n
      BY <3>2
    <3>4. n = 0 \/ n \in 1..m
      BY <3>2
    <3> QED
      BY <3>2, <3>3, <3>4
  <2>6. ASSUME NEW i \in 1..n
        PROVE  chunks[i].type = "Chunk" /\ chunks[i].chunk[2] = c.offset + i
    <3>1. chunks[i] = [type |-> "Chunk", chunk |-> <<c.name, (c.offset + 1) + i - 1>>,
                       over |-> grown /\ i = n]
      BY <2>4, Zenon
    <3>2. (c.offset + 1) + i - 1 = c.offset + i
      BY <1>1
    <3> QED
      BY <3>1, <3>2
  <2> QED
    BY <2>2, <2>5, <2>6
<1>4. PICK h \in {0, 1}, first \in Seq(Message) :
        /\ first = header /\ Len(first) = h
        /\ \A i \in 1..h : i = 1 /\ first[i] = HeaderFrame(c)
  <2>1. HeaderFrame(c) \in Message
    BY <1>1, MessageConstructors DEF HeaderFrame, FileHeader
  <2>2. /\ <<>> \in Seq(Message) /\ Len(<<>>) = 0 /\ <<HeaderFrame(c)>> \in Seq(Message)
        /\ Len(<<HeaderFrame(c)>>) = 1 /\ <<HeaderFrame(c)>>[1] = HeaderFrame(c)
    BY <2>1
  <2>3. \A i \in 1..1 : i = 1
    OBVIOUS
  <2>4. \A i \in 1..0 : FALSE
    OBVIOUS
  <2>5. CASE header = <<>>
    BY <2>2, <2>4, <2>5
  <2>6. CASE header = <<HeaderFrame(c)>>
    BY <2>2, <2>3, <2>6
  <2> QED
    BY <2>5, <2>6
<1>5. PICK e \in {0, 1}, rest \in Seq(Message) :
        /\ rest = pause /\ Len(rest) = e
        /\ \A i \in 1..e : i = 1 /\ rest[i].type = "Partition"
  <2>1. [type |-> "Partition"] \in Message
    BY MessageConstructors
  <2>2. PICK empty \in Seq(Message) : empty = <<>> /\ Len(empty) = 0
    <3>1. <<>> \in Seq(Message) /\ Len(<<>>) = 0
      OBVIOUS
    <3> QED
      BY <3>1
  <2>3. PICK one \in Seq(Message) :
          one = <<[type |-> "Partition"]>> /\ Len(one) = 1 /\ one[1].type = "Partition"
    <3>1. /\ <<[type |-> "Partition"]>> \in Seq(Message) /\ Len(<<[type |-> "Partition"]>>) = 1
          /\ <<[type |-> "Partition"]>>[1].type = "Partition"
      BY <2>1
    <3> QED
      BY <3>1
  <2>4. (\A i \in 1..1 : i = 1) /\ (\A i \in 1..0 : FALSE)
    OBVIOUS
  <2>5. CASE pause = empty
    <3> WITNESS 0 \in {0, 1}, empty \in Seq(Message)
    <3> QED
      BY <2>2, <2>4, <2>5
  <2>6. CASE pause = one
    <3> WITNESS 1 \in {0, 1}, one \in Seq(Message)
    <3> QED
      BY <2>3, <2>4, <2>6
  <2> QED
    BY <2>2, <2>3, <2>5, <2>6
<1>6. PICK some \in Seq(Message) :
        /\ some = first \o chunks /\ Len(some) = h + n
        /\ \A i \in 1..h : some[i] = first[i]
        /\ \A i \in 1..n : some[h + i] = chunks[i]
  <2>1. PICK some \in Seq(Message) : some = first \o chunks
    BY ConcatProperties
  <2>2. /\ Len(some) = Len(first) + Len(chunks)
        /\ \A i \in 1..Len(first) : some[i] = first[i]
        /\ \A i \in 1..Len(chunks) : some[Len(first) + i] = chunks[i]
    BY <2>1, ConcatProperties
  <2> QED
    BY <1>3, <1>4, <2>1, <2>2, ZenonT(40)
<1>7. PICK all \in Seq(Message) :
        /\ all = some \o rest /\ Len(all) = h + n + e
        /\ \A i \in 1..(h + n) : all[i] = some[i]
        /\ \A i \in 1..e : all[h + n + i] = rest[i]
  <2>1. PICK all \in Seq(Message) : all = some \o rest
    BY ConcatProperties
  <2>2. /\ Len(all) = Len(some) + Len(rest)
        /\ \A i \in 1..Len(some) : all[i] = some[i]
        /\ \A i \in 1..Len(rest) : all[Len(some) + i] = rest[i]
    BY <2>1, ConcatProperties
  <2> QED
    <3>1. Len(some) = h + n /\ Len(rest) = e
      BY <1>5, <1>6
    <3>2. Len(all) = h + n + e
      BY <2>2, <3>1
    <3>3. \A i \in 1..(h + n) : all[i] = some[i]
      BY <2>2, <3>1
    <3>4. \A i \in 1..e : all[h + n + i] = rest[i]
      BY <2>2, <3>1
    <3> QED
      BY <2>1, <3>2, <3>3, <3>4
<1>8. frames = all
  BY <1>3, <1>4, <1>5, <1>6, <1>7
<1>9. ASSUME NEW j \in 1..Len(all)
      PROVE  \/ j = 1 /\ all[j] = HeaderFrame(c) /\ h = 1
             \/ /\ j - h \in 1..n /\ all[j].type = "Chunk" /\ all[j].chunk[2] = c.offset + (j - h)
             \/ j = Len(all) /\ all[j].type = "Partition" /\ pause # <<>>
  <2>1. j \in 1..h \/ j - h \in 1..n \/ j - (h + n) \in 1..e
    BY <1>7, SMTT(20)
  <2>2. CASE j \in 1..h
    <3>1. j \in 1..(h + n) /\ j = 1 /\ h = 1
      BY <1>4, <2>2
    <3> QED
      BY <1>4, <1>6, <1>7, <2>2, <3>1
  <2>3. CASE j - h \in 1..n
    <3>1. PICK i \in 1..n : i = j - h /\ j = h + i /\ j \in 1..(h + n)
      BY <2>3
    <3>2. all[j] = chunks[i]
      BY <1>6, <1>7, <3>1, SMTT(20)
    <3> QED
      BY <1>3, <3>1, <3>2
  <2>4. CASE j - (h + n) \in 1..e
    <3>1. PICK i \in 1..e : i = j - (h + n) /\ j = h + n + i
      BY <2>4
    <3>2. i = 1 /\ e = 1
      BY <1>5, <3>1
    <3>3. all[j] = rest[i]
      BY <1>7, <3>1
    <3>4. pause # <<>>
      <4>1. Len(rest) # 0
        BY <1>5, <3>2
      <4>2. rest # <<>>
        BY <4>1, EmptySeq
      <4> QED
        BY <1>5, <4>2
    <3> QED
      BY <1>5, <1>7, <3>1, <3>2, <3>3, <3>4
  <2> QED
    BY <2>1, <2>2, <2>3, <2>4
<1>10. HeaderFrame(c).type = "Header"
  BY DEF HeaderFrame
<1>11. Shape(all)
  BY <1>9, <1>10 DEF Shape
<1>12. \A m \in ToSet(all) :
         m = HeaderFrame(c) \/ m.type = "Chunk" \/ (m.type = "Partition" /\ pause # <<>>)
  <2> TAKE m \in ToSet(all)
  <2>1. PICK j \in 1..Len(all) : m = all[j]
    BY FramesIndexed, Zenon
  <2> QED
    BY <1>9, <2>1, Zenon
<1>13. ASSUME NEW j \in 1..Len(all), all[j].type = "Chunk",
              j < Len(all) => all[j + 1].type # "Chunk"
       PROVE  all[j].chunk[2] = last
  <2>1. j - h \in 1..n /\ all[j].chunk[2] = c.offset + (j - h)
    BY <1>9, <1>10, <1>13
  <2>2. CASE j - h = n
    BY <1>1, <1>2, <2>1, <2>2
  <2>3. CASE j - h # n
    <3>0. PICK k \in Nat : k = h
      OBVIOUS
    <3>4. /\ (j - k) + 1 \in 1..n /\ j + 1 = k + ((j - k) + 1)
      BY <2>1, <2>3, <3>0
    <3>1. PICK i \in 1..n : i = (j - h) + 1 /\ j + 1 = h + i
      BY <3>0, <3>4, Zenon
    <3>2. h + i \in 1..(h + n) /\ j < Len(all)
      BY <1>7, <3>1
    <3>3. all[j + 1] = chunks[i]
      BY <1>6, <1>7, <3>1, <3>2
    <3> QED
      BY <1>3, <1>13, <3>2, <3>3
  <2> QED
    BY <2>2, <2>3
<1>14. Window(all)
  <2>1. n <= PartitionSize /\ PartitionSize \in Nat /\ h \in Int
    BY <1>1, <1>2, PartitionAssumption, SMTT(20) DEF PartitionEnd
  <2>2. \A j \in 1..Len(all) : all[j].type = "Chunk" => j - h \in 1..n
    BY <1>9, <1>10
  <2>3. \A j \in 1..Len(all) : all[j].type = "Chunk" => j - h \in 1..PartitionSize
    BY <2>1, <2>2
  <2> QED
    BY <2>1, <2>3 DEF Window
<1> QED
  BY <1>8, <1>11, <1>12, <1>13, <1>14 DEF OnePartition

\* The other end is the only one.
LEMMA Opposite ==
  ASSUME NEW p \in Peer, NEW q \in Peer, p = Other(q)
  PROVE  q = Other(p) /\ p # q
BY TwoPeers

\* When an answer arrives it was the only one, and nothing is on its way to the other end.
LEMMA AnswerArrives ==
  ASSUME TypeInv, NEW p \in Peer, NEW q \in Peer, Turns(p, q), net[p] # <<>>,
         Head(net[p]).type \in Answer
  PROVE  /\ Tail(net[p]) \in Seq(Message) /\ ~Answering(Tail(net[p]))
         /\ ToSet(Tail(net[p])) \subseteq ToSet(net[p])
         /\ ClosedLast(Tail(net[p]), up) /\ (up => net[q] = <<>>)
         /\ Tells(Head(net[p]), p, q)
<1>1. /\ net[p] \in Seq(Message) /\ net[q] \in Seq(Message) /\ up \in BOOLEAN
      /\ Head(net[p]) \in ToSet(net[p])
      /\ Tail(net[p]) \in Seq(Message) /\ ToSet(Tail(net[p])) \subseteq ToSet(net[p])
  BY NetIsFrames, FramesTail
<1>2. OneAnswer(net[p]) /\ Answering(net[p]) /\ Tells(Head(net[p]), p, q)
  BY <1>1 DEF Turns, Answered, Answering
<1>3. ~Answering(Tail(net[p]))
  BY <1>1, <1>2, OneAnswerTail
<1>4. ClosedLast(Tail(net[p]), up)
  BY <1>1, ClosedTail DEF Turns
<1>5. up => net[q] = <<>>
  BY <1>1, <1>2, OnlyClosed DEF Turns, Answered
<1> QED
  BY <1>1, <1>2, <1>3, <1>4, <1>5

\* What send_next_partition writes and leaves, of a half that has a file open.
PartitionPause(c, last) ==
  IF Reading(c, last).offset < c.size THEN <<[type |-> "Partition"]>> ELSE <<>>
PartitionWritten(c, last, header, grown) ==
  header \o ChunksOf(c.name, c.offset + 1, last, grown) \o PartitionPause(c, last)

\* The half `sender` is what is left of s once its chunks up to `last` are sent.
PartitionSent(p, s, header, last, grown, sender) ==
  /\ Exchange(p, PartitionWritten(s.chunker, last, header, grown))
  /\ activity' = [activity EXCEPT ![p] = "Sending"]
  /\ UNCHANGED <<rcv, up, saved>>
  /\ Reading(s.chunker, last) \in Chunker
  /\ Reading(s.chunker, last).name = s.chunker.name
  /\ Reading(s.chunker, last).size = s.chunker.size
  /\ \/ Reading(s.chunker, last).offset = last
     \/ Reading(s.chunker, last).offset = s.chunker.size /\ Fault
  /\ snd' = [snd EXCEPT ![p] = sender]
  /\ sender.chunker \in Chunker /\ sender.chunker # None
  /\ sender.offered = s.offered /\ sender.queue = s.queue
  /\ sender.filesSent = s.filesSent
  /\ up => sender.chunker = Reading(s.chunker, last)

LEMMA PartitionPut ==
  ASSUME NEW p \in Peer, NEW s \in Sender, s.chunker \in Chunker,
         NEW header, header = <<>> \/ header = <<HeaderFrame(s.chunker)>>,
         NEW pushed,
         NEW last \in s.chunker.offset..PartitionEnd(s.chunker), NEW grown \in BOOLEAN,
         last = PartitionEnd(s.chunker) \/ Fault,
         PutPartition(p, s, "Sending", header, pushed, last, grown)
  PROVE  \E sender : PartitionSent(p, s, header, last, grown, sender)
<1> DEFINE c == s.chunker
           read == Reading(c, last)
           pause == IF read.offset < c.size THEN <<[type |-> "Partition"]>> ELSE <<>>
           frames == header \o ChunksOf(c.name, c.offset + 1, last, grown) \o pause
<1>2. /\ Exchange(p, frames) /\ activity' = [activity EXCEPT ![p] = "Sending"]
      /\ UNCHANGED <<rcv, up, saved>>
      /\ \E written \in WriteOutcomes :
           IF written
           THEN \E sent : snd' = [snd EXCEPT ![p] = [s EXCEPT !.chunker = read, !.sentIn = sent]]
           ELSE snd' = [snd EXCEPT ![p] =
                  [s EXCEPT !.chunker = IF header = <<>> THEN read ELSE c]]
  <2>1. /\ Exchange(p, frames) /\ activity' = [activity EXCEPT ![p] = "Sending"]
        /\ UNCHANGED <<rcv, up, saved>>
    BY Zenon DEF PutPartition
  <2>2. PICK written \in WriteOutcomes :
          IF written
          THEN \E sent : snd' = [snd EXCEPT ![p] = [s EXCEPT !.chunker = read, !.sentIn = sent]]
          ELSE snd' = [snd EXCEPT ![p] =
                 [s EXCEPT !.chunker = IF header = <<>> THEN read ELSE c]]
    BY Zenon DEF PutPartition
  <2> QED
    BY <2>1, <2>2
<1>3. /\ read \in Chunker /\ read.name = c.name /\ read.size = c.size
      /\ read.offset = last \/ (read.offset = c.size /\ Fault)
      /\ c \in Chunker /\ last \in Nat
  BY ReadingType, PartitionEndType DEF Reading, Chunker
<1>4. PICK sender :
        /\ snd' = [snd EXCEPT ![p] = sender]
        /\ sender.chunker \in Chunker /\ sender.chunker # None
        /\ sender.offered = s.offered /\ sender.queue = s.queue
        /\ sender.filesSent = s.filesSent
        /\ up => sender.chunker = read
  <2> HIDE DEF read, c
  <2>1. \A written \in WriteOutcomes : up => written
    BY DEF WriteOutcomes
  <2>2. \A some \in Chunker : some # None
    BY NoneAssumption DEF Chunker
  <2>3. c = s.chunker
    BY DEF c
  <2>4. \A sent : LET half == [s EXCEPT !.chunker = read, !.sentIn = sent]
                  IN  /\ half.chunker = read /\ half.offered = s.offered
                      /\ half.queue = s.queue /\ half.filesSent = s.filesSent
    BY DEF Sender
  <2>6. PICK written \in WriteOutcomes :
          IF written
          THEN \E sent : snd' = [snd EXCEPT ![p] = [s EXCEPT !.chunker = read, !.sentIn = sent]]
          ELSE snd' = [snd EXCEPT ![p] =
                 [s EXCEPT !.chunker = IF header = <<>> THEN read ELSE c]]
    BY <1>2
  <2>7. CASE written
    <3>1. PICK sent : snd' = [snd EXCEPT ![p] = [s EXCEPT !.chunker = read, !.sentIn = sent]]
      BY <2>6, <2>7
    <3> QED
      BY <1>3, <2>2, <2>4, <3>1
  <2>8. CASE ~written
    <3>1. PICK some \in {read, c} : snd' = [snd EXCEPT ![p] = [s EXCEPT !.chunker = some]]
      BY <2>6, <2>8
    <3>2. some \in Chunker /\ some # None /\ ~up
      <4>1. ~up
        BY <2>1, <2>8
      <4>2. read \in Chunker /\ c \in Chunker
        BY <1>3
      <4>3. some \in Chunker
        BY <4>2
      <4> QED
        BY <2>2, <4>1, <4>3
    <3>3. PICK half : half = [s EXCEPT !.chunker = some]
      OBVIOUS
    <3>4. /\ half.chunker = some /\ half.offered = s.offered
          /\ half.queue = s.queue /\ half.filesSent = s.filesSent
      BY <3>3 DEF Sender
    <3> QED
      BY <3>1, <3>2, <3>3, <3>4
  <2> QED
    BY <2>7, <2>8
<1>5. frames = PartitionWritten(c, last, header, grown)
  BY DEF PartitionWritten, PartitionPause
<1>6. PartitionSent(p, s, header, last, grown, sender)
  BY <1>2, <1>3, <1>4, <1>5 DEF PartitionSent
<1> QED
  BY <1>6

LEMMA PutPartitionTurns ==
  ASSUME TypeInv, NEW p \in Peer, NEW q \in Peer, p = Other(q), Turns(p, q),
         net[p] # <<>>, Head(net[p]).type \in Answer,
         NEW s \in Sender, s.chunker \in Chunker,
         NEW header, header = <<>> \/ header = <<HeaderFrame(s.chunker)>>,
         NEW pushed,
         NEW last \in s.chunker.offset..PartitionEnd(s.chunker), NEW grown \in BOOLEAN,
         PutPartition(p, s, "Sending", header, pushed, last, grown),
         NoFault \/ Fault, last = PartitionEnd(s.chunker) \/ Fault,
         s.offered = snd[p].offered,
         Len(s.queue) + s.filesSent + 1 = Len(s.offered),
         \A i \in 1..Len(s.queue) : s.queue[i] = s.offered[s.filesSent + 1 + i].name,
         up => rcv[q].pending = <<>>,
         up /\ rcv[q].accepted # <<>> =>
           rcv[q].accepted = s.offered /\ Len(rcv[q].received) = s.filesSent,
         up /\ rcv[q].receiver # None => rcv[q].receiver.header = Begun(s)
  PROVE  Turns(p, q)'
<1> DEFINE c == s.chunker
           read == Reading(c, last)
           pause == IF read.offset < c.size THEN <<[type |-> "Partition"]>> ELSE <<>>
           frames == header \o ChunksOf(c.name, c.offset + 1, last, grown) \o pause
<1>1. q = Other(p) /\ p # q
  BY Opposite
<1>0. PICK sender : PartitionSent(p, s, header, last, grown, sender)
  BY PartitionPut, ZenonT(60)
<1>2. /\ Exchange(p, frames) /\ activity' = [activity EXCEPT ![p] = "Sending"]
      /\ UNCHANGED <<rcv, up, saved>>
  BY <1>0, Zenon DEF PartitionSent, PartitionWritten, PartitionPause
<1>3. /\ read \in Chunker /\ read.name = c.name /\ read.size = c.size
      /\ read.offset = last \/ (read.offset = c.size /\ Fault)
      /\ c \in Chunker /\ last \in Nat
  BY <1>0, PartitionEndType DEF PartitionSent, Chunker
<1>4. /\ snd' = [snd EXCEPT ![p] = sender]
      /\ sender.chunker \in Chunker /\ sender.chunker # None
      /\ sender.offered = s.offered /\ sender.queue = s.queue
      /\ sender.filesSent = s.filesSent
      /\ up => sender.chunker = read
  BY <1>0 DEF PartitionSent
<1>5. /\ frames \in Seq(Message) /\ Shape(frames)
      /\ \A m \in ToSet(frames) :
           \/ m = HeaderFrame(c) \/ m.type = "Chunk"
           \/ m.type = "Partition" /\ read.offset < c.size
      /\ \A j \in 1..Len(frames) :
           frames[j].type = "Chunk" /\ (j < Len(frames) => frames[j + 1].type # "Chunk") =>
             frames[j].chunk[2] = last
  <2> HIDE DEF read, c, frames
  <2>1. pause # <<>> => read.offset < c.size
    OBVIOUS
  <2>2. pause = <<>> \/ pause = <<[type |-> "Partition"]>>
    OBVIOUS
  <2>3. c \in Chunker /\ last \in c.offset..PartitionEnd(c)
    BY DEF c
  <2>4. header = <<>> \/ header = <<HeaderFrame(c)>>
    BY DEF c
  <2> HIDE DEF pause
  <2>5. frames = header \o ChunksOf(c.name, c.offset + 1, last, grown) \o pause
    BY DEF frames
  <2>6. OnePartition(frames, c, last, pause)
    BY <2>2, <2>3, <2>4, <2>5, PartitionFrames, Zenon
  <2> QED
    BY <2>1, <2>6 DEF OnePartition
<1> HIDE DEF frames, pause, read
<1>6. PICK w \in Seq(Message) :
        /\ w = Written(frames) /\ (up \/ w = <<>>) /\ ToSet(w) \subseteq ToSet(frames)
        /\ net'[p] = Tail(net[p]) /\ net'[q] = net[q] \o w
  BY <1>1, <1>2, <1>5, Exchanged
<1>7. /\ net'[p] \in Seq(Message) /\ ~Answering(net'[p])
      /\ ToSet(net'[p]) \subseteq ToSet(net[p]) /\ ClosedLast(net'[p], up)
      /\ up => net[q] = <<>>
  BY <1>6, AnswerArrives
<1>8. /\ net[q] \in Seq(Message) /\ net'[q] \in Seq(Message) /\ up \in BOOLEAN
      /\ ToSet(net'[q]) = ToSet(net[q]) \union ToSet(w)
  BY <1>6, NetIsFrames, FramesConcat
<1>9. /\ snd'[p] = sender /\ activity'[p] = "Sending" /\ activity'[q] = activity[q]
  BY <1>1, <1>2, <1>4 DEF TypeInv, TypeOK
<1>10. \A m \in ToSet(w) : m.type \in {"Header", "Chunk", "Partition"}
  BY <1>5, <1>6 DEF HeaderFrame
<1>11. Roles(p, q)'
  BY <1>2, <1>7, <1>8, <1>9, <1>10 DEF Turns, Roles, Outgoing
<1>12. ClosedLast(net'[p], up') /\ ClosedLast(net'[q], up')
  <2>1. ~Carries(w, "Closed")
    BY <1>10 DEF Carries
  <2> QED
    BY <1>2, <1>6, <1>7, <1>8, <2>1, ClosedConcat DEF Turns
<1>13. Batch(p)'
  <2>1. Batch(p)
    BY DEF Turns
  <2>2. snd'[p].offered = snd[p].offered
    BY <1>4, <1>9
  <2>3. /\ snd'[p].chunker # None /\ snd'[p].queue = s.queue
        /\ snd'[p].filesSent = s.filesSent /\ activity'[p] = "Sending"
    BY <1>4, <1>9
  <2>4. \A i \in 1..Len(snd'[p].offered) :
          /\ snd'[p].offered[i].size = Size[snd'[p].offered[i].name]
          /\ snd'[p].offered[i].size > 0
    BY <2>1, <2>2 DEF Batch
  <2>5. /\ Len(s.queue) + s.filesSent + 1 = Len(snd[p].offered)
        /\ \A i \in 1..Len(s.queue) :
             s.queue[i] = snd[p].offered[s.filesSent + 1 + i].name
    OBVIOUS
  <2>6. /\ Len(snd'[p].queue) + snd'[p].filesSent + 1 = Len(snd'[p].offered)
        /\ \A i \in 1..Len(snd'[p].queue) :
             snd'[p].queue[i] = snd'[p].offered[snd'[p].filesSent + 1 + i].name
    BY <2>2, <2>3, <2>5, Zenon
  <2> QED
    BY <2>3, <2>4, <2>6 DEF Batch
<1>14. Answered(p, q)'
  <2>1. OneAnswer(net'[p])
    BY <1>7, NoAnswerIsOne
  <2>2. \A m \in ToSet(net'[p]) : m.type \notin Answer
    BY <1>7 DEF Answering
  <2> QED
    BY <1>7, <2>1, <2>2 DEF Answered, Answer, Tells
<1>15. KeptSoFar(q)'
  BY <1>2 DEF Turns, KeptSoFar
<1>16. ASSUME up
       PROVE  net'[q] = frames /\ sender.chunker = read
  <2>1. w = frames
    BY <1>6, <1>16 DEF Written
  <2> QED
    BY <1>4, <1>5, <1>6, <1>7, <1>16, <2>1, ConcatEmptySeq
<1>17. ASSUME up PROVE Asking(p, q)'
  <2>1. HeaderFrame(c).type = "Header" /\ HeaderFrame(c).header = Begun(sender)
    BY <1>3, <1>16, <1>17 DEF HeaderFrame, Begun
  <2> QED
    BY <1>2, <1>3, <1>5, <1>9, <1>16, <1>17, <2>1 DEF Asking, Unread
<1>18. ASSUME up PROVE Engaged(p, q)'
  <2>1. LastChunk(net'[q], snd'[p], Faultless')
    <3>1. last = sender.chunker.offset \/ (~Faultless' /\ ~Unread(sender))
      <4>1. read.offset = last \/ ~Faultless'
        BY <1>3, FaultsStay
      <4>2. read.offset = last \/ ~Unread(sender)
        BY <1>3, <1>16, <1>18 DEF Unread, Chunker
      <4> QED
        BY <1>16, <1>18, <4>1, <4>2
    <3> QED
      BY <1>5, <1>9, <1>16, <1>18, <3>1 DEF LastChunk
  <2>2. ~Carries(net'[p], "FileTransferComplete")
    BY <1>7 DEF Answering, Answer, Carries
  <2>3. s.filesSent \in Nat /\ s.filesSent + 0 = s.filesSent
    BY DEF Sender
  <2>4. Begun(sender) = Begun(s)
    BY <1>3, <1>16, <1>18 DEF Begun
  <2> QED
    BY <1>2, <1>4, <1>9, <1>18, <2>1, <2>2, <2>3, <2>4 DEF Engaged, Begun
<1> QED
  BY <1>2, <1>11, <1>12, <1>13, <1>14, <1>15, <1>17, <1>18 DEF Turns

\* An end that stops sending, with a header on its way at most.
LEMMA StopsTurns ==
  ASSUME TypeInv, NEW p \in Peer, NEW q \in Peer, Turns(p, q),
         net'[p] \in Seq(Message), ~Answering(net'[p]),
         ToSet(net'[p]) \subseteq ToSet(net[p]), ClosedLast(net'[p], up),
         up => net[q] = <<>> /\ rcv[q].pending = <<>>,
         NEW w \in Seq(Message), w = <<>> \/ \E m \in Message : m.type = "Header" /\ w = <<m>>,
         up \/ w = <<>>, net'[q] = net[q] \o w,
         activity'[p] = "Idle", snd'[p].offered = snd[p].offered, rcv'[p].pending = <<>>,
         activity'[q] = activity[q], rcv'[q] = rcv[q], saved'[q] = saved[q], up' = up
  PROVE  Turns(p, q)'
<1>1. /\ net[q] \in Seq(Message) /\ net'[q] \in Seq(Message) /\ up \in BOOLEAN
      /\ ToSet(net'[q]) = ToSet(net[q]) \union ToSet(w)
  BY NetIsFrames, FramesConcat
<1>2. \A m \in ToSet(w) : m.type = "Header"
  BY FramesEmpty, FramesOne
<1>3. Roles(p, q)'
  BY <1>1, <1>2 DEF Turns, Roles, Outgoing
<1>4. ClosedLast(net'[p], up') /\ ClosedLast(net'[q], up')
  <2>1. ~Carries(w, "Closed")
    BY <1>2 DEF Carries
  <2> QED
    BY <1>1, <2>1, ClosedConcat DEF Turns
<1>5. Batch(p)'
  BY DEF Turns, Batch
<1>6. Answered(p, q)'
  <2>1. OneAnswer(net'[p])
    BY NoAnswerIsOne
  <2>2. \A m \in ToSet(net'[p]) : m.type \notin Answer
    BY DEF Answering
  <2> QED
    BY <2>1, <2>2 DEF Answered, Answer, Tells
<1>7. KeptSoFar(q)'
  BY DEF Turns, KeptSoFar
<1>8. ASSUME up PROVE Asking(p, q)'
  <2>1. ToSet(net'[q]) = ToSet(w)
    BY <1>1, <1>8, FramesEmpty
  <2>2. Shape(net'[q])
    <3>1. net'[q] = w
      BY <1>8, ConcatEmptySeq
    <3>2. \A j \in 1..Len(w) : j = 1 /\ w[j].type = "Header"
      <4>1. w = <<>> \/ (Len(w) = 1 /\ w[1].type = "Header")
        OBVIOUS
      <4> QED
        BY <4>1
    <3> QED
      BY <3>1, <3>2 DEF Shape
  <2> QED
    BY <1>2, <1>8, <2>1, <2>2 DEF Asking
<1>9. Engaged(p, q)'
  BY DEF Engaged
<1> QED
  BY <1>3, <1>4, <1>5, <1>6, <1>7, <1>8, <1>9 DEF Turns

\* An answer finds nobody at the other end still asked.
LEMMA AnswerEnds ==
  ASSUME TypeInv, NEW p \in Peer, NEW q \in Peer, Turns(p, q), net[p] # <<>>,
         Head(net[p]).type \in Answer, up
  PROVE  rcv[q].pending = <<>>
<1>1. Head(net[p]) \in ToSet(net[p])
  BY NetIsFrames, FramesTail
<1> QED
  BY <1>1 DEF Turns, Asking, Answering

LEMMA SenderFailTurns ==
  ASSUME TypeInv, NEW p \in Peer, NEW q \in Peer, p = Other(q), Turns(p, q),
         net[p] # <<>>, Head(net[p]).type \in Answer, NEW pushed, NEW frames,
         frames = <<>> \/ \E m \in Message : m.type = "Header" /\ frames = <<m>>,
         Fail(p, frames, pushed)
  PROVE  Turns(p, q)'
<1>1. q = Other(p) /\ p # q /\ q # p /\ frames \in Seq(Message)
  <2>1. \A m \in Message : <<m>> \in Seq(Message)
    BY FramesOne
  <2> QED
    BY <2>1, Opposite, EmptySeq, ZenonT(30)
<1>2. /\ Exchange(p, frames) /\ UNCHANGED <<up, saved>>
      /\ activity' = [activity EXCEPT ![p] = "Idle"]
      /\ snd' = [snd EXCEPT ![p] = ResetSnd(p)]
      /\ rcv' = [rcv EXCEPT ![p] = ResetRcv(p)]
  BY DEF Fail
<1>3. /\ activity'[p] = "Idle" /\ activity'[q] = activity[q] /\ snd'[p] = ResetSnd(p)
      /\ rcv'[p] = ResetRcv(p) /\ rcv'[q] = rcv[q] /\ saved'[q] = saved[q] /\ up' = up
  BY <1>1, <1>2 DEF TypeInv, TypeOK
<1>4. PICK w \in Seq(Message) :
        /\ w = Written(frames) /\ (up \/ w = <<>>)
        /\ net'[p] = Tail(net[p]) /\ net'[q] = net[q] \o w
  BY <1>1, <1>2, Exchanged
<1>5. w = <<>> \/ \E m \in Message : m.type = "Header" /\ w = <<m>>
  BY <1>4 DEF Written
<1>6. /\ net'[p] \in Seq(Message) /\ ~Answering(net'[p])
      /\ ToSet(net'[p]) \subseteq ToSet(net[p]) /\ ClosedLast(net'[p], up)
      /\ (up => net[q] = <<>> /\ rcv[q].pending = <<>>)
  BY <1>4, AnswerArrives, AnswerEnds
<1>7. snd'[p].offered = snd[p].offered /\ rcv'[p].pending = <<>>
  BY <1>3, ResetFields
<1> QED
  BY <1>2, <1>3, <1>4, <1>5, <1>6, <1>7, StopsTurns

\* What next_file makes of an outgoing half, and what it writes, for a file of this size.
FileOpened(s, size) ==
  [s EXCEPT !.queue = Tail(@), !.sentIn = 0,
            !.chunker = [name |-> Head(s.queue), size |-> size, offset |-> 0]]
FileHeaderOf(s, size) ==
  <<[type |-> "Header", header |-> [name |-> Head(s.queue), size |-> size]]>>

\* The half that next_file makes of s and sends from, up to the chunk `last`.
Opens(p, s, next, last, grown, pushed) ==
  /\ next \in Sender /\ next.chunker \in Chunker
  /\ last \in next.chunker.offset..PartitionEnd(next.chunker) /\ grown \in BOOLEAN
  /\ PutPartition(p, next, "Sending", <<HeaderFrame(next.chunker)>>, pushed, last, grown)
  /\ NoFault \/ Fault
  /\ last = PartitionEnd(next.chunker) \/ Fault
  /\ next.offered = s.offered /\ next.queue = Tail(s.queue) /\ next.filesSent = s.filesSent

LEMMA FileOpenedFields ==
  ASSUME NEW s \in Sender, s.queue # <<>>, NEW size \in Nat
  PROVE  /\ FileOpened(s, size) \in Sender /\ FileOpened(s, size).chunker \in Chunker
         /\ FileOpened(s, size).chunker =
              [name |-> Head(s.queue), size |-> size, offset |-> 0]
         /\ FileHeaderOf(s, size) = <<HeaderFrame(FileOpened(s, size).chunker)>>
         /\ FileOpened(s, size).offered = s.offered
         /\ FileOpened(s, size).filesSent = s.filesSent
         /\ FileOpened(s, size).queue = Tail(s.queue)
         /\ PartitionEnd(FileOpened(s, size).chunker) \in FileOpened(s, size).chunker.offset..size
<1> DEFINE name == Head(s.queue)
<1>0. name \in File /\ Tail(s.queue) \in Seq(File)
  BY HeadTailProperties DEF Sender
<1>1. [name |-> name, size |-> size, offset |-> 0] \in Chunker
  BY <1>0 DEF Chunker
<1>2. /\ FileOpened(s, size).chunker = [name |-> name, size |-> size, offset |-> 0]
      /\ FileOpened(s, size).offered = s.offered /\ FileOpened(s, size).filesSent = s.filesSent
      /\ FileOpened(s, size).queue = Tail(s.queue)
  BY DEF Sender, FileOpened
<1>3. FileOpened(s, size) \in Sender
  BY <1>1, <1>0 DEF Sender, FileOpened
<1>4. FileHeaderOf(s, size) = <<HeaderFrame(FileOpened(s, size).chunker)>>
  BY <1>2 DEF HeaderFrame, FileHeaderOf
<1>5. PartitionEnd(FileOpened(s, size).chunker) \in FileOpened(s, size).chunker.offset..size
  BY <1>1, <1>2, PartitionEndType
<1> QED
  BY <1>1, <1>2, <1>3, <1>4, <1>5

\* next_file opens the next file, or fails with its header at most written.
LEMMA NextFilePuts ==
  ASSUME NEW p \in Peer, NEW s \in Sender, s.queue # <<>>, NEW pushed,
         NextFile(p, s, "Sending", pushed)
  PROVE  \/ \E next, last, grown : Opens(p, s, next, last, grown, pushed)
         \/ \E frames : /\ frames = <<>> \/ \E m \in Message : m.type = "Header" /\ frames = <<m>>
                        /\ Fail(p, frames, pushed)
<1> DEFINE name == Head(s.queue)
           Fails == \E frames :
             /\ frames = <<>> \/ \E m \in Message : m.type = "Header" /\ frames = <<m>>
             /\ Fail(p, frames, pushed)
<1>1. name \in File /\ Tail(s.queue) \in Seq(File) /\ Size[name] \in Nat
  BY HeadTailProperties, SizeAssumption DEF Sender
<1>2. ASSUME NEW size \in Nat
      PROVE  /\ FileOpened(s, size) \in Sender /\ FileOpened(s, size).chunker \in Chunker
             /\ FileOpened(s, size).chunker = [name |-> name, size |-> size, offset |-> 0]
             /\ FileHeaderOf(s, size) = <<HeaderFrame(FileOpened(s, size).chunker)>>
             /\ FileOpened(s, size).offered = s.offered /\ FileOpened(s, size).filesSent = s.filesSent
             /\ FileOpened(s, size).queue = Tail(s.queue)
             /\ PartitionEnd(FileOpened(s, size).chunker) \in FileOpened(s, size).chunker.offset..size
  BY <1>1, FileOpenedFields DEF name
<1> HIDE DEF name, Fails
<1>3. ASSUME NEW size \in Nat,
             NEW last \in 0..PartitionEnd(FileOpened(s, size).chunker),
             NEW grown \in BOOLEAN,
             NoFault \/ Fault, last = PartitionEnd(FileOpened(s, size).chunker) \/ Fault,
             PutPartition(p, FileOpened(s, size), "Sending", FileHeaderOf(s, size), pushed, last, grown)
      PROVE  Opens(p, s, FileOpened(s, size), last, grown, pushed)
  <2>1. FileOpened(s, size).chunker = [name |-> name, size |-> size, offset |-> 0]
    BY <1>2
  <2>2. FileOpened(s, size).chunker.offset = 0
    BY <2>1
  <2> QED
    BY <1>2, <1>3, <2>2 DEF Opens
<1>4. ASSUME NEW frames, frames = <<>> \/ frames = FileHeaderOf(s, Size[name]), Fail(p, frames, pushed)
      PROVE  Fails
  <2>1. HeaderFrame(FileOpened(s, Size[name]).chunker) \in Message
        /\ HeaderFrame(FileOpened(s, Size[name]).chunker).type = "Header"
    <3>1. PICK c \in Chunker : c = FileOpened(s, Size[name]).chunker
      BY <1>1, <1>2
    <3>2. [name |-> c.name, size |-> c.size] \in FileHeader
      BY DEF FileHeader, Chunker
    <3> QED
      BY <3>1, <3>2, MessageConstructors DEF HeaderFrame
  <2>2. frames = <<>> \/ \E m \in Message : m.type = "Header" /\ frames = <<m>>
    BY <1>1, <1>2, <1>4, <2>1
  <2> QED
    BY <1>4, <2>2, Zenon DEF Fails
<1>5. \/ \E grown \in BOOLEAN : /\ NoFault \/ Fault
                                /\ PutPartition(p, FileOpened(s, Size[name]), "Sending",
                                     FileHeaderOf(s, Size[name]), pushed,
                                     PartitionEnd(FileOpened(s, Size[name]).chunker), grown)
      \/ Fault /\ \E size \in 0..(Size[name] + 1) \ {Size[name]} :
           PutPartition(p, FileOpened(s, size), "Sending", FileHeaderOf(s, size), pushed,
                        PartitionEnd(FileOpened(s, size).chunker), FALSE)
      \/ Fault /\ \E last \in 0..(PartitionEnd(FileOpened(s, Size[name]).chunker) - 1) :
           PutPartition(p, FileOpened(s, Size[name]), "Sending", FileHeaderOf(s, Size[name]), pushed,
                        last, FALSE)
      \/ Fail(p, <<>>, pushed)
      \/ Fail(p, FileHeaderOf(s, Size[name]), pushed)
  BY Zenon DEF NextFile, FileOpened, FileHeaderOf, name
<1>6. \A size \in Nat : /\ PartitionEnd(FileOpened(s, size).chunker) \in Nat
                        /\ PartitionEnd(FileOpened(s, size).chunker) \in 0..PartitionEnd(FileOpened(s, size).chunker)
  <2> SUFFICES ASSUME NEW size \in Nat
               PROVE  /\ PartitionEnd(FileOpened(s, size).chunker) \in Nat
                      /\ PartitionEnd(FileOpened(s, size).chunker) \in 0..PartitionEnd(FileOpened(s, size).chunker)
    OBVIOUS
  <2>1. FileOpened(s, size).chunker.offset = 0
    <3>1. FileOpened(s, size).chunker = [name |-> name, size |-> size, offset |-> 0]
      BY <1>2
    <3> QED
      BY <3>1
  <2>2. PartitionEnd(FileOpened(s, size).chunker) \in 0..size
    BY <1>2, <2>1
  <2> QED
    BY <2>2
<1>7. CASE \E grown \in BOOLEAN : /\ NoFault \/ Fault
                                 /\ PutPartition(p, FileOpened(s, Size[name]), "Sending",
                                      FileHeaderOf(s, Size[name]), pushed,
                                      PartitionEnd(FileOpened(s, Size[name]).chunker), grown)
  BY <1>1, <1>3, <1>6, <1>7
<1>8. CASE Fault /\ \E size \in 0..(Size[name] + 1) \ {Size[name]} :
             PutPartition(p, FileOpened(s, size), "Sending", FileHeaderOf(s, size), pushed,
                          PartitionEnd(FileOpened(s, size).chunker), FALSE)
  <2>1. PICK size \in Nat :
          PutPartition(p, FileOpened(s, size), "Sending", FileHeaderOf(s, size), pushed,
                       PartitionEnd(FileOpened(s, size).chunker), FALSE)
    <3>1. \A size \in 0..(Size[name] + 1) \ {Size[name]} : size \in Nat
      BY <1>1
    <3> QED
      BY <1>8, <3>1, Zenon
  <2>2. FALSE \in BOOLEAN
    OBVIOUS
  <2> QED
    BY <1>3, <1>6, <1>8, <2>1, <2>2
<1>9. CASE Fault /\ \E last \in 0..(PartitionEnd(FileOpened(s, Size[name]).chunker) - 1) :
             PutPartition(p, FileOpened(s, Size[name]), "Sending", FileHeaderOf(s, Size[name]),
                          pushed, last, FALSE)
  <2>1. PICK last \in 0..(PartitionEnd(FileOpened(s, Size[name]).chunker) - 1) :
          PutPartition(p, FileOpened(s, Size[name]), "Sending", FileHeaderOf(s, Size[name]),
                       pushed, last, FALSE)
    BY <1>9
  <2>2. last \in 0..PartitionEnd(FileOpened(s, Size[name]).chunker)
    <3>1. PICK n \in Nat : n = PartitionEnd(FileOpened(s, Size[name]).chunker)
      BY <1>1, <1>6
    <3>2. last \in 0..(n - 1)
      BY <2>1, <3>1
    <3> QED
      BY <3>1, <3>2
  <2> QED
    BY <1>1, <1>3, <1>9, <2>1, <2>2
<1> QED
  BY <1>4, <1>5, <1>7, <1>8, <1>9, Zenon DEF Fails

LEMMA NextFileTurns ==
  ASSUME TypeInv, NEW p \in Peer, NEW q \in Peer, p = Other(q), Turns(p, q),
         net[p] # <<>>, Head(net[p]).type \in Answer,
         NEW s \in Sender, s.queue # <<>>, NEW pushed, NextFile(p, s, "Sending", pushed),
         s.offered = snd[p].offered, Len(s.queue) + s.filesSent = Len(s.offered),
         \A i \in 1..Len(s.queue) : s.queue[i] = s.offered[s.filesSent + i].name,
         up => rcv[q].pending = <<>> /\ rcv[q].receiver = None,
         up /\ rcv[q].accepted # <<>> =>
           rcv[q].accepted = s.offered /\ Len(rcv[q].received) = s.filesSent
  PROVE  Turns(p, q)'
<1>1. /\ s.queue \in Seq(File) /\ Len(s.queue) \in Nat /\ Len(Tail(s.queue)) = Len(s.queue) - 1
      /\ \A i \in 1..Len(Tail(s.queue)) :
           i + 1 \in 1..Len(s.queue) /\ Tail(s.queue)[i] = s.queue[i + 1]
      /\ s.filesSent \in Nat
  <2>1. s.queue \in Seq(File) /\ s.filesSent \in Nat
    BY DEF Sender
  <2>2. /\ Tail(s.queue) \in Seq(File) /\ Len(s.queue) \in Nat
        /\ Len(Tail(s.queue)) = Len(s.queue) - 1
        /\ \A i \in 1..Len(Tail(s.queue)) : Tail(s.queue)[i] = s.queue[i + 1]
    BY <2>1, HeadTailProperties, LenProperties
  <2>3. \A i \in 1..Len(Tail(s.queue)) : i + 1 \in 1..Len(s.queue)
    BY <2>2
  <2> QED
    BY <2>1, <2>2, <2>3
<1>2. ASSUME NEW next, NEW last, NEW grown, Opens(p, s, next, last, grown, pushed)
      PROVE  Turns(p, q)'
  <2>1. /\ next \in Sender /\ next.chunker \in Chunker
        /\ last \in next.chunker.offset..PartitionEnd(next.chunker) /\ grown \in BOOLEAN
        /\ PutPartition(p, next, "Sending", <<HeaderFrame(next.chunker)>>, pushed, last, grown)
        /\ NoFault \/ Fault
        /\ last = PartitionEnd(next.chunker) \/ Fault
        /\ next.offered = s.offered /\ next.queue = Tail(s.queue) /\ next.filesSent = s.filesSent
    BY <1>2 DEF Opens
  <2>2. Len(next.queue) + next.filesSent + 1 = Len(next.offered)
    BY <1>1, <2>1
  <2>3. \A i \in 1..Len(next.queue) :
          next.queue[i] = next.offered[next.filesSent + 1 + i].name
    <3> SUFFICES ASSUME NEW i \in 1..Len(next.queue)
                 PROVE  next.queue[i] = next.offered[next.filesSent + 1 + i].name
      OBVIOUS
    <3>1. i + 1 \in 1..Len(s.queue) /\ next.queue[i] = s.queue[i + 1]
      <4>1. next.queue = Tail(s.queue)
        BY <2>1
      <4>2. i \in 1..Len(Tail(s.queue))
        BY <4>1
      <4> QED
        BY <1>1, <4>1, <4>2
    <3>2. s.filesSent + (i + 1) = next.filesSent + 1 + i
      <4>1. PICK n \in Nat : n = s.filesSent /\ n = next.filesSent
        BY <1>1, <2>1
      <4>2. i \in Nat
        OBVIOUS
      <4>3. n + (i + 1) = n + 1 + i
        BY <4>2
      <4> QED
        BY <4>1, <4>3, Zenon
    <3>3. s.queue[i + 1] = s.offered[s.filesSent + (i + 1)].name
      BY <3>1
    <3> QED
      BY <2>1, <3>1, <3>2, <3>3
  <2>4. PICK header : header = <<HeaderFrame(next.chunker)>>
    OBVIOUS
  <2>5. PutPartition(p, next, "Sending", header, pushed, last, grown)
    BY <2>1, <2>4
  <2> QED
    BY <2>1, <2>2, <2>3, <2>4, <2>5, PutPartitionTurns, ZenonT(30)
<1>3. ASSUME NEW frames, Fail(p, frames, pushed),
             frames = <<>> \/ \E m \in Message : m.type = "Header" /\ frames = <<m>>
      PROVE  Turns(p, q)'
  BY <1>3, SenderFailTurns
<1> QED
  BY <1>2, <1>3, NextFilePuts

\* The end that sends and is told that its partition arrived reads the next, or fails.
LEMMA PartitionRead ==
  ASSUME TypeInv, NEW p \in Peer, NEW q \in Peer, Turns(p, q), RcvPartitionReceived(p)
  PROVE  /\ net[p] # <<>> /\ Head(net[p]).type \in Answer
         /\ activity[p] = "Sending" /\ snd[p] \in Sender /\ snd[p].chunker \in Chunker
         /\ \/ Fail(p, <<>>, <<>>)
            \/ \E last \in snd[p].chunker.offset..PartitionEnd(snd[p].chunker), grown \in BOOLEAN :
                 /\ PutPartition(p, snd[p], "Sending", <<>>, <<>>, last, grown)
                 /\ NoFault \/ Fault
                 /\ last = PartitionEnd(snd[p].chunker) \/ Fault
<1> DEFINE c == snd[p].chunker
<1>1. net[p] # <<>> /\ Head(net[p]).type = "PartitionReceived" /\ Head(net[p]).type \in Answer
  BY DEF RcvPartitionReceived, Arrives, Answer
<1>2. activity[p] = "Sending"
  BY <1>1, AnswerArrives DEF Tells
<1>3. c # None /\ snd[p] \in Sender /\ c \in Chunker
  BY <1>2, NetIsFrames DEF Turns, Batch, Sender
<1>4. /\ PartitionEnd(c) \in c.offset..PartitionEnd(c)
      /\ \A last \in c.offset..(PartitionEnd(c) - 1) : last \in c.offset..PartitionEnd(c)
  <2>1. PICK n \in Nat, o \in Nat : n = PartitionEnd(c) /\ o = c.offset /\ o <= n
    BY <1>3, PartitionEndType DEF Chunker
  <2>2. n \in o..n /\ \A last \in o..(n - 1) : last \in o..n
    BY <2>1
  <2> QED
    BY <2>1, <2>2
<1>5. \/ \E grown \in BOOLEAN :
           /\ NoFault \/ Fault
           /\ PutPartition(p, snd[p], activity[p], <<>>, <<>>, PartitionEnd(c), grown)
      \/ Fault /\ \E last \in c.offset..(PartitionEnd(c) - 1) :
           PutPartition(p, snd[p], activity[p], <<>>, <<>>, last, FALSE)
      \/ Fail(p, <<>>, <<>>)
  BY <1>3, Zenon DEF RcvPartitionReceived
<1> HIDE DEF c
<1>6. \/ Fail(p, <<>>, <<>>)
      \/ \E last \in c.offset..PartitionEnd(c), grown \in BOOLEAN :
           /\ PutPartition(p, snd[p], "Sending", <<>>, <<>>, last, grown)
           /\ NoFault \/ Fault
           /\ last = PartitionEnd(c) \/ Fault
  BY <1>2, <1>4, <1>5, ZenonT(30)
<1> QED
  BY <1>1, <1>2, <1>3, <1>6 DEF c

LEMMA RcvPartitionReceivedTurns ==
  ASSUME TypeInv, NEW p \in Peer, NEW q \in Peer, p = Other(q), Turns(p, q),
         RcvPartitionReceived(p)
  PROVE  Turns(p, q)'
<1> DEFINE c == snd[p].chunker
<1>1. /\ net[p] # <<>> /\ Head(net[p]).type = "PartitionReceived" /\ Head(net[p]).type \in Answer
      /\ activity[p] = "Sending" /\ snd[p] \in Sender /\ c \in Chunker
  BY PartitionRead DEF RcvPartitionReceived, Arrives
<1>2. ~Answering(Tail(net[p]))
  BY <1>1, AnswerArrives
<1>3. /\ Len(snd[p].queue) + snd[p].filesSent + 1 = Len(snd[p].offered)
      /\ \A i \in 1..Len(snd[p].queue) :
           snd[p].queue[i] = snd[p].offered[snd[p].filesSent + 1 + i].name
  BY <1>1 DEF Turns, Batch
<1>4. ~Carries(net[p], "FileTransferComplete")
  <2>1. ToSet(net[p]) = {Head(net[p])} \union ToSet(Tail(net[p]))
    BY <1>1, NetIsFrames, FramesTail
  <2> QED
    BY <1>1, <1>2, <2>1 DEF Carries, Answering, Answer
<1>5. up => /\ rcv[q].pending = <<>>
            /\ rcv[q].accepted # <<>> =>
                 /\ rcv[q].accepted = snd[p].offered
                 /\ Len(rcv[q].received) = snd[p].filesSent + 0
            /\ rcv[q].receiver # None => rcv[q].receiver.header = Begun(snd[p])
  BY <1>1, <1>4, AnswerEnds DEF Turns, Engaged
<1>6. snd[p].filesSent \in Nat /\ snd[p].filesSent + 0 = snd[p].filesSent
  BY <1>1 DEF Sender
<1>7. ASSUME NEW last \in c.offset..PartitionEnd(c), NEW grown \in BOOLEAN,
             PutPartition(p, snd[p], "Sending", <<>>, <<>>, last, grown),
             NoFault \/ Fault, last = PartitionEnd(c) \/ Fault
      PROVE  Turns(p, q)'
  BY <1>1, <1>3, <1>5, <1>6, <1>7, PutPartitionTurns, ZenonT(60)
<1> HIDE DEF c
<1>8. \/ Fail(p, <<>>, <<>>)
      \/ \E last \in c.offset..PartitionEnd(c), grown \in BOOLEAN :
           /\ PutPartition(p, snd[p], "Sending", <<>>, <<>>, last, grown)
           /\ NoFault \/ Fault
           /\ last = PartitionEnd(c) \/ Fault
  BY PartitionRead DEF c
<1> QED
  BY <1>1, <1>7, <1>8, SenderFailTurns

\* A handler that takes an answer, and stops sending.
LEMMA StopHandled ==
  ASSUME TypeInv, NEW p \in Peer, NEW q \in Peer, p = Other(q), Turns(p, q),
         net[p] # <<>>, Head(net[p]).type \in Answer, Exchange(p, <<>>),
         activity' = [activity EXCEPT ![p] = "Idle"], UNCHANGED <<rcv, up, saved>>,
         snd'[p].offered = snd[p].offered
  PROVE  Turns(p, q)'
<1>1. q = Other(p) /\ q # p /\ <<>> \in Seq(Message)
  BY Opposite, EmptySeq
<1>2. net'[p] = Tail(net[p]) /\ net'[q] = net[q] \o <<>>
  BY <1>1, Exchanged DEF Written
<1>3. activity'[p] = "Idle" /\ activity'[q] = activity[q] /\ rcv'[p].pending = <<>>
  BY <1>1 DEF TypeInv, TypeOK, Turns, Roles
<1>4. /\ net'[p] \in Seq(Message) /\ ~Answering(net'[p])
      /\ ToSet(net'[p]) \subseteq ToSet(net[p]) /\ ClosedLast(net'[p], up)
      /\ (up => net[q] = <<>> /\ rcv[q].pending = <<>>)
  BY <1>2, AnswerArrives, AnswerEnds
<1>5. rcv'[q] = rcv[q] /\ saved'[q] = saved[q] /\ up' = up
  OBVIOUS
<1> QED
  BY <1>1, <1>2, <1>3, <1>4, <1>5, StopsTurns

LEMMA RcvDeclinedTurns ==
  ASSUME TypeInv, NEW p \in Peer, NEW q \in Peer, p = Other(q), Turns(p, q), RcvDeclined(p)
  PROVE  Turns(p, q)'
<1>1. /\ net[p] # <<>> /\ Head(net[p]).type \in Answer /\ Exchange(p, <<>>)
      /\ activity' = [activity EXCEPT ![p] = "Idle"] /\ UNCHANGED <<rcv, up, saved>>
      /\ snd' = [snd EXCEPT ![p].requested = <<>>]
  BY DEF RcvDeclined, Arrives, Answer
<1>2. snd'[p].offered = snd[p].offered
  BY <1>1 DEF TypeInv, TypeOK, Sender
<1> QED
  BY <1>1, <1>2, StopHandled

LEMMA NamesListed ==
  ASSUME NEW manifest \in Manifest
  PROVE  /\ Len(Names(manifest)) = Len(manifest)
         /\ \A i \in 1..Len(manifest) : Names(manifest)[i] = manifest[i].name
<1>1. DOMAIN manifest = 1..Len(manifest) /\ Len(manifest) \in Nat
  BY LenProperties DEF Manifest
<1>2. Names(manifest) = [i \in 1..Len(manifest) |-> manifest[i].name]
  BY <1>1 DEF Names
<1>3. Names(manifest) \in Seq({manifest[i].name : i \in 1..Len(manifest)})
  BY <1>1, <1>2
<1>4. Len(Names(manifest)) = Len(manifest)
  BY <1>1, <1>2, <1>3, LenProperties
<1> QED
  BY <1>2, <1>4

LEMMA OneEvent ==
  ASSUME NEW e \in Event
  PROVE  <<e>> \in Seq(Event)
OBVIOUS

\* The half that sends when a request is accepted: all files of the batch are in its queue.
LEMMA AcceptedHalf ==
  ASSUME TypeInv, NEW p \in Peer, NEW q \in Peer, Turns(p, q), RcvAccepted(p)
  PROVE  \E s \in Sender, pushed \in Seq(Event) :
           /\ NextFile(p, s, "Sending", pushed)
           /\ s.offered = snd[p].offered /\ s.filesSent = 0
           /\ Len(s.queue) = Len(s.offered) /\ s.queue # <<>>
           /\ \A i \in 1..Len(s.queue) : s.queue[i] = s.offered[i].name
<1>1. PICK s : s = [snd[p] EXCEPT !.queue = snd[p].requested, !.requested = <<>>,
                                  !.sentBefore = 0, !.filesSent = 0]
  OBVIOUS
<1>2. PICK pushed \in Seq(Event) : NextFile(p, s, "Sending", pushed)
  <2>1. PICK e \in Event : e = [kind |-> "SendProgress", whole |-> FALSE]
    BY EventConstructors
  <2>2. PICK one \in Seq(Event) : one = <<e>>
    BY OneEvent, Zenon
  <2> QED
    BY <1>1, <2>1, <2>2 DEF RcvAccepted
<1>3. activity[p] = "AwaitingResponse"
  BY DEF RcvAccepted
<1>4. snd[p] \in Sender /\ snd[p].requested = Names(snd[p].offered) /\ snd[p].offered # <<>>
  BY <1>3, NetIsFrames DEF Turns, Batch
<1>5. /\ s \in Sender /\ s.queue = Names(snd[p].offered) /\ s.offered = snd[p].offered
      /\ s.filesSent = 0
  <2>1. /\ s.queue = snd[p].requested /\ s.offered = snd[p].offered /\ s.filesSent = 0
    BY <1>1, <1>4 DEF Sender
  <2>2. s \in Sender
    <3>1. <<>> \in Seq(File) /\ snd[p].requested \in Seq(File)
      BY <1>4 DEF Sender
    <3>2. [snd[p] EXCEPT !.queue = snd[p].requested, !.requested = <<>>,
                         !.sentBefore = 0, !.filesSent = 0] \in Sender
      BY <1>4, <3>1 DEF Sender
    <3> QED
      BY <1>1, <3>2, Zenon
  <2> QED
    BY <1>4, <2>1, <2>2
<1>6. /\ Len(s.queue) = Len(s.offered) /\ Len(s.offered) \in Nat /\ s.queue # <<>>
      /\ \A i \in 1..Len(s.queue) : s.queue[i] = s.offered[i].name
  <2>1. s.offered \in Manifest /\ s.offered \in Seq(FileHeader)
    BY <1>5 DEF Sender, Manifest
  <2>2. Len(s.queue) = Len(s.offered) /\ Len(s.offered) \in Nat
        /\ \A i \in 1..Len(s.queue) : s.queue[i] = s.offered[i].name
    BY <1>5, <2>1, NamesListed, LenProperties
  <2>3. Len(s.offered) # 0
    BY <1>4, <1>5, <2>1, EmptySeq
  <2> QED
    BY <2>2, <2>3
<1> QED
  BY <1>2, <1>5, <1>6, ZenonT(30)

LEMMA RcvAcceptedTurns ==
  ASSUME TypeInv, NEW p \in Peer, NEW q \in Peer, p = Other(q), Turns(p, q), RcvAccepted(p)
  PROVE  Turns(p, q)'
<1>1. PICK s \in Sender, pushed \in Seq(Event) :
        /\ NextFile(p, s, "Sending", pushed)
        /\ s.offered = snd[p].offered /\ s.filesSent = 0
        /\ Len(s.queue) = Len(s.offered) /\ s.queue # <<>>
        /\ \A i \in 1..Len(s.queue) : s.queue[i] = s.offered[i].name
  BY AcceptedHalf
<1>2. /\ net[p] # <<>> /\ Head(net[p]).type \in Answer /\ Head(net[p]).type = "Response"
      /\ Head(net[p]).accepted
  BY DEF RcvAccepted, Arrives, Answer
<1>3. Len(s.queue) + s.filesSent = Len(s.offered)
      /\ \A i \in 1..Len(s.queue) : s.queue[i] = s.offered[s.filesSent + i].name
  BY <1>1, LenProperties DEF Sender
<1>4. up => /\ rcv[q].pending = <<>> /\ rcv[q].receiver = None
            /\ rcv[q].accepted = s.offered /\ Len(rcv[q].received) = s.filesSent
  <2>1. Tells(Head(net[p]), p, q)
    BY <1>2, AnswerArrives
  <2>2. up => /\ rcv[q].pending = <<>> /\ rcv[q].receiver = None
              /\ rcv[q].accepted = snd[p].offered /\ rcv[q].received = <<>>
    BY <1>2, <2>1 DEF Tells
  <2>3. Len(<<>>) = 0
    OBVIOUS
  <2> QED
    BY <1>1, <2>2, <2>3
<1> QED
  BY <1>1, <1>2, <1>3, <1>4, NextFileTurns

\* The half that goes on when a file is complete.
CompletedHalf(p) ==
  [snd[p] EXCEPT !.sentBefore = @ + snd[p].sentIn, !.sentIn = 0,
                 !.filesSent = @ + 1, !.chunker = None]

LEMMA CompletedFields ==
  ASSUME TypeInv, NEW p \in Peer, NEW s, s = CompletedHalf(p)
  PROVE  /\ s \in Sender /\ s.queue = snd[p].queue /\ s.offered = snd[p].offered
         /\ s.filesSent = snd[p].filesSent + 1
<1>1. snd[p] \in Sender
  BY NetIsFrames
<1>2. /\ s.queue = snd[p].queue /\ s.offered = snd[p].offered
      /\ s.filesSent = snd[p].filesSent + 1
  BY <1>1 DEF Sender, CompletedHalf
<1>3. CompletedHalf(p) \in Sender
  <2>1. snd[p].sentBefore + snd[p].sentIn \in Nat /\ snd[p].filesSent + 1 \in Nat
    BY <1>1 DEF Sender
  <2> QED
    BY <1>1, <2>1 DEF Sender, CompletedHalf
<1> QED
  BY <1>2, <1>3, Zenon

LEMMA RcvFileTransferCompleteTurns ==
  ASSUME TypeInv, NEW p \in Peer, NEW q \in Peer, p = Other(q), Turns(p, q),
         RcvFileTransferComplete(p)
  PROVE  Turns(p, q)'
<1>1. PICK s : s = CompletedHalf(p)
  OBVIOUS
<1>2. /\ net[p] # <<>> /\ Head(net[p]).type \in Answer
      /\ Head(net[p]).type = "FileTransferComplete"
  BY DEF RcvFileTransferComplete, Arrives, Answer
<1>3. /\ activity[p] = "Sending" /\ rcv[q].receiver = None
      /\ Head(net[p]) \in ToSet(net[p])
  BY <1>2, AnswerArrives, NetIsFrames, FramesTail DEF Tells
<1>4. /\ snd[p] \in Sender
      /\ Len(snd[p].queue) + snd[p].filesSent + 1 = Len(snd[p].offered)
      /\ \A i \in 1..Len(snd[p].queue) :
           snd[p].queue[i] = snd[p].offered[snd[p].filesSent + 1 + i].name
  BY <1>3, NetIsFrames DEF Turns, Batch
<1>5. /\ s \in Sender /\ s.queue = snd[p].queue /\ s.offered = snd[p].offered
      /\ s.filesSent = snd[p].filesSent + 1
  BY <1>1, CompletedFields
<1>6. up => /\ rcv[q].pending = <<>>
            /\ rcv[q].accepted # <<>> =>
                 rcv[q].accepted = s.offered /\ Len(rcv[q].received) = s.filesSent
  <2>1. Carries(net[p], "FileTransferComplete")
    BY <1>2, <1>3 DEF Carries
  <2> QED
    BY <1>2, <1>3, <1>5, <2>1, AnswerEnds DEF Turns, Engaged
<1>7. CASE snd[p].queue # <<>>
  <2>1. NextFile(p, s, "Sending", <<>>)
    BY <1>1, <1>3, <1>7 DEF RcvFileTransferComplete, CompletedHalf
  <2>2. Len(s.queue) + s.filesSent = Len(s.offered)
    <3>1. Len(s.queue) \in Nat /\ snd[p].filesSent \in Nat
      BY <1>4, <1>5, LenProperties DEF Sender
    <3> QED
      BY <1>4, <1>5, <3>1
  <2>3. \A i \in 1..Len(s.queue) : s.queue[i] = s.offered[s.filesSent + i].name
    BY <1>4, <1>5
  <2> QED
    BY <1>2, <1>3, <1>5, <1>6, <1>7, <2>1, <2>2, <2>3, NextFileTurns
<1>8. CASE snd[p].queue = <<>>
  <2>1. /\ snd' = [snd EXCEPT ![p] = [s EXCEPT !.filesSent = 0]]
        /\ activity' = [activity EXCEPT ![p] = "Idle"]
        /\ Exchange(p, <<>>) /\ UNCHANGED <<rcv, up, saved>>
    BY <1>1, <1>8 DEF RcvFileTransferComplete, CompletedHalf
  <2>2. snd'[p].offered = snd[p].offered
    BY <1>5, <2>1 DEF TypeInv, TypeOK, Sender
  <2> QED
    BY <1>2, <2>1, <2>2, StopHandled
<1> QED
  BY <1>7, <1>8

LEMMA RcvProgressTurns ==
  ASSUME TypeInv, NEW p \in Peer, NEW q \in Peer, p = Other(q), Turns(p, q), RcvProgress(p)
  PROVE  Turns(p, q)'
<1>1. /\ net[p] # <<>> /\ Head(net[p]).type = "Progress" /\ Exchange(p, <<>>)
      /\ NoFault /\ UNCHANGED <<activity, snd, rcv, up, saved>>
  BY DEF RcvProgress, Arrives
<1>2. q = Other(p) /\ q # p /\ <<>> \in Seq(Message)
  BY Opposite, EmptySeq
<1>3. net[p] \in Seq(Message) /\ net[q] \in Seq(Message) /\ up \in BOOLEAN
  BY NetIsFrames
<1>4. net'[p] = Tail(net[p]) /\ net'[q] = net[q]
  <2>1. net'[p] = Tail(net[p]) /\ net'[q] = net[q] \o <<>>
    BY <1>1, <1>2, Exchanged DEF Written
  <2> QED
    BY <1>3, <2>1, ConcatEmptySeq
<1>5. net'[p] \in Seq(Message) /\ ToSet(net[p]) = {Head(net[p])} \union ToSet(net'[p])
  BY <1>1, <1>3, <1>4, FramesTail
<1>6. Roles(p, q)'
  BY <1>1, <1>4, <1>5 DEF Turns, Roles
<1>7. ClosedLast(net'[p], up') /\ ClosedLast(net'[q], up')
  BY <1>1, <1>3, <1>4, ClosedTail DEF Turns
<1>8. Batch(p)' /\ KeptSoFar(q)'
  BY <1>1 DEF Turns, Batch, KeptSoFar
<1>9. Answered(p, q)'
  <2>1. OneAnswer(net'[p])
    BY <1>1, <1>3, <1>4, OneAnswerTail DEF Turns, Answered
  <2>2. Answering(net'[p]) => Answering(net[p])
    BY <1>5 DEF Answering
  <2>3. \A m \in ToSet(net'[p]) : Tells(m, p, q)'
    BY <1>1, <1>5 DEF Turns, Answered, Tells, Unread
  <2> QED
    BY <1>4, <2>1, <2>2, <2>3 DEF Turns, Answered
<1>10. ASSUME up PROVE Asking(p, q)'
  <2>1. Answering(net'[p]) => Answering(net[p])
    BY <1>5 DEF Answering
  <2>2. Asking(p, q)
    BY <1>10 DEF Turns
  <2>3. Shape(net'[q])
    BY <1>4, <2>2 DEF Asking
  <2> QED
    BY <1>1, <1>4, <2>1, <2>2, <2>3 DEF Asking, Unread, Begun
<1>11. ASSUME up PROVE Engaged(p, q)'
  <2>1. Engaged(p, q)
    BY <1>11 DEF Turns
  <2>2. Carries(net'[p], "FileTransferComplete") <=> Carries(net[p], "FileTransferComplete")
    BY <1>1, <1>5 DEF Carries
  <2>3. Faultless' = Faultless
    BY <1>1 DEF NoFault, Faultless
  <2>4. activity[p] = "Sending" => LastChunk(net'[q], snd'[p], Faultless')
    BY <1>1, <1>4, <2>1, <2>3 DEF Engaged, LastChunk, Unread
  <2> QED
    BY <1>1, <2>1, <2>2, <2>4 DEF Engaged, Begun
<1> QED
  BY <1>1, <1>6, <1>7, <1>8, <1>9, <1>10, <1>11 DEF Turns

LEMMA SenderClosedTurns ==
  ASSUME TypeInv, NEW p \in Peer, NEW q \in Peer, p = Other(q), Turns(p, q), RcvClosed(p)
  PROVE  Turns(p, q)'
<1>1. /\ net[p] # <<>> /\ Head(net[p]).type = "Closed" /\ UNCHANGED <<up, saved>>
      /\ activity' = [activity EXCEPT ![p] = "Idle"]
      /\ snd' = [snd EXCEPT ![p] = ResetSnd(p)]
      /\ rcv' = [rcv EXCEPT ![p] = ResetRcv(p)] /\ Exchange(p, <<>>)
  BY DEF RcvClosed, Arrives
<1>2. q = Other(p) /\ q # p /\ <<>> \in Seq(Message) /\ ToSet(<<>>) = {}
  BY Opposite, EmptySeq, FramesEmpty
<1>3. /\ activity'[p] = "Idle" /\ activity'[q] = activity[q] /\ snd'[p] = ResetSnd(p)
      /\ rcv'[p] = ResetRcv(p) /\ rcv'[q] = rcv[q]
  BY <1>1, <1>2 DEF TypeInv, TypeOK
<1>4. net[p] \in Seq(Message) /\ up \in BOOLEAN
  BY NetIsFrames
<1>5. net'[p] = Tail(net[p]) /\ net'[q] = net[q] \o <<>>
  BY <1>1, <1>2, Exchanged DEF Written
<1>6. ~up /\ net'[p] = <<>> /\ ClosedLast(net'[p], up)
  BY <1>1, <1>4, <1>5, ClosedTail DEF Turns
<1>7. ~Answering(net'[p]) /\ ToSet(net'[p]) \subseteq ToSet(net[p])
  BY <1>2, <1>6 DEF Answering
<1>8. snd'[p].offered = snd[p].offered /\ rcv'[p].pending = <<>>
  BY <1>3, ResetFields
<1> QED
  BY <1>1, <1>2, <1>3, <1>5, <1>6, <1>7, <1>8, StopsTurns

\* A manifest lists files that can be sent, with the size they have.
LEMMA ManifestListed ==
  ASSUME NEW batch \in Seq(File), NEW manifest \in ManifestsOf(batch)
  PROVE  /\ manifest \in Manifest /\ manifest # <<>>
         /\ \A i \in 1..Len(manifest) :
              manifest[i].size = Size[manifest[i].name] /\ manifest[i].size > 0
<1>1. PICK n \in 1..Len(batch) :
         \E keep \in [1..n -> DOMAIN batch] :
           /\ {keep[i] : i \in 1..n} = Sendable(batch)
           /\ manifest = [i \in 1..n |-> HeaderOf(batch[keep[i]])]
  BY DEF ManifestsOf
<1>2. PICK keep \in [1..n -> DOMAIN batch] :
         /\ {keep[i] : i \in 1..n} = Sendable(batch)
         /\ manifest = [i \in 1..n |-> HeaderOf(batch[keep[i]])]
  BY <1>1
<1>3. manifest \in Manifest /\ n \in Nat /\ n >= 1
  BY LenProperties, ManifestsOfType
<1>4. Len(manifest) = n
  BY <1>2, <1>3 DEF Manifest
<1>5. manifest # <<>>
  BY <1>3, <1>4
<1>6. ASSUME NEW i \in 1..n
      PROVE  manifest[i].size = Size[manifest[i].name] /\ manifest[i].size > 0
  <2>1. manifest[i] = HeaderOf(batch[keep[i]])
    BY <1>2
  <2>2. keep[i] \in Sendable(batch)
    BY <1>2
  <2>3. Size[batch[keep[i]]] > 0
    BY <2>2 DEF Sendable
  <2> QED
    BY <2>1, <2>3 DEF HeaderOf
<1> QED
  BY <1>3, <1>4, <1>5, <1>6

LEMMA SendFilesTurns ==
  ASSUME TypeInv, NEW p \in Peer, NEW q \in Peer, p = Other(q), Turns(p, q), SendFiles(p)
  PROVE  Turns(p, q)'
<1>1. q = Other(p) /\ q # p
  BY Opposite
<1>2. /\ activity[p] = "Idle" /\ UNCHANGED <<rcv, up, saved>>
      /\ activity' = [activity EXCEPT ![p] = "AwaitingResponse"]
  BY DEF SendFiles
<1>0. PICK batch \in Batches : \E manifest \in ManifestsOf(batch) :
        /\ snd' = [snd EXCEPT ![p] =
             [@ EXCEPT !.requested = Names(manifest), !.offered = manifest]]
        /\ Write(p, <<[type |-> "Request", manifest |-> manifest]>>)
  BY DEF SendFiles
<1>3. PICK manifest \in ManifestsOf(batch) :
        /\ snd' = [snd EXCEPT ![p] =
             [@ EXCEPT !.requested = Names(manifest), !.offered = manifest]]
        /\ Write(p, <<[type |-> "Request", manifest |-> manifest]>>)
  BY <1>0
<1>4. /\ manifest \in Manifest /\ manifest # <<>>
      /\ \A i \in 1..Len(manifest) :
           manifest[i].size = Size[manifest[i].name] /\ manifest[i].size > 0
  BY BatchAssumption, ManifestListed
<1>5. /\ activity'[p] = "AwaitingResponse" /\ activity'[q] = activity[q]
      /\ snd'[p].requested = Names(manifest) /\ snd'[p].offered = manifest
  BY <1>1, <1>2, <1>3 DEF TypeInv, TypeOK, Sender
<1>6. /\ net[p] \in Seq(Message) /\ net[q] \in Seq(Message) /\ up \in BOOLEAN
  BY NetIsFrames
<1>7. PICK m \in Message : m = [type |-> "Request", manifest |-> manifest]
  BY <1>4, MessageConstructors
<1>8. PICK w \in Seq(Message) :
        /\ w = Written(<<m>>) /\ (up \/ w = <<>>) /\ ToSet(w) \subseteq {m}
        /\ net'[p] = net[p] /\ net'[q] = net[q] \o w
  <2>1. net'[p] = net[p] /\ net'[q] = net[q] \o Written(<<m>>)
    BY <1>1, <1>3, <1>7 DEF Write, TypeInv, TypeOK
  <2>2. <<m>> \in Seq(Message) /\ ToSet(<<m>>) = {m}
    BY FramesOne
  <2>3. /\ Written(<<m>>) \in Seq(Message) /\ (up \/ Written(<<m>>) = <<>>)
        /\ ToSet(Written(<<m>>)) \subseteq {m}
    BY <2>2, FramesEmpty, EmptySeq DEF Written
  <2> QED
    BY <2>1, <2>3
<1>9. net'[q] \in Seq(Message) /\ ToSet(net'[q]) = ToSet(net[q]) \union ToSet(w)
  BY <1>6, <1>8, FramesConcat
<1>10. ~Answering(net[p])
  BY <1>2 DEF Turns, Answered, Answering, Answer, Tells
<1>11. Roles(p, q)'
  BY <1>2, <1>5, <1>7, <1>8, <1>9 DEF Turns, Roles, Outgoing
<1>12. ClosedLast(net'[p], up') /\ ClosedLast(net'[q], up')
  <2>1. ~Carries(w, "Closed")
    BY <1>7, <1>8 DEF Carries
  <2> QED
    BY <1>2, <1>6, <1>8, <2>1, ClosedConcat DEF Turns
<1>13. Batch(p)'
  BY <1>4, <1>5 DEF Batch
<1>14. Answered(p, q)'
  <2>1. \A f \in ToSet(net[p]) : f.type \notin Answer
    BY <1>10 DEF Answering
  <2> QED
    BY <1>8, <1>10, <2>1 DEF Turns, Answered, Answer, Tells
<1>15. KeptSoFar(q)'
  BY <1>2 DEF Turns, KeptSoFar
<1>16. ASSUME up PROVE Asking(p, q)'
  <2>1. Asking(p, q)
    BY <1>16 DEF Turns
  <2>2. /\ ~Carries(net[q], "Request") /\ ~Carries(net[q], "Partition")
        /\ rcv[q].pending = <<>> /\ Shape(net[q])
        /\ \A f \in ToSet(net[q]) : f.type \notin {"Request", "Partition", "Chunk"}
    BY <1>2, <2>1 DEF Asking, Carries
  <2>3. Shape(net'[q])
    BY <1>6, <1>7, <1>8, <1>16, <2>2, ShapeAppend DEF Written
  <2> QED
    BY <1>2, <1>5, <1>7, <1>8, <1>9, <2>2, <2>3 DEF Asking
<1>17. Engaged(p, q)'
  BY <1>5 DEF Engaged
<1> QED
  BY <1>2, <1>11, <1>12, <1>13, <1>14, <1>15, <1>16, <1>17 DEF Turns

-----------------------------------------------------------------------------
(* Any step, and the theorem.                                              *)

\* The frames that end can receive.
LEMMA SenderReceives ==
  ASSUME TypeInv, NEW p \in Peer, NEW q \in Peer, Turns(p, q), Receive(p)
  PROVE  \/ RcvDeclined(p) \/ RcvAccepted(p) \/ RcvPartitionReceived(p) \/ RcvProgress(p)
         \/ RcvFileTransferComplete(p) \/ RcvClosed(p)
<1>1. ASSUME net[p] # <<>>,
             Head(net[p]).type \in {"Request", "Header", "Partition", "Chunk"}
      PROVE  FALSE
  <2>1. Head(net[p]) \in ToSet(net[p])
    BY <1>1, NetIsFrames, FramesTail
  <2> QED
    BY <1>1, <2>1 DEF Turns, Roles, Answer
<1>2. ASSUME RcvStaleResponse(p) PROVE FALSE
  <2>1. /\ net[p] # <<>> /\ Head(net[p]).type = "Response" /\ Head(net[p]).type \in Answer
        /\ activity[p] # "AwaitingResponse"
    BY <1>2 DEF RcvStaleResponse, Arrives, Answer
  <2> QED
    BY <2>1, AnswerArrives DEF Tells
<1> QED
  BY <1>1, <1>2 DEF Receive, RcvRequest, RcvHeader, RcvPartition, RcvIgnoredChunk,
                    RcvChunk, RcvLastChunk, RcvChunkFails, Arrives

\* Each step of the end that sends.
LEMMA SenderTurns ==
  ASSUME TypeInv, NEW p \in Peer, NEW q \in Peer, p = Other(q), Turns(p, q),
         SendFiles(p) \/ SendNothing(p) \/ (\E accepted \in BOOLEAN : Respond(p, accepted))
           \/ Receive(p)
  PROVE  Turns(p, q)'
<1>1. CASE SendNothing(p)
  <2>1. /\ UNCHANGED <<activity, snd, rcv, net, up, saved>>
        /\ budget' = [budget EXCEPT !.requests = @ - 1]
    BY <1>1 DEF SendNothing
  <2>2. Faultless' = Faultless
    BY <2>1 DEF TypeInv, TypeOK, Faultless
  <2> QED
    BY <2>1, <2>2, SMTT(20) DEF Turns, Roles, ClosedLast, Batch, Answered, OneAnswer, Answering, Tells,
                      Unread, KeptSoFar, Asking, Shape, Begun, Engaged, LastChunk, Carries
<1>2. CASE \E accepted \in BOOLEAN : Respond(p, accepted)
  BY <1>2 DEF Respond, Turns, Roles
<1>3. CASE Receive(p)
  BY <1>3, SenderReceives, RcvDeclinedTurns, RcvAcceptedTurns, RcvPartitionReceivedTurns,
     RcvProgressTurns, RcvFileTransferCompleteTurns, SenderClosedTurns
<1> QED
  BY <1>1, <1>2, <1>3, SendFilesTurns

\* Each step of the other end, whose user sends nothing.
LEMMA ReceiverTurns ==
  ASSUME TypeInv, AllTidy, ManifestHonoured, InStep,
         NEW p \in Peer, NEW q \in Peer, p = Other(q), Turns(p, q), q \notin Senders,
         SendFiles(q) \/ SendNothing(q) \/ (\E accepted \in BOOLEAN : Respond(q, accepted))
           \/ Receive(q)
  PROVE  Turns(p, q)'
<1>1. p # q
  BY Opposite
<1>2. ~SendFiles(q) /\ ~SendNothing(q)
  BY DEF SendFiles, SendNothing
<1>3. ASSUME net[q] # <<>>,
             Head(net[q]).type \in
               {"Response", "PartitionReceived", "Progress", "FileTransferComplete"}
      PROVE  FALSE
  <2>1. Head(net[q]) \in ToSet(net[q])
    BY <1>3, NetIsFrames, FramesTail
  <2> QED
    BY <1>3, <2>1 DEF Turns, Roles, Outgoing
<1>4. CASE Receive(q)
  <2>1. \/ RcvRequest(q) \/ RcvHeader(q) \/ RcvPartition(q) \/ RcvIgnoredChunk(q)
        \/ RcvChunk(q) \/ RcvLastChunk(q) \/ RcvChunkFails(q) \/ RcvClosed(q)
    BY <1>3, <1>4 DEF Receive, RcvStaleResponse, RcvDeclined, RcvAccepted,
                      RcvPartitionReceived, RcvProgress, RcvFileTransferComplete, Arrives
  <2> QED
    BY <1>1, <2>1, RcvRequestTurns, RcvHeaderTurns, RcvPartitionTurns, RcvChunkTurns,
       RcvLastChunkTurns, RcvClosedTurns
<1> QED
  BY <1>1, <1>2, <1>4, RespondTurns

\* What the loss of the channel makes of the frames on their way.
LEMMA CutFrames ==
  ASSUME NEW s \in Seq(Message), NEW n \in 0..Len(s), ~Carries(s, "Closed"),
         NEW t, t = Append(SubSeq(s, 1, n), [type |-> "Closed"])
  PROVE  /\ t \in Seq(Message) /\ ClosedLast(t, FALSE)
         /\ \A m \in ToSet(t) : m \in ToSet(s) \/ m.type = "Closed"
         /\ OneAnswer(s) => OneAnswer(t)
<1>1. PICK closed \in Message : closed = [type |-> "Closed"] /\ closed.type = "Closed"
  BY MessageConstructors
<1>2. PICK u \in Seq(Message) :
        /\ u = SubSeq(s, 1, n) /\ Len(u) = n /\ ToSet(u) \subseteq ToSet(s)
        /\ \A i \in 1..n : i \in 1..Len(s) /\ u[i] = s[i]
  BY FramesPrefix
<1>3. n \in Nat
  BY LenProperties
<1>4. /\ t \in Seq(Message) /\ Len(t) = n + 1 /\ t[n + 1] = closed
      /\ \A i \in 1..n : t[i] = s[i] /\ i \in 1..Len(s)
  BY <1>1, <1>2, <1>3, AppendProperties
<1>5. \A i \in 1..Len(t) : i \in 1..n \/ i = n + 1
  BY <1>3, <1>4
<1>6. \A i \in 1..n : s[i] \in ToSet(s) /\ t[i].type # "Closed"
  BY <1>4, FramesIndexed DEF Carries
<1>7. ClosedLast(t, FALSE)
  BY <1>4, <1>5, <1>6 DEF ClosedLast
<1>8. \A m \in ToSet(t) : m \in ToSet(s) \/ m.type = "Closed"
  <2>1. \A i \in 1..Len(t) : t[i] \in ToSet(s) \/ t[i].type = "Closed"
    BY <1>1, <1>4, <1>5, <1>6
  <2>2. ToSet(t) = {t[i] : i \in 1..Len(t)}
    BY <1>4, FramesIndexed
  <2> QED
    BY <2>1, <2>2
<1>9. OneAnswer(s) => OneAnswer(t)
  <2>1. \A i \in 1..Len(t) : t[i].type \in Answer => i \in 1..n
    BY <1>1, <1>4, <1>5 DEF Answer
  <2> QED
    BY <1>4, <2>1 DEF OneAnswer
<1> QED
  BY <1>4, <1>7, <1>8, <1>9

LEMMA LinkDropTurns ==
  ASSUME TypeInv, NEW p \in Peer, NEW q \in Peer, p = Other(q), Turns(p, q), LinkDrop
  PROVE  Turns(p, q)'
<1> DEFINE cut(x, n) == Append(SubSeq(net[x], 1, n), [type |-> "Closed"])
<1>1. /\ up /\ up' = FALSE /\ UNCHANGED <<activity, snd, rcv, saved>>
      /\ q = Other(p) /\ p # q /\ net[p] \in Seq(Message) /\ net[q] \in Seq(Message)
  BY Opposite, NetIsFrames DEF LinkDrop
<1>2. PICK here \in 0..Len(net[p]), there \in 0..Len(net[q]) :
        net'[p] = cut(p, here) /\ net'[q] = cut(q, there)
  <2>1. PICK x \in Peer : \E here \in 0..Len(net[x]), there \in 0..Len(net[Other(x)]) :
          net' = [net EXCEPT ![x] = cut(x, here), ![Other(x)] = cut(Other(x), there)]
    BY Zenon DEF LinkDrop
  <2>2. PICK here \in 0..Len(net[x]) : \E there \in 0..Len(net[Other(x)]) :
          net' = [net EXCEPT ![x] = cut(x, here), ![Other(x)] = cut(Other(x), there)]
    BY <2>1
  <2>3. PICK there \in 0..Len(net[Other(x)]) :
          net' = [net EXCEPT ![x] = cut(x, here), ![Other(x)] = cut(Other(x), there)]
    BY <2>2
  <2> HIDE DEF cut
  <2>4. net'[x] = cut(x, here) /\ net'[Other(x)] = cut(Other(x), there)
    BY <2>3, TwoPeers DEF TypeInv, TypeOK
  <2>5. (x = p /\ Other(x) = q) \/ (x = q /\ Other(x) = p)
    BY <1>1, TwoPeers
  <2> QED
    BY <2>4, <2>5
<1>3. \A x \in {p, q} : ~Carries(net[x], "Closed")
  BY <1>1, FramesIndexed DEF Turns, ClosedLast, Carries
<1>4. /\ net'[p] \in Seq(Message) /\ ClosedLast(net'[p], FALSE)
      /\ \A m \in ToSet(net'[p]) : m \in ToSet(net[p]) \/ m.type = "Closed"
      /\ OneAnswer(net'[p])
  BY <1>1, <1>2, <1>3, CutFrames, ZenonT(60) DEF Turns, Answered
<1>5. /\ net'[q] \in Seq(Message) /\ ClosedLast(net'[q], FALSE)
      /\ \A m \in ToSet(net'[q]) : m \in ToSet(net[q]) \/ m.type = "Closed"
  BY <1>1, <1>2, <1>3, CutFrames, ZenonT(40)
<1>6. Roles(p, q)'
  BY <1>1, <1>4, <1>5 DEF Turns, Roles, Outgoing
<1>7. Batch(p)' /\ KeptSoFar(q)'
  BY <1>1 DEF Turns, Batch, KeptSoFar
<1>8. Answered(p, q)'
  <2>1. Answering(net'[p]) => Answering(net[p])
    BY <1>4 DEF Answering, Answer
  <2>2. Answering(net'[p]) => \A m \in ToSet(net'[q]) : m.type = "Closed"
    BY <1>5, <2>1 DEF Turns, Answered
  <2>3. \A m \in ToSet(net'[p]) : Tells(m, p, q)'
    <3>1. ASSUME NEW m \in ToSet(net'[p]) PROVE Tells(m, p, q)'
      <4>1. m.type = "Closed" \/ Tells(m, p, q)
        BY <1>4 DEF Turns, Answered
      <4> QED
        BY <1>1, <4>1 DEF Tells, Unread
    <3> QED
      BY <3>1
  <2> QED
    BY <1>4, <2>2, <2>3 DEF Answered
<1> QED
  BY <1>1, <1>4, <1>5, <1>6, <1>7, <1>8 DEF Turns

\* Two machines that have just been made, with nothing between them.
LEMMA InitTurns == Init => TakeTurns
<1> SUFFICES ASSUME Init, NEW p \in Peer, NEW q \in Peer, q = Other(p) PROVE Turns(p, q)
  BY TwoPeers DEF TakeTurns
<1>1. /\ net[p] = <<>> /\ net[q] = <<>> /\ activity[p] = "Idle" /\ activity[q] = "Idle"
      /\ snd[p] = FreshSnd /\ rcv[p] = FreshRcv /\ rcv[q] = FreshRcv /\ ToSet(<<>>) = {}
  BY FramesEmpty DEF Init
<1>2. Roles(p, q) /\ Answered(p, q)
  BY <1>1 DEF Roles, Answered, OneAnswer, Answering, FreshRcv
<1>3. ClosedLast(net[p], up) /\ ClosedLast(net[q], up)
  BY <1>1 DEF ClosedLast
<1>4. Batch(p) /\ KeptSoFar(q)
  BY <1>1 DEF Batch, KeptSoFar, FreshSnd, FreshRcv
<1>5. Asking(p, q) /\ Engaged(p, q)
  BY <1>1 DEF Asking, Shape, Engaged, FreshRcv
<1> QED
  BY <1>2, <1>3, <1>4, <1>5 DEF Turns

LEMMA RedialTurns ==
  ASSUME TypeInv, NEW p \in Peer, NEW q \in Peer, Redial
  PROVE  Turns(p, q)'
<1>1. /\ net'[p] = <<>> /\ net'[q] = <<>> /\ activity'[p] = "Idle" /\ activity'[q] = "Idle"
      /\ snd'[p] = FreshSnd /\ rcv'[p] = FreshRcv /\ rcv'[q] = FreshRcv /\ ToSet(<<>>) = {}
  BY FramesEmpty DEF Redial
<1>2. Roles(p, q)' /\ Answered(p, q)'
  BY <1>1 DEF Roles, Answered, OneAnswer, Answering, FreshRcv
<1>3. ClosedLast(net'[p], up') /\ ClosedLast(net'[q], up')
  BY <1>1 DEF ClosedLast
<1>4. Batch(p)' /\ KeptSoFar(q)'
  BY <1>1 DEF Batch, KeptSoFar, FreshSnd, FreshRcv
<1>5. Asking(p, q)' /\ Engaged(p, q)'
  BY <1>1 DEF Asking, Shape, Engaged, FreshRcv
<1> QED
  BY <1>2, <1>3, <1>4, <1>5 DEF Turns

LEMMA StepTurns ==
  TypeInv /\ AllTidy /\ ManifestHonoured /\ InStep /\ TakeTurns /\ [Next]_vars => TakeTurns'
<1> SUFFICES ASSUME TypeInv, AllTidy, ManifestHonoured, InStep, TakeTurns, [Next]_vars,
                    NEW p \in Peer, NEW q \in Peer, q = Other(p), q \notin Senders
             PROVE  Turns(p, q)'
  BY TwoPeers DEF TakeTurns
<1>1. Turns(p, q) /\ p = Other(q) /\ \A x \in Peer : x = p \/ x = q
  BY Opposite, TwoPeers DEF TakeTurns
<1>2. CASE UNCHANGED vars
  <2>1. UNCHANGED <<activity, snd, rcv, net, up, saved, budget>>
    BY <1>2 DEF vars
  <2>2. Roles(p, q)' /\ Batch(p)' /\ KeptSoFar(q)'
    BY <1>1, <2>1 DEF Turns, Roles, Batch, KeptSoFar
  <2>3. ClosedLast(net[p], up)' /\ ClosedLast(net[q], up)'
    BY <1>1, <2>1 DEF Turns, ClosedLast
  <2>4. Answered(p, q)'
    BY <1>1, <2>1 DEF Turns, Answered, OneAnswer, Answering, Tells, Unread
  <2>5. up' => Asking(p, q)'
    BY <1>1, <2>1 DEF Turns, Asking, Shape, Answering, Unread, Begun
  <2>6. up' => Engaged(p, q)'
    BY <1>1, <2>1 DEF Turns, Engaged, LastChunk, Carries, Unread, Begun, Faultless
  <2> QED
    BY <2>2, <2>3, <2>4, <2>5, <2>6 DEF Turns
<1>3. ASSUME NEW x \in Peer,
             SendFiles(x) \/ SendNothing(x) \/ (\E accepted \in BOOLEAN : Respond(x, accepted))
               \/ Receive(x)
      PROVE  Turns(p, q)'
  <2>1. CASE x = p
    BY <1>1, <1>3, <2>1, SenderTurns
  <2>2. CASE x = q
    BY <1>1, <1>3, <2>2, ReceiverTurns
  <2> QED
    BY <1>1, <2>1, <2>2
<1>4. CASE LinkDrop
  BY <1>1, <1>4, LinkDropTurns
<1>5. CASE Redial
  BY <1>5, RedialTurns
<1> QED
  BY <1>2, <1>3, <1>4, <1>5 DEF Next

\* What every step preserves, of any number of senders and of one.
KeepTurns ==
  TypeInv /\ AllTidy /\ ManifestHonoured /\ InStep /\ WholeSaved /\ TakeTurns

LEMMA InitKeepTurns == Init => KeepTurns
<1> SUFFICES ASSUME Init PROVE KeepTurns
  OBVIOUS
<1>1. TypeInv /\ AllTidy /\ ManifestHonoured /\ TakeTurns /\ WholeSaved
  BY InitTypeInv, InitDelivery, InitHonours, InitTurns DEF Init, WholeSaved
<1>2. InStep
  BY FreshFits, TwoPeers DEF Init, InStep
<1> QED
  BY <1>1, <1>2 DEF KeepTurns

LEMMA StepKeepTurns == KeepTurns /\ [Next]_vars => KeepTurns'
BY StepTypeInv, StepDelivery, StepHonours, StepSaved, StepTurns DEF KeepTurns

-----------------------------------------------------------------------------
(* What is said to be finished was kept.                                   *)

\* At most one user sends.
OneSender == \A p, q \in Senders : p = q

\* Events that do not say that sending finished.
Silent(pushed) ==
  /\ pushed \in Seq(Event)
  /\ \A i \in 1..Len(pushed) : pushed[i].kind # "SendingFinished"

LEMMA SilentAppend ==
  ASSUME NEW pushed, Silent(pushed), NEW e \in Event, e.kind # "SendingFinished"
  PROVE  Silent(Append(pushed, e))
<1>1. PICK all \in Seq(Event) : all = Append(pushed, e)
  BY AppendProperties DEF Silent
<1>2. /\ Len(all) = Len(pushed) + 1 /\ all[Len(pushed) + 1] = e /\ Len(pushed) \in Nat
      /\ \A i \in 1..Len(pushed) : all[i] = pushed[i]
  BY <1>1, AppendProperties, LenProperties DEF Silent
<1>3. \A i \in 1..Len(all) : i \in 1..Len(pushed) \/ i = Len(pushed) + 1
  BY <1>2
<1> QED
  BY <1>1, <1>2, <1>3 DEF Silent

LEMMA SilentEmpty == Silent(<<>>)
BY DEF Silent

LEMMA SilentOne ==
  ASSUME NEW e \in Event, e.kind # "SendingFinished"
  PROVE  Silent(<<e>>)
<1>1. <<e>> = Append(<<>>, e)
  OBVIOUS
<1> QED
  BY <1>1, SilentEmpty, SilentAppend

LEMMA SilentPush ==
  ASSUME NEW p \in Peer, NEW pushed, Silent(pushed), Push(p, pushed)
  PROVE  FinishedMeansSaved'
<1>1. events' = [q \in Peer |-> IF q = p THEN pushed ELSE <<>>]
  BY DEF Push
<1>2. ASSUME NEW q \in Peer PROVE Pushed(q, "SendingFinished")' = {}
  <2>1. CASE q = p
    <3>1. events'[q] = pushed
      BY <1>1, <2>1
    <3>2. DOMAIN pushed = 1..Len(pushed)
      BY LenProperties DEF Silent
    <3> QED
      BY <3>1, <3>2 DEF Pushed, Silent
  <2>2. CASE q # p
    <3>1. events'[q] = <<>>
      BY <1>1, <2>2
    <3>2. DOMAIN <<>> = {}
      OBVIOUS
    <3> QED
      BY <3>1, <3>2 DEF Pushed
  <2> QED
    BY <2>1, <2>2
<1> QED
  BY <1>2 DEF FinishedMeansSaved

LEMMA SilentPutPartition ==
  ASSUME NEW p \in Peer, NEW s, NEW act, NEW header, NEW pushed, NEW last, NEW grown, Silent(pushed),
         PutPartition(p, s, act, header, pushed, last, grown)
  PROVE  FinishedMeansSaved'
<1> DEFINE c == s.chunker
           e(whole) == [kind |-> "SendProgress", whole |-> whole]
           enough == s.sentBefore + (s.sentIn + (last - c.offset)) >= TotalSize(s.offered)
           progress == IF act = "Sending" THEN <<e(enough)>> ELSE <<>>
<1>1. Push(p, pushed \o progress) \/ Push(p, pushed)
  BY Zenon DEF PutPartition
<1>2. PICK whole \in BOOLEAN : progress = <<>> \/ progress = <<e(whole)>>
  <2>1. enough \in BOOLEAN
    OBVIOUS
  <2> HIDE DEF enough, e
  <2> QED
    BY <2>1
<1>3. \A b \in BOOLEAN : e(b) \in Event /\ e(b).kind # "SendingFinished"
  BY EventConstructors
<1>4. pushed \in Seq(Event) /\ pushed \o <<>> = pushed
      /\ \A b \in BOOLEAN : pushed \o <<e(b)>> = Append(pushed, e(b))
  <2>1. pushed \in Seq(Event)
    BY DEF Silent
  <2> HIDE DEF e
  <2> QED
    BY <1>3, <2>1, ConcatEmptySeq, AppendIsConcat
<1> HIDE DEF e, progress
<1>5. Silent(pushed \o progress)
  BY <1>2, <1>3, <1>4, SilentAppend
<1> QED
  BY <1>1, <1>5, SilentPush

LEMMA SilentFail ==
  ASSUME NEW p \in Peer, NEW frames, NEW pushed, Silent(pushed), Fail(p, frames, pushed)
  PROVE  FinishedMeansSaved'
<1>1. [kind |-> "Failed"] \in Event /\ [kind |-> "Failed"].kind # "SendingFinished"
  BY EventConstructors
<1>2. Silent(Append(pushed, [kind |-> "Failed"]))
  BY <1>1, SilentAppend
<1> QED
  BY <1>2, SilentPush DEF Fail

LEMMA SilentNextFile ==
  ASSUME NEW p \in Peer, NEW s, NEW act, NEW pushed, Silent(pushed),
         NextFile(p, s, act, pushed)
  PROVE  FinishedMeansSaved'
<1>1. \/ \E half, header, last, grown : PutPartition(p, half, act, header, pushed, last, grown)
      \/ \E frames : Fail(p, frames, pushed)
  BY Zenon DEF NextFile
<1> QED
  BY <1>1, SilentPutPartition, SilentFail

LEMMA SilentReceived ==
  ASSUME TypeInv, NEW p \in Peer
  PROVE  Silent(Received(p).events)
<1>1. \A whole \in BOOLEAN :
        /\ [kind |-> "ReceiveProgress", whole |-> whole] \in Event
        /\ [kind |-> "ReceiveProgress", whole |-> whole].kind # "SendingFinished"
  BY EventConstructors
<1>2. Received(p).events = <<>>
      \/ \E whole \in BOOLEAN :
           Received(p).events = <<[kind |-> "ReceiveProgress", whole |-> whole]>>
  <2> DEFINE size == TotalSize(rcv[p].accepted)
             enough == rcv[p].total + rcv[p].inFile + 1 >= size
  <2>1. enough \in BOOLEAN
    OBVIOUS
  <2>2. Received(p).events =
          IF size > 0 THEN <<[kind |-> "ReceiveProgress", whole |-> enough]>> ELSE <<>>
    BY Zenon DEF Received
  <2> HIDE DEF enough, size
  <2> QED
    BY <2>1, <2>2
<1> QED
  BY <1>1, <1>2, SilentEmpty, SilentOne

\* Only the completion of the last file says that sending finished.
LEMMA SilentSteps ==
  ASSUME TypeInv, NEW p \in Peer,
         SendFiles(p) \/ SendNothing(p) \/ (\E accepted \in BOOLEAN : Respond(p, accepted))
           \/ (Receive(p) /\ ~RcvFileTransferComplete(p))
  PROVE  FinishedMeansSaved'
<1>1. /\ [kind |-> "Failed"] \in Event /\ [kind |-> "Declined"] \in Event
      /\ [kind |-> "RequestReceived"] \in Event
      /\ \A k \in {"SendProgress", "ReceiveProgress"}, b \in BOOLEAN :
           [kind |-> k, whole |-> b] \in Event
      /\ \A m \in Manifest : [kind |-> "FilesReceived", files |-> m] \in Event
  BY EventConstructors
<1>2. /\ Silent(<<>>) /\ Silent(<<[kind |-> "Failed"]>>) /\ Silent(<<[kind |-> "Declined"]>>)
      /\ Silent(<<[kind |-> "RequestReceived"]>>)
      /\ \A b \in BOOLEAN : /\ Silent(<<[kind |-> "SendProgress", whole |-> b]>>)
                            /\ Silent(<<[kind |-> "ReceiveProgress", whole |-> b]>>)
  BY <1>1, SilentEmpty, SilentOne
<1>3. \A accepted, written : Silent(RespondEvents(accepted, written))
  BY <1>2 DEF RespondEvents
<1>4. CASE SendFiles(p) \/ SendNothing(p)
  BY <1>2, <1>4, SilentPush DEF SendFiles, SendNothing
<1>5. CASE \E accepted \in BOOLEAN : Respond(p, accepted)
  <2>1. PICK accepted, written : Push(p, RespondEvents(accepted, written))
    BY <1>5, Zenon DEF Respond
  <2> QED
    BY <1>3, <2>1, SilentPush
<1>6. CASE RcvStaleResponse(p) \/ RcvDeclined(p) \/ RcvIgnoredChunk(p) \/ RcvPartition(p)
             \/ RcvClosed(p)
  BY <1>2, <1>6, SilentPush
  DEF RcvStaleResponse, RcvDeclined, RcvIgnoredChunk, RcvPartition, RcvClosed
<1>7. CASE RcvAccepted(p)
  <2>1. PICK s : NextFile(p, s, "Sending", <<[kind |-> "SendProgress", whole |-> FALSE]>>)
    BY <1>7 DEF RcvAccepted
  <2> QED
    BY <1>2, <2>1, SilentNextFile
<1>8. CASE RcvPartitionReceived(p)
  <2>1. \/ Push(p, <<>>)
        \/ \E last, grown : PutPartition(p, snd[p], activity[p], <<>>, <<>>, last, grown)
        \/ Fail(p, <<>>, <<>>)
    BY <1>8, Zenon DEF RcvPartitionReceived
  <2> QED
    BY <1>2, <2>1, SilentPush, SilentPutPartition, SilentFail
<1>9. CASE RcvProgress(p)
  <2>1. net[p] # <<>> /\ Head(net[p]).type = "Progress" /\ Head(net[p]) \in Message
    BY <1>9, NetIsFrames, FramesTail DEF RcvProgress, Arrives
  <2>2. Head(net[p]).whole \in BOOLEAN
    BY <2>1, MessageFields
  <2>3. \/ Push(p, <<>>)
        \/ Push(p, <<[kind |-> "SendProgress", whole |-> Head(net[p]).whole]>>)
    BY <1>9 DEF RcvProgress
  <2> QED
    BY <1>2, <2>2, <2>3, SilentPush
<1>10. CASE RcvRequest(p)
  <2>1. \/ Push(p, <<>>) \/ Push(p, <<[kind |-> "RequestReceived"]>>)
        \/ \E written : Push(p, RespondEvents(TRUE, written))
    BY <1>10, Zenon DEF RcvRequest
  <2> QED
    BY <1>2, <1>3, <2>1, SilentPush
<1>11. CASE RcvHeader(p)
  <2>1. Push(p, <<>>) \/ Fail(p, <<>>, <<>>)
    BY <1>11, Zenon DEF RcvHeader
  <2> QED
    BY <1>2, <2>1, SilentPush, SilentFail
<1>12. CASE RcvChunk(p) \/ RcvLastChunk(p) \/ RcvChunkFails(p)
  <2>1. Silent(Received(p).events)
    BY SilentReceived
  <2>2. CASE RcvChunk(p)
    BY <2>1, <2>2, SilentPush DEF RcvChunk
  <2>3. CASE RcvChunkFails(p)
    <3>1. \/ Fail(p, <<>>, <<>>)
          \/ Fail(p, FramesBeforeSaving(p), Received(p).events)
      BY <2>3, Zenon DEF RcvChunkFails
    <3> QED
      BY <1>2, <2>1, <3>1, SilentFail
  <2>4. CASE RcvLastChunk(p)
    <3>1. Arrives(p, "Chunk") /\ rcv[p].receiver # None
      BY <2>4 DEF RcvLastChunk
    <3>2. PICK half \in Incoming : half = Received(p).half /\ half.receiver \in Receiver
      BY <3>1, ReceivedType DEF TypeInv
    <3> DEFINE files == Append(half.received, half.receiver.header)
    <3>3. files \in Manifest
      <4>1. half.received \in Seq(FileHeader) /\ half.receiver.header \in FileHeader
        BY <3>2 DEF Incoming, Manifest, Receiver
      <4> QED
        BY <4>1, AppendProperties DEF Manifest
    <3>4. \/ Push(p, Received(p).events)
          \/ Push(p, Append(Received(p).events, [kind |-> "FilesReceived", files |-> files]))
      BY <2>4, <3>2 DEF RcvLastChunk
    <3> HIDE DEF files
    <3>5. PICK e \in Event : e = [kind |-> "FilesReceived", files |-> files]
      BY <1>1, <3>3
    <3>6. Silent(Append(Received(p).events, e))
      BY <2>1, <3>5, SilentAppend
    <3> QED
      BY <2>1, <3>4, <3>5, <3>6, SilentPush
  <2> QED
    BY <1>12, <2>2, <2>3, <2>4
<1> QED
  BY <1>4, <1>5, <1>6, <1>7, <1>8, <1>9, <1>10, <1>11, <1>12 DEF Receive

\* The last completion, at the end that sends.
LEMMA CompletionSaved ==
  ASSUME TypeInv, NEW p \in Peer, NEW q \in Peer, p = Other(q), Turns(p, q),
         RcvFileTransferComplete(p)
  PROVE  FinishedMeansSaved'
<1>1. PICK s : s = [snd[p] EXCEPT !.sentBefore = @ + snd[p].sentIn, !.sentIn = 0,
                                  !.filesSent = @ + 1, !.chunker = None]
  OBVIOUS
<1>2. /\ net[p] # <<>> /\ Head(net[p]).type \in Answer
      /\ Head(net[p]).type = "FileTransferComplete" /\ q = Other(p)
  BY Opposite DEF RcvFileTransferComplete, Arrives, Answer
<1>3. activity[p] = "Sending" /\ Kept(saved[q], snd[p].offered, snd[p].filesSent + 1)
  BY <1>2, AnswerArrives DEF Tells
<1>4. /\ snd[p] \in Sender /\ snd[p].filesSent \in Nat
      /\ Len(snd[p].queue) + snd[p].filesSent + 1 = Len(snd[p].offered)
      /\ s.filesSent = snd[p].filesSent + 1 /\ s.offered = snd[p].offered
  BY <1>1, <1>3, NetIsFrames DEF Turns, Batch, Sender
<1>5. CASE snd[p].queue # <<>>
  <2>1. PICK half : NextFile(p, half, activity[p], <<>>)
    BY <1>5 DEF RcvFileTransferComplete
  <2> QED
    BY <2>1, SilentEmpty, SilentNextFile
<1>6. CASE snd[p].queue = <<>>
  <2> DEFINE e == [kind |-> "SendingFinished", count |-> s.filesSent]
  <2>1. /\ snd' = [snd EXCEPT ![p] = [s EXCEPT !.filesSent = 0]]
        /\ Push(p, <<e>>) /\ UNCHANGED saved
    BY <1>1, <1>6 DEF RcvFileTransferComplete
  <2>2. snd'[p].offered = snd[p].offered
    BY <1>1, <1>4, <2>1 DEF TypeInv, TypeOK, Sender
  <2>3. events' = [x \in Peer |-> IF x = p THEN <<e>> ELSE <<>>]
    BY <2>1 DEF Push
  <2>4. s.filesSent = Len(snd[p].offered)
    <3>1. Len(snd[p].queue) = 0
      BY <1>6
    <3> QED
      BY <1>4, <3>1
  <2>5. Kept(saved[q], snd[p].offered, Len(snd[p].offered))
    BY <1>3, <1>4, <2>4
  <2> SUFFICES ASSUME NEW x \in Peer, NEW i \in Pushed(x, "SendingFinished")'
               PROVE  LET there == saved[Other(x)]'
                          n == Len(snd'[x].offered)
                      IN  /\ events'[x][i].count = n
                          /\ n <= Len(there)
                          /\ \A k \in 1..n :
                               there[Len(there) - n + k].header = snd'[x].offered[k]
    BY DEF FinishedMeansSaved
  <2>6. x = p /\ i = 1
    <3>1. i \in DOMAIN events'[x]
      BY DEF Pushed
    <3>2. x = p
      BY <2>3, <3>1
    <3>3. events'[x] = <<e>>
      BY <2>3, <3>2
    <3> QED
      BY <3>1, <3>2, <3>3
  <2>7. events'[x][i] = e /\ e.count = s.filesSent
    BY <2>3, <2>6
  <2>8. saved[Other(x)]' = saved[q]
    BY <1>2, <2>1, <2>6
  <2> HIDE DEF e
  <2> QED
    BY <2>2, <2>4, <2>5, <2>6, <2>7, <2>8 DEF Kept
<1> QED
  BY <1>5, <1>6

\* The end whose peer sends is never told that a file of its own is complete.
LEMMA ReceiverHearsNothing ==
  ASSUME TypeInv, NEW p \in Peer, NEW q \in Peer, Turns(p, q)
  PROVE  ~RcvFileTransferComplete(q)
<1>1. net[q] # <<>> => Head(net[q]) \in ToSet(net[q])
  BY NetIsFrames, FramesTail
<1> QED
  BY <1>1 DEF Turns, Roles, Outgoing, RcvFileTransferComplete, Arrives

LEMMA StepFinished ==
  OneSender /\ KeepTurns /\ FinishedMeansSaved /\ [Next]_vars => FinishedMeansSaved'
<1> SUFFICES ASSUME OneSender, KeepTurns, FinishedMeansSaved, [Next]_vars
             PROVE  FinishedMeansSaved'
  OBVIOUS
<1>1. CASE UNCHANGED vars
  BY <1>1 DEF vars, FinishedMeansSaved, Pushed
<1>2. ASSUME NEW p \in Peer, RcvFileTransferComplete(p) PROVE FinishedMeansSaved'
  <2>1. PICK q \in Peer : q = Other(p) /\ p = Other(q) /\ p # q
    BY TwoPeers
  <2>2. CASE q \notin Senders
    BY <1>2, <2>1, <2>2, CompletionSaved DEF KeepTurns, TakeTurns
  <2>3. CASE p \notin Senders
    <3>1. Turns(q, p)
      BY <2>1, <2>3 DEF KeepTurns, TakeTurns
    <3> QED
      BY <1>2, <3>1, ReceiverHearsNothing DEF KeepTurns
  <2> QED
    BY <2>1, <2>2, <2>3 DEF OneSender
<1>3. ASSUME NEW p \in Peer,
             SendFiles(p) \/ SendNothing(p) \/ (\E accepted \in BOOLEAN : Respond(p, accepted))
               \/ Receive(p)
      PROVE  FinishedMeansSaved'
  BY <1>2, <1>3, SilentSteps DEF KeepTurns
<1>4. CASE LinkDrop \/ Redial
  <2>1. events' = [p \in Peer |-> <<>>]
    BY <1>4 DEF LinkDrop, Redial
  <2> QED
    BY <2>1 DEF FinishedMeansSaved, Pushed
<1> QED
  BY <1>1, <1>3, <1>4 DEF Next

\* Of two ends of which one sends, the one that is told that sending finished has a peer who
\* saved the whole batch, in its order, last of all: whatever failed, was declined, reset or
\* lost before.
THEOREM FinishedIsSaved == OneSender => (Spec => []FinishedMeansSaved)
<1> SUFFICES ASSUME OneSender PROVE Spec => []FinishedMeansSaved
  OBVIOUS
<1>1. Init => FinishedMeansSaved
  BY DEF Init, FinishedMeansSaved, Pushed
<1>2. KeepTurns /\ FinishedMeansSaved /\ [Next]_vars => (KeepTurns /\ FinishedMeansSaved)'
  BY StepKeepTurns, StepFinished
<1> QED
  BY <1>1, <1>2, InitKeepTurns, PTL DEF Spec

-----------------------------------------------------------------------------
(* Rows are freed.                                                         *)

\* While the row of an end is disabled, its machine is in a transfer: p sends, q works on
\* a request that was accepted, and no request is empty.
Rows(p, q) ==
  /\ busy[p] /\ Connected(p) => activity[p] = "Sending"
  /\ busy[q] /\ Connected(q) => rcv[q].accepted # <<>>
  /\ rcv[q].accepted # <<>> => activity[q] = "Receiving"
  /\ \A m \in ToSet(net[q]) : m.type = "Request" => m.manifest # <<>>

RowsKnown == \A p \in Peer : Other(p) \notin Senders => Rows(p, Other(p))

\* What a step does to the channel.
Passing(x) ==
  \E frames : Write(x, frames) \/ (net[x] # <<>> /\ Exchange(x, frames))

LEMMA StepPasses ==
  ASSUME NEW x \in Peer,
         SendFiles(x) \/ SendNothing(x) \/ (\E accepted \in BOOLEAN : Respond(x, accepted))
           \/ Receive(x)
  PROVE  up' = up /\ (net' = net \/ Passing(x))
<1>1. CASE SendFiles(x) \/ SendNothing(x) \/ (\E accepted \in BOOLEAN : Respond(x, accepted))
  BY <1>1, Zenon DEF SendFiles, SendNothing, Respond, Passing
<1>2. ASSUME NEW s, NEW act, NEW header, NEW pushed, NEW last, NEW grown,
             PutPartition(x, s, act, header, pushed, last, grown)
      PROVE  up' = up /\ \E frames : Exchange(x, frames)
  BY <1>2, Zenon DEF PutPartition
<1>3. ASSUME NEW frames, NEW pushed, Fail(x, frames, pushed)
      PROVE  up' = up /\ \E f : Exchange(x, f)
  BY <1>3, Zenon DEF Fail
<1>4. ASSUME NEW s, NEW act, NEW pushed, NextFile(x, s, act, pushed)
      PROVE  up' = up /\ \E frames : Exchange(x, frames)
  BY <1>2, <1>3, <1>4, Zenon DEF NextFile
<1>5. CASE Receive(x)
  <2>1. net[x] # <<>>
    BY <1>5, Zenon
    DEF Receive, RcvStaleResponse, RcvDeclined, RcvAccepted, RcvPartitionReceived, RcvProgress,
        RcvFileTransferComplete, RcvRequest, RcvHeader, RcvIgnoredChunk, RcvChunk,
        RcvLastChunk, RcvChunkFails, RcvPartition, RcvClosed, Arrives
  <2>2. CASE RcvStaleResponse(x) \/ RcvDeclined(x) \/ RcvProgress(x) \/ RcvIgnoredChunk(x)
               \/ RcvChunk(x) \/ RcvPartition(x) \/ RcvClosed(x)
    BY <2>1, <2>2, Zenon
    DEF RcvStaleResponse, RcvDeclined, RcvProgress, RcvIgnoredChunk, RcvChunk, RcvPartition,
        RcvClosed, Passing
  <2>3. CASE RcvAccepted(x)
    BY <1>4, <2>1, <2>3, Zenon DEF RcvAccepted, Passing
  <2>4. CASE RcvPartitionReceived(x)
    BY <1>2, <1>3, <2>1, <2>4, Zenon DEF RcvPartitionReceived, Passing
  <2>5. CASE RcvFileTransferComplete(x)
    BY <1>4, <2>1, <2>5, Zenon DEF RcvFileTransferComplete, Passing
  <2>6. CASE RcvRequest(x)
    BY <2>1, <2>6, Zenon DEF RcvRequest, Passing
  <2>7. CASE RcvHeader(x)
    BY <1>3, <2>1, <2>7, Zenon DEF RcvHeader, Passing
  <2>8. CASE RcvLastChunk(x)
    BY <2>1, <2>8, Zenon DEF RcvLastChunk, Passing
  <2>9. CASE RcvChunkFails(x)
    BY <1>3, <2>1, <2>9, Zenon DEF RcvChunkFails, Passing
  <2> QED
    BY <1>5, <2>2, <2>3, <2>4, <2>5, <2>6, <2>7, <2>8, <2>9 DEF Receive
<1> QED
  BY <1>1, <1>5

\* Every step of an end pushes its events there.
LEMMA StepPushes ==
  ASSUME NEW x \in Peer,
         SendFiles(x) \/ SendNothing(x) \/ (\E accepted \in BOOLEAN : Respond(x, accepted))
           \/ Receive(x)
  PROVE  \E pushed : Push(x, pushed)
<1>1. CASE SendFiles(x) \/ SendNothing(x) \/ (\E accepted \in BOOLEAN : Respond(x, accepted))
  BY <1>1, Zenon DEF SendFiles, SendNothing, Respond
<1>2. ASSUME NEW s, NEW act, NEW header, NEW before, NEW last, NEW grown,
             PutPartition(x, s, act, header, before, last, grown)
      PROVE  \E pushed : Push(x, pushed)
  BY <1>2, Zenon DEF PutPartition
<1>3. ASSUME NEW frames, NEW before, Fail(x, frames, before)
      PROVE  \E pushed : Push(x, pushed)
  BY <1>3, Zenon DEF Fail
<1>4. ASSUME NEW s, NEW act, NEW before, NextFile(x, s, act, before)
      PROVE  \E pushed : Push(x, pushed)
  BY <1>2, <1>3, <1>4, Zenon DEF NextFile
<1>5. CASE RcvStaleResponse(x) \/ RcvDeclined(x) \/ RcvProgress(x) \/ RcvIgnoredChunk(x)
             \/ RcvChunk(x) \/ RcvPartition(x) \/ RcvClosed(x)
  BY <1>5, Zenon
  DEF RcvStaleResponse, RcvDeclined, RcvProgress, RcvIgnoredChunk, RcvChunk, RcvPartition,
      RcvClosed
<1>6. CASE RcvAccepted(x) \/ RcvPartitionReceived(x) \/ RcvFileTransferComplete(x)
  BY <1>2, <1>3, <1>4, <1>6, Zenon
  DEF RcvAccepted, RcvPartitionReceived, RcvFileTransferComplete
<1>7. CASE RcvRequest(x)
  BY <1>7, Zenon DEF RcvRequest
<1>8. CASE RcvHeader(x) \/ RcvChunkFails(x)
  BY <1>3, <1>8, Zenon DEF RcvHeader, RcvChunkFails
<1>9. CASE RcvLastChunk(x)
  BY <1>9, Zenon DEF RcvLastChunk
<1> QED
  BY <1>1, <1>5, <1>6, <1>7, <1>8, <1>9 DEF Receive

\* A step of an end takes a frame from what is on its way to it, or leaves it; so does any
\* step on a lost channel.
LEMMA FramesTaken ==
  ASSUME TypeInv, NEW x \in Peer, NEW y \in Peer, net' = net \/ Passing(x), ~up \/ x = y
  PROVE  net'[y] = net[y] \/ (net[y] # <<>> /\ net'[y] = Tail(net[y]))
<1>1. net[y] \in Seq(Message) /\ \A s \in Seq(Message) : s \o <<>> = s
  BY NetIsFrames, ConcatEmptySeq
<1>2. CASE net' = net
  BY <1>2
<1>3. ASSUME NEW frames, Write(x, frames)
      PROVE  net'[y] = net[y]
  <2>1. y = Other(x) => Written(frames) = <<>>
    BY TwoPeers DEF Written
  <2>2. net' = [net EXCEPT ![Other(x)] = @ \o Written(frames)]
    BY <1>3 DEF Write
  <2> QED
    BY <1>1, <2>1, <2>2, TwoPeers DEF TypeInv, TypeOK
<1>4. ASSUME NEW frames, Exchange(x, frames), net[x] # <<>>
      PROVE  net'[y] = net[y] \/ (net[y] # <<>> /\ net'[y] = Tail(net[y]))
  <2>1. y = Other(x) => Written(frames) = <<>>
    BY TwoPeers DEF Written
  <2>2. net' = [net EXCEPT ![x] = Tail(@), ![Other(x)] = @ \o Written(frames)]
    BY <1>4 DEF Exchange
  <2> QED
    BY <1>1, <1>4, <2>1, <2>2, TwoPeers DEF TypeInv, TypeOK
<1> QED
  BY <1>2, <1>3, <1>4 DEF Passing

LEMMA LostFrames ==
  ASSUME TypeInv, NEW x \in Peer, NEW y \in Peer, ~up, net' = net \/ Passing(x)
  PROVE  /\ net[y] = <<>> => net'[y] = <<>>
         /\ ToSet(net'[y]) \subseteq ToSet(net[y])
<1>1. net'[y] = net[y] \/ (net[y] # <<>> /\ net'[y] = Tail(net[y]))
  BY FramesTaken
<1>2. net[y] # <<>> => ToSet(Tail(net[y])) \subseteq ToSet(net[y])
  BY NetIsFrames, FramesTail
<1> QED
  BY <1>1, <1>2

LEMMA StaysConnected ==
  ASSUME TypeInv, NEW x \in Peer, NEW y \in Peer, up' = up, net' = net \/ Passing(x),
         Connected(y)'
  PROVE  Connected(y)
BY LostFrames DEF Connected


\* What events make of the row of the end they are pushed at.
LEMMA RowAfter ==
  ASSUME TypeInv, NEW x \in Peer
  PROVE  /\ \A pushed : Push(x, pushed) =>
              /\ \A y \in Peer : y # x => busy'[y] = busy[y]
              /\ busy'[x] = BusyAfter(busy[x], pushed)
         /\ Push(x, <<>>) => busy' = busy
         /\ Push(x, <<[kind |-> "RequestReceived"]>>) => busy' = busy
<1>1. ASSUME NEW pushed, Push(x, pushed)
      PROVE  /\ \A y \in Peer : y # x => busy'[y] = busy[y]
             /\ busy'[x] = BusyAfter(busy[x], pushed)
  BY <1>1 DEF Push, TypeInv, TypeOK
<1>2. \A b : BusyAfter(b, <<>>) = b /\ BusyAfter(b, <<[kind |-> "RequestReceived"]>>) = b
  <2> DEFINE e == [kind |-> "RequestReceived"]
  <2>1. Len(<<e>>) = 1 /\ <<e>>[1] = e
    OBVIOUS
  <2>2. e.kind = "RequestReceived"
    OBVIOUS
  <2> HIDE DEF e
  <2>3. Last(<<e>>).kind = "RequestReceived"
    BY <2>1, <2>2 DEF Last
  <2> QED
    BY <2>3, Zenon DEF BusyAfter, e
<1>3. \A pushed : Push(x, pushed) => busy' = [busy EXCEPT ![x] = BusyAfter(@, pushed)]
  BY DEF Push
<1>4. busy = [busy EXCEPT ![x] = busy[x]]
  BY DEF TypeInv, TypeOK
<1> QED
  BY <1>1, <1>2, <1>3, <1>4, Zenon

\* The end of anything frees the row.
LEMMA RowFreed ==
  ASSUME TypeInv, NEW x \in Peer, NEW pushed \in Seq(Event), NEW e,
         e.kind \in {"Failed", "Declined", "SendingFinished", "FilesReceived"},
         Push(x, Append(pushed, e))
  PROVE  ~busy'[x]
<1>1. Len(Append(pushed, e)) = Len(pushed) + 1 /\ Append(pushed, e)[Len(pushed) + 1] = e
  <2>1. pushed \in Seq(Event \union {e}) /\ e \in Event \union {e}
    <3>1. \A i \in 1..Len(pushed) : pushed[i] \in Event
      BY ElementOfSeq
    <3> QED
      BY <3>1, LenProperties, SeqDef
  <2> QED
    BY <2>1, AppendProperties
<1>2. Last(Append(pushed, e)) = e /\ Append(pushed, e) # <<>>
  BY <1>1 DEF Last
<1>3. busy'[x] = BusyAfter(busy[x], Append(pushed, e))
  BY RowAfter
<1>4. ~BusyAfter(busy[x], Append(pushed, e))
  BY <1>2, Zenon DEF BusyAfter
<1> QED
  BY <1>3, <1>4

LEMMA RowEnded ==
  ASSUME TypeInv, NEW x \in Peer, NEW e,
         e.kind \in {"Failed", "Declined", "SendingFinished", "FilesReceived"},
         Push(x, <<e>>)
  PROVE  ~busy'[x]
<1>1. PICK none \in Seq(Event) : none = <<>>
  <2>1. <<>> \in Seq(Event)
    OBVIOUS
  <2> QED
    BY <2>1, Zenon
<1>2. Append(none, e) = <<e>>
  BY <1>1
<1>3. Push(x, Append(none, e))
  BY <1>2
<1> QED
  BY <1>3, RowFreed

LEMMA RowFailed ==
  ASSUME TypeInv, NEW x \in Peer, NEW frames, NEW pushed \in Seq(Event), Fail(x, frames, pushed)
  PROVE  ~busy'[x]
<1>1. PICK e : e = [kind |-> "Failed"]
  OBVIOUS
<1>2. Push(x, Append(pushed, e))
  BY <1>1, Zenon DEF Fail
<1> QED
  BY <1>1, <1>2, RowFreed


\* A step of the end that sends: its own row, and what it leaves alone.
LEMMA SenderRow ==
  ASSUME TypeInv, NEW p \in Peer, NEW q \in Peer, p = Other(q), Turns(p, q),
         busy[p] /\ Connected(p) => activity[p] = "Sending",
         SendFiles(p) \/ SendNothing(p) \/ (\E accepted \in BOOLEAN : Respond(p, accepted))
           \/ Receive(p)
  PROVE  /\ busy'[p] /\ Connected(p)' => activity'[p] = "Sending"
         /\ rcv'[q] = rcv[q] /\ activity'[q] = activity[q] /\ busy'[q] = busy[q]
<1>1. p # q /\ q = Other(p) /\ net[p] \in Seq(Message) /\ up \in BOOLEAN
  BY Opposite, NetIsFrames
<1>2. up' = up /\ (net' = net \/ Passing(p))
  BY StepPasses
<1>3. Connected(p)' => Connected(p)
  BY <1>2, StaysConnected
<1>4. <<>> \in Seq(Event)
  OBVIOUS
\* what is disturbed is known from the pushed events
<1> DEFINE Own == \/ busy'[p] = busy[p] /\ activity'[p] = activity[p]
                  \/ activity'[p] = "Sending" \/ ~busy'[p] \/ ~Connected(p)'
           Apart == rcv'[q] = rcv[q] /\ activity'[q] = activity[q]
<1>5. ASSUME NEW s, NEW header, NEW pushed, NEW last, NEW grown,
             PutPartition(p, s, "Sending", header, pushed, last, grown)
      PROVE  Own /\ Apart
  <2>1. activity' = [activity EXCEPT ![p] = "Sending"] /\ UNCHANGED rcv
    BY <1>5, Zenon DEF PutPartition
  <2> QED
    BY <1>1, <2>1 DEF TypeInv, TypeOK
<1>6. ASSUME NEW frames, NEW pushed \in Seq(Event), Fail(p, frames, pushed)
      PROVE  Own /\ Apart
  <2>1. ~busy'[p]
    BY <1>6, RowFailed
  <2>2. activity' = [activity EXCEPT ![p] = "Idle"] /\ rcv' = [rcv EXCEPT ![p] = ResetRcv(p)]
    BY <1>6 DEF Fail
  <2> QED
    BY <1>1, <2>1, <2>2 DEF TypeInv, TypeOK
<1>7. ASSUME NEW s, NEW pushed \in Seq(Event), NextFile(p, s, "Sending", pushed)
      PROVE  Own /\ Apart
  <2> HIDE DEF Own, Apart
  <2>1. \/ \E half, header, last, grown : PutPartition(p, half, "Sending", header, pushed, last, grown)
        \/ \E frames : Fail(p, frames, pushed)
    BY <1>7, Zenon DEF NextFile
  <2> QED
    BY <1>5, <1>6, <2>1
<1>8. ASSUME net[p] # <<>>, Head(net[p]).type \in {"PartitionReceived", "FileTransferComplete"}
      PROVE  activity[p] = "Sending"
  BY <1>8, AnswerArrives DEF Tells, Answer
<1>9. CASE SendFiles(p)
  <2>1. activity[p] = "Idle" /\ Connected(p) /\ Push(p, <<>>) /\ UNCHANGED rcv
    BY <1>9, Zenon DEF SendFiles
  <2>2. activity' = [activity EXCEPT ![p] = "AwaitingResponse"]
    BY <1>9, Zenon DEF SendFiles
  <2>3. busy' = busy /\ ~busy[p]
    BY <2>1, RowAfter
  <2> QED
    BY <1>1, <2>1, <2>2, <2>3 DEF TypeInv, TypeOK
<1>10. CASE SendNothing(p)
  <2>1. PICK e : e = [kind |-> "Failed"] /\ Push(p, <<e>>) /\ UNCHANGED <<rcv, activity>>
    BY <1>10 DEF SendNothing
  <2>2. ~busy'[p]
    BY <2>1, RowEnded
  <2> QED
    BY <2>1, <2>2, <1>1, RowAfter
<1>11. CASE Receive(p)
  <2>1. \/ RcvDeclined(p) \/ RcvAccepted(p) \/ RcvPartitionReceived(p) \/ RcvProgress(p)
        \/ RcvFileTransferComplete(p) \/ RcvClosed(p)
    BY <1>11, SenderReceives
  <2>2. Own /\ Apart
    <3>1. CASE RcvDeclined(p)
      <4>1. PICK e : /\ e = [kind |-> "Declined"] /\ Push(p, <<e>>) /\ UNCHANGED rcv
                     /\ activity' = [activity EXCEPT ![p] = "Idle"]
        BY <3>1 DEF RcvDeclined
      <4>2. ~busy'[p]
        BY <4>1, RowEnded
      <4> QED
        BY <1>1, <4>1, <4>2 DEF TypeInv, TypeOK
    <3>2. CASE RcvAccepted(p)
      <4>1. PICK s \in Sender, pushed \in Seq(Event) : NextFile(p, s, "Sending", pushed)
        BY <3>2, AcceptedHalf, ZenonT(30)
      <4> HIDE DEF Own, Apart
      <4> QED
        BY <4>1, <1>7
    <3>3. CASE RcvPartitionReceived(p)
      <4>1. activity[p] = "Sending"
        BY <1>8, <3>3 DEF RcvPartitionReceived, Arrives
      <4>2. \/ Push(p, <<>>) /\ UNCHANGED <<rcv, activity>>
            \/ \E last, grown : PutPartition(p, snd[p], "Sending", <<>>, <<>>, last, grown)
            \/ Fail(p, <<>>, <<>>)
        <5> HIDE DEF Own, Apart
        <5> QED
          BY <3>3, <4>1, Zenon DEF RcvPartitionReceived
      <4>3. CASE Push(p, <<>>) /\ UNCHANGED <<rcv, activity>>
        BY <4>3, RowAfter
      <4> HIDE DEF Own, Apart
      <4> QED
        BY <1>4, <1>5, <1>6, <4>2, <4>3
    <3>4. CASE RcvProgress(p)
      <4>1. /\ UNCHANGED <<rcv, activity>> /\ (activity[p] = "Sending" \/ Push(p, <<>>))
        BY <3>4 DEF RcvProgress
      <4> QED
        BY <4>1, RowAfter
    <3>5. CASE RcvFileTransferComplete(p)
      <4>1. activity[p] = "Sending"
        BY <1>8, <3>5 DEF RcvFileTransferComplete, Arrives
      <4>2. \/ \E s : NextFile(p, s, "Sending", <<>>)
            \/ /\ \E n : Push(p, <<[kind |-> "SendingFinished", count |-> n]>>)
               /\ activity' = [activity EXCEPT ![p] = "Idle"] /\ UNCHANGED rcv
        BY <3>5, <4>1, Zenon DEF RcvFileTransferComplete
      <4>3. CASE /\ \E n : Push(p, <<[kind |-> "SendingFinished", count |-> n]>>)
                 /\ activity' = [activity EXCEPT ![p] = "Idle"] /\ UNCHANGED rcv
        <5>1. PICK e : e.kind = "SendingFinished" /\ Push(p, <<e>>)
          BY <4>3
        <5>2. ~busy'[p]
          BY <5>1, RowEnded
        <5> QED
          BY <1>1, <4>3, <5>2 DEF TypeInv, TypeOK
      <4> HIDE DEF Own, Apart
      <4> QED
        BY <1>4, <1>7, <4>2, <4>3
    <3>6. CASE RcvClosed(p)
      <4>1. /\ net[p] # <<>> /\ Head(net[p]).type = "Closed" /\ UNCHANGED up
            /\ Exchange(p, <<>>) /\ rcv' = [rcv EXCEPT ![p] = ResetRcv(p)]
            /\ activity' = [activity EXCEPT ![p] = "Idle"]
        BY <3>6 DEF RcvClosed, Arrives
      <4>2. Tail(net[p]) = <<>> /\ ~up
        BY <1>1, <4>1, ClosedTail DEF Turns
      <4>3. net'[p] = Tail(net[p])
        BY <1>1, <4>1, NothingWritten
      <4> QED
        BY <1>1, <4>1, <4>2, <4>3 DEF Connected, TypeInv, TypeOK
    <3> HIDE DEF Own, Apart
    <3> QED
      BY <2>1, <3>1, <3>2, <3>3, <3>4, <3>5, <3>6
  <2>3. \E pushed : Push(p, pushed)
    BY StepPushes
  <2> QED
    BY <1>1, <1>3, <2>2, <2>3, RowAfter
<1>12. ~\E accepted \in BOOLEAN : Respond(p, accepted)
  BY DEF Respond, Turns, Roles
<1> QED
  BY <1>1, <1>3, <1>9, <1>10, <1>11, <1>12, RowAfter


\* An accepted request is a transfer; an answer that was given leaves none waiting.
LEMMA RespondedRow ==
  ASSUME TypeInv, NEW q \in Peer, NEW request \in Manifest, request # <<>>,
         NEW accepted \in BOOLEAN, NEW written \in BOOLEAN, rcv[q].accepted = <<>>,
         NEW half, half = Responded(rcv[q], request, accepted, written)
  PROVE  half.accepted # <<>> <=> accepted /\ written
BY DEF Responded, TypeInv, TypeOK, Incoming

\* A step of the end that receives.
LEMMA ReceiverRow ==
  ASSUME TypeInv, TypeInv', AllTidy, NEW p \in Peer, NEW q \in Peer, p = Other(q), Turns(p, q),
         Rows(p, q),
         (\E accepted \in BOOLEAN : Respond(q, accepted)) \/ Receive(q)
  PROVE  /\ busy'[q] /\ Connected(q)' => rcv'[q].accepted # <<>>
         /\ rcv'[q].accepted # <<>> => activity'[q] = "Receiving"
         /\ activity'[p] = activity[p] /\ busy'[p] = busy[p]
<1>1. /\ p # q /\ q = Other(p) /\ net[q] \in Seq(Message) /\ up \in BOOLEAN
      /\ rcv[q] \in Incoming /\ Tidy(rcv[q])
  BY Opposite, NetIsFrames DEF AllTidy
<1>2. up' = up /\ (net' = net \/ Passing(q))
  BY StepPasses
<1>3. Connected(q)' => Connected(q)
  BY <1>2, StaysConnected
<1>4. busy'[p] = busy[p]
  BY <1>1, StepPushes, RowAfter
<1> DEFINE Own == /\ busy'[q] /\ Connected(q)' => rcv'[q].accepted # <<>>
                  /\ rcv'[q].accepted # <<>> => activity'[q] = "Receiving"
                  /\ activity'[p] = activity[p]
<1> SUFFICES Own
  BY <1>4
<1>5. ASSUME busy' = busy, UNCHANGED <<rcv, activity>> PROVE Own
  BY <1>3, <1>5 DEF Rows
<1>6. ASSUME NEW frames, NEW pushed \in Seq(Event), Fail(q, frames, pushed)
      PROVE  Own
  <2>1. ~busy'[q]
    BY <1>6, RowFailed
  <2>2. activity' = [activity EXCEPT ![q] = "Idle"] /\ rcv' = [rcv EXCEPT ![q] = ResetRcv(q)]
    BY <1>6 DEF Fail
  <2>3. activity'[p] = activity[p] /\ rcv'[q] = ResetRcv(q)
    BY <1>1, <2>2 DEF TypeInv, TypeOK
  <2> QED
    BY <2>1, <2>3, ResetFields
<1>7. ASSUME NEW half, rcv' = [rcv EXCEPT ![q] = half], half.accepted = rcv[q].accepted,
             half.accepted # <<>>, activity' = activity
      PROVE  Own
  <2>1. rcv'[q] = half
    BY <1>7 DEF TypeInv, TypeOK
  <2> QED
    BY <1>7, <2>1 DEF Rows
<1>8. ASSUME NEW request \in Manifest, request # <<>>, rcv[q].accepted = <<>>,
             NEW accepted \in BOOLEAN, NEW written \in BOOLEAN, NEW act,
             rcv' = [rcv EXCEPT ![q] = Responded(@, request, accepted, written)],
             activity' = [activity EXCEPT ![q] = act],
             accepted /\ written => act = "Receiving",
             Push(q, RespondEvents(accepted, written))
      PROVE  Own
  <2>1. rcv' = [rcv EXCEPT ![q] = Responded(rcv[q], request, accepted, written)]
    BY <1>8
  <2>2. PICK half : half = Responded(rcv[q], request, accepted, written)
    OBVIOUS
  <2>3. rcv'[q] = half /\ activity'[q] = act /\ activity'[p] = activity[p]
    BY <1>1, <1>8, <2>1, <2>2 DEF TypeInv, TypeOK
  <2>4. half.accepted # <<>> <=> accepted /\ written
    BY <1>8, <2>2, RespondedRow
  <2>5. ~(accepted /\ written) => busy' = busy
    BY <1>8, RowAfter DEF RespondEvents
  <2>6. busy[q] /\ Connected(q) => FALSE
    BY <1>8 DEF Rows
  <2> QED
    BY <1>3, <1>8, <2>3, <2>4, <2>5, <2>6
<1>9. CASE \E accepted \in BOOLEAN : Respond(q, accepted)
  <2>1. PICK accepted \in BOOLEAN : Respond(q, accepted)
    BY <1>9
  <2>2. PICK written \in BOOLEAN :
          /\ activity' = [activity EXCEPT ![q] =
               IF ~written THEN @ ELSE IF accepted THEN "Receiving" ELSE "Idle"]
          /\ rcv' = [rcv EXCEPT ![q] = Responded(@, rcv[q].pending, accepted, written)]
          /\ Push(q, RespondEvents(accepted, written))
    BY <2>1, Zenon DEF Respond, WriteOutcomes
  <2>3. rcv[q].pending # <<>> /\ rcv[q].pending \in Manifest /\ rcv[q].accepted = <<>>
    BY <1>1, <2>1 DEF Respond, Tidy, Incoming
  <2>4. PICK act : act = IF ~written THEN activity[q] ELSE IF accepted THEN "Receiving" ELSE "Idle"
    OBVIOUS
  <2>5. accepted /\ written => act = "Receiving"
    BY <2>4
  <2>6. activity' = [activity EXCEPT ![q] = act]
    BY <2>2, <2>4
  <2> HIDE DEF Own
  <2> QED
    BY <1>8, <2>2, <2>3, <2>5, <2>6, Zenon
<1>10. CASE RcvRequest(q)
  <2>1. Arrives(q, "Request")
    BY <1>10 DEF RcvRequest
  <2>2. Head(net[q]) \in Message /\ Head(net[q]) \in ToSet(net[q])
    BY <1>1, <2>1, FramesTail DEF Arrives
  <2>3. PICK request \in Manifest : request = Head(net[q]).manifest /\ request # <<>>
    BY <2>1, <2>2, MessageFields DEF Arrives, Rows
  <2>4. CASE (rcv[q].pending # <<>> \/ rcv[q].accepted # <<>>) /\ Push(q, <<>>)
               /\ UNCHANGED <<activity, rcv>>
    BY <1>5, <2>4, RowAfter
  <2>5. CASE /\ rcv[q].pending = <<>> /\ rcv[q].accepted = <<>>
             /\ rcv' = [rcv EXCEPT ![q].pending = request]
             /\ activity' = [activity EXCEPT ![q] = "IncomingRequest"]
             /\ Push(q, <<[kind |-> "RequestReceived"]>>)
    <3>1. busy' = busy
      BY <2>5, RowAfter
    <3>2. rcv'[q].accepted = <<>> /\ activity'[p] = activity[p]
      BY <1>1, <2>5 DEF TypeInv, TypeOK, Incoming
    <3> QED
      BY <1>3, <2>5, <3>1, <3>2 DEF Rows
  <2>6. CASE /\ rcv[q].pending = <<>> /\ rcv[q].accepted = <<>>
             /\ \E written \in WriteOutcomes :
                  /\ rcv' = [rcv EXCEPT ![q] = Responded(@, request, TRUE, written)]
                  /\ activity' = [activity EXCEPT ![q] =
                       IF written THEN "Receiving" ELSE "IncomingRequest"]
                  /\ Push(q, RespondEvents(TRUE, written))
    <3>1. PICK written \in BOOLEAN :
                  /\ rcv' = [rcv EXCEPT ![q] = Responded(@, request, TRUE, written)]
                  /\ activity' = [activity EXCEPT ![q] =
                       IF written THEN "Receiving" ELSE "IncomingRequest"]
                  /\ Push(q, RespondEvents(TRUE, written))
      BY <2>6 DEF WriteOutcomes
    <3>2. PICK act : act = IF written THEN "Receiving" ELSE "IncomingRequest"
      OBVIOUS
    <3>3. written => act = "Receiving"
      BY <3>2
    <3>4. activity' = [activity EXCEPT ![q] = act]
      BY <3>1, <3>2
    <3> HIDE DEF Own
    <3> QED
      BY <1>8, <2>3, <2>6, <3>1, <3>3, <3>4, Zenon
  <2> HIDE DEF Own
  <2>7. \/ (rcv[q].pending # <<>> \/ rcv[q].accepted # <<>>) /\ Push(q, <<>>)
             /\ UNCHANGED <<activity, rcv>>
        \/ /\ rcv[q].pending = <<>> /\ rcv[q].accepted = <<>>
           /\ rcv' = [rcv EXCEPT ![q].pending = request]
           /\ activity' = [activity EXCEPT ![q] = "IncomingRequest"]
           /\ Push(q, <<[kind |-> "RequestReceived"]>>)
        \/ /\ rcv[q].pending = <<>> /\ rcv[q].accepted = <<>>
           /\ \E written \in WriteOutcomes :
                /\ rcv' = [rcv EXCEPT ![q] = Responded(@, request, TRUE, written)]
                /\ activity' = [activity EXCEPT ![q] =
                     IF written THEN "Receiving" ELSE "IncomingRequest"]
                /\ Push(q, RespondEvents(TRUE, written))
    BY <1>10, <2>3, Zenon DEF RcvRequest
  <2> QED
    BY <2>4, <2>5, <2>6, <2>7
<1>11. CASE RcvIgnoredChunk(q) \/ RcvPartition(q)
  <2>1. Push(q, <<>>) /\ UNCHANGED <<activity, rcv>>
    BY <1>11 DEF RcvIgnoredChunk, RcvPartition
  <2> QED
    BY <1>5, <2>1, RowAfter
<1>12. CASE RcvHeader(q)
  <2> DEFINE half == [rcv[q] EXCEPT !.inFile = 0,
                        !.receiver = [header |-> Head(net[q]).header, data |-> <<>>, over |-> FALSE]]
  <2>1. \/ Push(q, <<>>) /\ UNCHANGED <<activity, rcv>>
        \/ Fail(q, <<>>, <<>>)
        \/ /\ rcv[q].accepted # <<>> /\ activity' = activity
           /\ rcv' = [rcv EXCEPT ![q].inFile = 0,
                        ![q].receiver = [header |-> Head(net[q]).header, data |-> <<>>, over |-> FALSE]]
    BY <1>12, Zenon DEF RcvHeader
  <2>2. half.accepted = rcv[q].accepted
    BY <1>1 DEF Incoming
  <2>3. CASE /\ rcv[q].accepted # <<>> /\ activity' = activity
             /\ rcv' = [rcv EXCEPT ![q].inFile = 0,
                          ![q].receiver = [header |-> Head(net[q]).header, data |-> <<>>, over |-> FALSE]]
    <3>1. rcv' = [rcv EXCEPT ![q] = half]
      BY <1>1, <2>3 DEF TypeInv, TypeOK
    <3> HIDE DEF half, Own
    <3> QED
      BY <1>7, <2>2, <2>3, <3>1, Zenon
  <2>4. <<>> \in Seq(Event)
    OBVIOUS
  <2> HIDE DEF Own
  <2> QED
    BY <1>5, <1>6, <2>1, <2>3, <2>4, RowAfter, Zenon
<1>13. ASSUME Arrives(q, "Chunk"), rcv[q].receiver # None
       PROVE  /\ Received(q).half \in Incoming /\ Received(q).half.receiver \in Receiver
              /\ Received(q).half.accepted = rcv[q].accepted
              /\ Received(q).half.remaining = rcv[q].remaining
              /\ Received(q).half.pending = <<>>
              /\ rcv[q].accepted # <<>> /\ rcv[q].remaining # <<>>
              /\ Received(q).events \in Seq(Event)
  BY <1>13, ReceivedFields, SilentReceived DEF Silent
<1>14. CASE RcvChunk(q)
  <2>1. /\ Arrives(q, "Chunk") /\ rcv[q].receiver # None
        /\ rcv' = [rcv EXCEPT ![q] = Received(q).half] /\ activity' = activity
    BY <1>14 DEF RcvChunk
  <2> HIDE DEF Own
  <2> QED
    BY <1>7, <1>13, <2>1, Zenon
<1>15. CASE RcvChunkFails(q)
  <2>1. /\ Arrives(q, "Chunk") /\ rcv[q].receiver # None
        /\ Fail(q, <<>>, <<>>) \/ Fail(q, FramesBeforeSaving(q), Received(q).events)
    BY <1>15, Zenon DEF RcvChunkFails
  <2>2. <<>> \in Seq(Event)
    OBVIOUS
  <2> HIDE DEF Own
  <2> QED
    BY <1>6, <1>13, <2>1, <2>2, Zenon
<1>16. CASE RcvLastChunk(q)
  <2>1. Arrives(q, "Chunk") /\ rcv[q].receiver # None
    BY <1>16 DEF RcvLastChunk
  <2>2. PICK half \in Incoming :
          /\ half = Received(q).half /\ half.accepted = rcv[q].accepted
          /\ half.accepted # <<>>
    BY <1>13, <2>1
  <2>3. PICK pushed \in Seq(Event) : pushed = Received(q).events
    BY <1>13, <2>1
  <2>4. \/ /\ rcv' = [rcv EXCEPT ![q] = Finished(half)]
           /\ \/ /\ Finished(half).accepted = <<>>
                 /\ activity' = [activity EXCEPT ![q] = "Idle"]
                 /\ \E files : Push(q, Append(pushed, [kind |-> "FilesReceived", files |-> files]))
              \/ Finished(half).accepted # <<>> /\ activity' = activity
        \/ rcv' = [rcv EXCEPT ![q] = half] /\ activity' = activity
        \/ /\ \E r :
                rcv' = [rcv EXCEPT ![q] = [Finished(half) EXCEPT
                          !.accepted = half.accepted, !.remaining = half.remaining,
                          !.received = r]]
           /\ activity' = activity
    BY <1>16, <2>2, <2>3, Zenon DEF RcvLastChunk
  <2>5. Finished(half).accepted # <<>> => Finished(half).accepted = half.accepted
    <3> DEFINE done == [half EXCEPT !.receiver = None, !.total = @ + half.receiver.header.size,
                          !.inFile = 0, !.received = Append(@, half.receiver.header),
                          !.remaining = IF @ = <<>> THEN @ ELSE Tail(@)]
    <3>1. Finished(half) \in {done, [done EXCEPT !.accepted = <<>>, !.received = <<>>]}
      BY DEF Finished
    <3> QED
      BY <3>1 DEF Incoming
  <2>6. CASE /\ rcv' = [rcv EXCEPT ![q] = Finished(half)]
             /\ Finished(half).accepted = <<>>
             /\ activity' = [activity EXCEPT ![q] = "Idle"]
             /\ \E files : Push(q, Append(pushed, [kind |-> "FilesReceived", files |-> files]))
    <3>1. PICK e : e.kind = "FilesReceived" /\ Push(q, Append(pushed, e))
      BY <2>6
    <3>2. ~busy'[q]
      BY <3>1, RowFreed
    <3> QED
      BY <1>1, <2>6, <3>2 DEF TypeInv, TypeOK
  <2>7. \A r : [Finished(half) EXCEPT !.accepted = half.accepted, !.remaining = half.remaining,
                                      !.received = r].accepted = half.accepted
    <3>1. DOMAIN Finished(half) = DOMAIN half
      BY DEF Finished
    <3>2. "accepted" \in DOMAIN half
      BY DEF Incoming
    <3> QED
      BY <3>1, <3>2
  <2> HIDE DEF Own
  <2>8. ASSUME NEW some, rcv' = [rcv EXCEPT ![q] = some], activity' = activity,
               some.accepted = half.accepted
        PROVE  Own
    BY <1>7, <2>2, <2>8, Zenon
  <2>9. CASE /\ \E r :
                  rcv' = [rcv EXCEPT ![q] = [Finished(half) EXCEPT
                            !.accepted = half.accepted, !.remaining = half.remaining,
                            !.received = r]]
             /\ activity' = activity
    <3>1. PICK r : rcv' = [rcv EXCEPT ![q] = [Finished(half) EXCEPT
                     !.accepted = half.accepted, !.remaining = half.remaining, !.received = r]]
      BY <2>9
    <3>2. PICK some : some = [Finished(half) EXCEPT
                     !.accepted = half.accepted, !.remaining = half.remaining, !.received = r]
      OBVIOUS
    <3>3. rcv' = [rcv EXCEPT ![q] = some] /\ some.accepted = half.accepted
      BY <2>7, <3>1, <3>2
    <3> QED
      BY <2>8, <2>9, <3>3, Zenon
  <2> QED
    BY <2>4, <2>5, <2>6, <2>8, <2>9, Zenon
<1>17. CASE RcvClosed(q)
  <2>1. /\ net[q] # <<>> /\ Head(net[q]).type = "Closed" /\ UNCHANGED up
        /\ Exchange(q, <<>>) /\ rcv' = [rcv EXCEPT ![q] = ResetRcv(q)]
        /\ activity' = [activity EXCEPT ![q] = "Idle"]
    BY <1>17 DEF RcvClosed, Arrives
  <2>2. Tail(net[q]) = <<>> /\ ~up
    BY <1>1, <2>1, ClosedTail DEF Turns
  <2>3. net'[q] = Tail(net[q])
    BY <1>1, <2>1, NothingWritten
  <2>4. rcv'[q] = ResetRcv(q) /\ activity'[p] = activity[p]
    BY <1>1, <2>1 DEF TypeInv, TypeOK
  <2> QED
    BY <1>1, <2>1, <2>2, <2>3, <2>4, ResetFields DEF Connected
<1>18. CASE Receive(q)
  <2>1. ASSUME net[q] # <<>>,
               Head(net[q]).type \in
                 {"Response", "PartitionReceived", "Progress", "FileTransferComplete"}
        PROVE  FALSE
    <3>1. Head(net[q]) \in ToSet(net[q])
      BY <2>1, NetIsFrames, FramesTail
    <3> QED
      BY <2>1, <3>1 DEF Turns, Roles, Outgoing
  <2>2. \/ RcvRequest(q) \/ RcvHeader(q) \/ RcvPartition(q) \/ RcvIgnoredChunk(q)
        \/ RcvChunk(q) \/ RcvLastChunk(q) \/ RcvChunkFails(q) \/ RcvClosed(q)
    BY <2>1, <1>18 DEF Receive, RcvStaleResponse, RcvDeclined, RcvAccepted,
                       RcvPartitionReceived, RcvProgress, RcvFileTransferComplete, Arrives
  <2> HIDE DEF Own
  <2> QED
    BY <1>10, <1>11, <1>12, <1>14, <1>15, <1>16, <1>17, <2>2
<1> QED
  BY <1>9, <1>18


\* The loss of the channel leaves of what was on its way a part, and its own news.
LEMMA LinkDropCuts ==
  ASSUME TypeInv, NEW x \in Peer, LinkDrop
  PROVE  \E n \in 0..Len(net[x]) :
           net'[x] = Append(SubSeq(net[x], 1, n), [type |-> "Closed"])
<1> DEFINE cut(y, n) == Append(SubSeq(net[y], 1, n), [type |-> "Closed"])
<1>1. PICK y \in Peer : \E here \in 0..Len(net[y]), there \in 0..Len(net[Other(y)]) :
        net' = [net EXCEPT ![y] = cut(y, here), ![Other(y)] = cut(Other(y), there)]
  BY Zenon DEF LinkDrop
<1>2. PICK here \in 0..Len(net[y]) : \E there \in 0..Len(net[Other(y)]) :
        net' = [net EXCEPT ![y] = cut(y, here), ![Other(y)] = cut(Other(y), there)]
  BY <1>1
<1>3. PICK there \in 0..Len(net[Other(y)]) :
        net' = [net EXCEPT ![y] = cut(y, here), ![Other(y)] = cut(Other(y), there)]
  BY <1>2
<1> HIDE DEF cut
<1>4. net'[y] = cut(y, here) /\ net'[Other(y)] = cut(Other(y), there)
  BY <1>3, TwoPeers DEF TypeInv, TypeOK
<1>5. PICK n \in 0..Len(net[x]) : net'[x] = cut(x, n)
  BY <1>2, <1>3, <1>4, TwoPeers
<1> QED
  BY <1>5 DEF cut

LEMMA LinkDropFrames ==
  ASSUME TypeInv, NEW x \in Peer, LinkDrop
  PROVE  \A m \in ToSet(net'[x]) : m \in ToSet(net[x]) \/ m.type = "Closed"
<1>1. PICK n \in 0..Len(net[x]) :
        net'[x] = Append(SubSeq(net[x], 1, n), [type |-> "Closed"])
  BY LinkDropCuts
<1>2. PICK closed \in Message : closed = [type |-> "Closed"] /\ closed.type = "Closed"
  BY MessageConstructors
<1>3. PICK u \in Seq(Message) : u = SubSeq(net[x], 1, n) /\ ToSet(u) \subseteq ToSet(net[x])
  BY NetIsFrames, FramesPrefix
<1>4. net'[x] = Append(u, closed)
  BY <1>1, <1>2, <1>3
<1>5. u \o <<closed>> = Append(u, closed) /\ <<closed>> \in Seq(Message)
  BY <1>2, <1>3, AppendIsConcat
<1>6. ToSet(net'[x]) = ToSet(u) \union {closed}
  <2>1. PICK last \in Seq(Message) : last = <<closed>> /\ ToSet(last) = {closed}
    BY <1>2, FramesOne
  <2>2. net'[x] = u \o last
    BY <1>4, <1>5, <2>1
  <2>3. ToSet(u \o last) = ToSet(u) \union ToSet(last)
    BY <1>3, <2>1, FramesConcat, ZenonT(30)
  <2> QED
    BY <2>1, <2>2, <2>3, ZenonT(30)
<1> QED
  BY <1>2, <1>3, <1>6

LEMMA InitRows == Init => RowsKnown
<1> SUFFICES ASSUME Init, NEW p \in Peer PROVE Rows(p, Other(p))
  BY DEF RowsKnown
<1> QED
  BY FramesEmpty, TwoPeers DEF Init, Rows, FreshRcv

\* A request on its way is of a batch that has files.
LEMMA RequestsHaveFiles ==
  ASSUME TypeInv, TypeInv', NEW p \in Peer, NEW q \in Peer, Turns(p, q)', up',
         NEW m \in ToSet(net'[q]), m.type = "Request"
  PROVE  m.manifest # <<>>
<1>1. m.manifest = snd'[p].offered /\ activity'[p] = "AwaitingResponse"
  BY DEF Turns, Asking
<1> QED
  BY <1>1 DEF Turns, Batch

LEMMA StepRows == KeepTurns /\ RowsKnown /\ [Next]_vars => RowsKnown'
<1> SUFFICES ASSUME KeepTurns, KeepTurns', RowsKnown, [Next]_vars,
                    NEW p \in Peer, NEW q \in Peer, q = Other(p), q \notin Senders
             PROVE  Rows(p, q)'
  BY StepKeepTurns, TwoPeers DEF RowsKnown
<1>1. /\ TypeInv /\ TypeInv' /\ AllTidy /\ Turns(p, q) /\ Turns(p, q)' /\ Rows(p, q)
      /\ p = Other(q) /\ p # q /\ \A x \in Peer : x = p \/ x = q
  BY Opposite, TwoPeers DEF KeepTurns, TakeTurns, RowsKnown
<1>2. CASE UNCHANGED vars
  BY <1>1, <1>2 DEF vars, Rows, Connected
<1>3. ASSUME ~up', \A m \in ToSet(net'[q]) : m \in ToSet(net[q]) \/ m.type = "Closed",
             NEW m \in ToSet(net'[q]), m.type = "Request"
      PROVE  m.manifest # <<>>
  BY <1>1, <1>3 DEF Rows
<1>4. ASSUME NEW x \in Peer,
             SendFiles(x) \/ SendNothing(x) \/ (\E accepted \in BOOLEAN : Respond(x, accepted))
               \/ Receive(x)
      PROVE  Rows(p, q)'
  <2>1. up' = up /\ (net' = net \/ Passing(x))
    BY <1>4, StepPasses
  <2>2. /\ \A y \in Peer : Connected(y)' => Connected(y)
        /\ ~up => ToSet(net'[q]) \subseteq ToSet(net[q])
    BY <1>1, <2>1, StaysConnected, LostFrames
  <2>3. \A m \in ToSet(net'[q]) : m.type = "Request" => m.manifest # <<>>
    BY <1>1, <1>3, <2>1, <2>2, RequestsHaveFiles
  <2>4. CASE x = p
    <3>1. /\ busy'[p] /\ Connected(p)' => activity'[p] = "Sending"
          /\ rcv'[q] = rcv[q] /\ activity'[q] = activity[q] /\ busy'[q] = busy[q]
      BY <1>1, <1>4, <2>4, SenderRow DEF Rows
    <3> QED
      BY <1>1, <2>2, <2>3, <3>1 DEF Rows
  <2>5. CASE x = q
    <3>1. ~SendFiles(q) /\ ~SendNothing(q)
      BY DEF SendFiles, SendNothing
    <3>2. /\ busy'[q] /\ Connected(q)' => rcv'[q].accepted # <<>>
          /\ rcv'[q].accepted # <<>> => activity'[q] = "Receiving"
          /\ activity'[p] = activity[p] /\ busy'[p] = busy[p]
      BY <1>1, <1>4, <2>5, <3>1, ReceiverRow
    <3> QED
      BY <1>1, <2>2, <2>3, <3>2 DEF Rows
  <2> QED
    BY <1>1, <2>4, <2>5
<1>5. CASE LinkDrop
  <2>1. up /\ ~up' /\ UNCHANGED <<activity, rcv, busy>>
    BY <1>5 DEF LinkDrop
  <2>2. \A m \in ToSet(net'[q]) : m \in ToSet(net[q]) \/ m.type = "Closed"
    BY <1>1, <1>5, LinkDropFrames
  <2>3. Connected(p) /\ Connected(q)
    BY <2>1 DEF Connected
  <2> QED
    BY <1>1, <1>3, <2>1, <2>2, <2>3 DEF Rows
<1>6. CASE Redial
  <2>1. /\ ~busy'[p] /\ ~busy'[q] /\ rcv'[q] = FreshRcv /\ net'[q] = <<>>
    BY <1>6 DEF Redial
  <2> QED
    BY <2>1, FramesEmpty DEF Rows, FreshRcv
<1> QED
  BY <1>2, <1>4, <1>5, <1>6 DEF Next

\* As long as one of two ends sends, a row that is disabled while its end is connected
\* belongs to a machine that sends or receives: whatever fails, is declined, reset or lost.
THEOREM RowsAreFreed == OneSender => (Spec => []BusyRowIsBusy)
<1> SUFFICES ASSUME OneSender PROVE Spec => []BusyRowIsBusy
  OBVIOUS
<1>1. KeepTurns /\ RowsKnown => BusyRowIsBusy
  <2> SUFFICES ASSUME KeepTurns, RowsKnown, NEW x \in Peer, busy[x], Connected(x)
               PROVE  activity[x] # "Idle"
    BY DEF BusyRowIsBusy
  <2>1. PICK y \in Peer : y = Other(x) /\ x = Other(y) /\ x # y
    BY TwoPeers
  <2>2. CASE y \notin Senders
    BY <2>1, <2>2 DEF RowsKnown, Rows
  <2>3. CASE x \notin Senders
    <3>1. Rows(y, x)
      BY <2>1, <2>3 DEF RowsKnown
    <3> QED
      BY <3>1 DEF Rows
  <2> QED
    BY <2>1, <2>2, <2>3 DEF OneSender
<1>2. KeepTurns /\ RowsKnown /\ [Next]_vars => (KeepTurns /\ RowsKnown)'
  BY StepKeepTurns, StepRows
<1> QED
  BY <1>1, <1>2, InitKeepTurns, InitRows, PTL DEF Spec

-----------------------------------------------------------------------------
(* At most one partition is on its way.                                    *)

NoChunks(s) == \A j \in 1..Len(s) : s[j].type # "Chunk"

LEMMA WindowOfNone ==
  ASSUME NEW s, NoChunks(s)
  PROVE  Window(s)
<1>1. 0 \in Int
  OBVIOUS
<1> QED
  BY <1>1, Zenon DEF NoChunks, Window

LEMMA WindowEmpty == Window(<<>>)
BY WindowOfNone DEF NoChunks

LEMMA WindowTail ==
  ASSUME NEW s \in Seq(Message), s # <<>>, Window(s)
  PROVE  Window(Tail(s))
<1>1. PICK t \in Seq(Message) :
        t = Tail(s) /\ \A j \in 1..Len(t) : j + 1 \in 1..Len(s) /\ t[j] = s[j + 1]
  BY FramesTail
<1>2. PICK h \in Int : \A j \in 1..Len(s) : s[j].type = "Chunk" => j - h \in 1..PartitionSize
  BY DEF Window
<1>3. PICK g \in Int : g = h - 1
  OBVIOUS
<1>4. ASSUME NEW j \in 1..Len(t), t[j].type = "Chunk"
      PROVE  j - g \in 1..PartitionSize
  <2>1. j \in Int /\ j + 1 \in 1..Len(s)
    BY <1>1, LenProperties
  <2>2. (j + 1) - h \in 1..PartitionSize
    BY <1>1, <1>2, <1>4, <2>1
  <2>3. (j + 1) - h = j - g
    BY <1>3, <2>1
  <2> QED
    BY <2>2, <2>3, Zenon
<1> QED
  BY <1>1, <1>4, Zenon DEF Window

LEMMA WindowConcat ==
  ASSUME NEW s \in Seq(Message), NEW t \in Seq(Message), Window(s), NoChunks(t)
  PROVE  Window(s \o t)
<1>1. PICK m \in Nat, n \in Nat : m = Len(s) /\ n = Len(t)
  BY LenProperties
<1>2. PICK all \in Seq(Message) :
        /\ all = s \o t /\ Len(all) = m + n
        /\ \A i \in 1..m : all[i] = s[i]
        /\ \A i \in 1..n : all[m + i] = t[i]
  <2>1. PICK all \in Seq(Message) : all = s \o t
    BY ConcatProperties
  <2>2. /\ Len(all) = Len(s) + Len(t)
        /\ \A i \in 1..Len(s) : all[i] = s[i]
        /\ \A i \in 1..Len(t) : all[Len(s) + i] = t[i]
    BY <2>1, ConcatProperties
  <2> QED
    BY <1>1, <2>1, <2>2
<1>3. PICK h \in Int : \A j \in 1..Len(s) : s[j].type = "Chunk" => j - h \in 1..PartitionSize
  BY DEF Window
<1>4. ASSUME NEW j \in 1..Len(all), all[j].type = "Chunk"
      PROVE  j - h \in 1..PartitionSize
  <2>1. CASE j \in 1..m
    BY <1>1, <1>2, <1>3, <1>4, <2>1
  <2>2. CASE j \notin 1..m
    <3>1. PICK i \in 1..n : j = m + i
      <4>1. j - m \in 1..n /\ j = m + (j - m)
        BY <1>2, <2>2
      <4> QED
        BY <4>1
    <3>2. t[i].type # "Chunk"
      BY <1>1, <3>1 DEF NoChunks
    <3> QED
      BY <1>2, <1>4, <3>1, <3>2
  <2> QED
    BY <2>1, <2>2
<1> QED
  BY <1>2, <1>4, Zenon DEF Window

\* What a lost channel leaves of a partition.
LEMMA WindowCut ==
  ASSUME NEW s \in Seq(Message), NEW n \in 0..Len(s), Window(s),
         NEW t, t = Append(SubSeq(s, 1, n), [type |-> "Closed"])
  PROVE  Window(t)
<1>1. PICK closed \in Message : closed = [type |-> "Closed"] /\ closed.type = "Closed"
  BY MessageConstructors
<1>2. PICK u \in Seq(Message) :
        /\ u = SubSeq(s, 1, n) /\ Len(u) = n
        /\ \A i \in 1..n : i \in 1..Len(s) /\ u[i] = s[i]
  BY FramesPrefix
<1>3. n \in Nat
  BY LenProperties
<1>4. /\ t \in Seq(Message) /\ Len(t) = n + 1 /\ t[n + 1] = closed
      /\ \A i \in 1..n : t[i] = s[i] /\ i \in 1..Len(s)
  BY <1>1, <1>2, <1>3, AppendProperties
<1>5. PICK h \in Int : \A j \in 1..Len(s) : s[j].type = "Chunk" => j - h \in 1..PartitionSize
  BY DEF Window
<1>6. ASSUME NEW j \in 1..Len(t), t[j].type = "Chunk"
      PROVE  j - h \in 1..PartitionSize
  <2>1. j \in 1..n \/ j = n + 1
    BY <1>3, <1>4
  <2> QED
    BY <1>1, <1>4, <1>5, <1>6, <2>1
<1> QED
  BY <1>6, Zenon DEF Window

\* So few chunks fit in it.
LEMMA WindowFits ==
  ASSUME NEW s \in Seq(Message), Window(s)
  PROVE  Cardinality({i \in DOMAIN s : s[i].type = "Chunk"}) <= PartitionSize
<1>1. PICK h \in Int : \A j \in 1..Len(s) : s[j].type = "Chunk" => j - h \in 1..PartitionSize
  BY DEF Window
<1>2. PartitionSize \in Nat /\ PartitionSize > 0
  BY PartitionAssumption
<1>3. PICK a \in Int, b \in Int : a = h + 1 /\ b = h + PartitionSize
  BY <1>2
<1>4. IsFiniteSet(a..b) /\ Cardinality(a..b) = PartitionSize
  <2>1. ~(a > b) /\ b - a + 1 = PartitionSize
    BY <1>2, <1>3
  <2> QED
    BY <2>1, FS_Interval
<1>5. PICK chunks : chunks = {i \in DOMAIN s : s[i].type = "Chunk"}
  OBVIOUS
<1>6. chunks \in SUBSET (a..b)
  <2> SUFFICES ASSUME NEW i \in chunks PROVE i \in a..b
    OBVIOUS
  <2>1. i \in 1..Len(s) /\ s[i].type = "Chunk" /\ i \in Int
    BY <1>5, LenProperties
  <2>2. i - h \in 1..PartitionSize
    BY <1>1, <2>1
  <2> QED
    BY <1>2, <1>3, <2>1, <2>2
<1>7. Cardinality(chunks) <= Cardinality(a..b)
  BY <1>4, <1>6, FS_Subset
<1> QED
  BY <1>4, <1>5, <1>7

\* What the end that sends adds to the channel: no chunks, or a partition on an empty one.
Adds(q, frames) ==
  /\ frames \in Seq(Message) /\ net'[q] = net[q] \o frames
  /\ NoChunks(frames) \/ (net[q] = <<>> /\ Window(frames))

LEMMA QuietFrames ==
  /\ <<>> \in Seq(Message) /\ NoChunks(<<>>)
  /\ \A m \in Message : m.type # "Chunk" => <<m>> \in Seq(Message) /\ NoChunks(<<m>>)
<1>1. <<>> \in Seq(Message) /\ Len(<<>>) = 0
  OBVIOUS
<1>2. \A m \in Message : <<m>> \in Seq(Message) /\ Len(<<m>>) = 1 /\ <<m>>[1] = m
  OBVIOUS
<1> QED
  BY <1>1, <1>2 DEF NoChunks

\* On an open channel a frame that is handled is answered by adding frames.
LEMMA Added ==
  ASSUME TypeInv, NEW p \in Peer, NEW q \in Peer, p = Other(q), up,
         NEW frames, Exchange(p, frames) \/ Write(p, frames)
  PROVE  net'[q] = net[q] \o frames
<1>1. Other(p) = q /\ p # q /\ DOMAIN net = Peer
  BY TwoPeers, Zenon DEF TypeInv, TypeOK
<1>2. CASE Exchange(p, frames)
  BY <1>1, <1>2 DEF Exchange, Written
<1>3. CASE Write(p, frames)
  BY <1>1, <1>3 DEF Write, Written
<1> QED
  BY <1>2, <1>3

LEMMA SenderAdds ==
  ASSUME TypeInv, NEW p \in Peer, NEW q \in Peer, p = Other(q), Turns(p, q), up,
         SendFiles(p) \/ SendNothing(p) \/ (\E accepted \in BOOLEAN : Respond(p, accepted))
           \/ Receive(p)
  PROVE  \E frames : Adds(q, frames)
<1> DEFINE Goal == \E frames : Adds(q, frames)
<1> SUFFICES Goal
  OBVIOUS
<1>1. net[p] \in Seq(Message) /\ net[q] \in Seq(Message) /\ net[q] \o <<>> = net[q]
  BY NetIsFrames, ConcatEmptySeq
<1>2. ASSUME NEW frames, Exchange(p, frames) \/ Write(p, frames), frames = <<>>
             \/ \E m \in Message : m.type # "Chunk" /\ frames = <<m>>
      PROVE  Goal
  <2>1. frames \in Seq(Message) /\ NoChunks(frames)
    BY <1>2, QuietFrames
  <2>2. net'[q] = net[q] \o frames
    BY <1>2, Added
  <2> QED
    BY <2>1, <2>2 DEF Adds
<1>3. Exchange(p, <<>>) \/ net' = net => Goal
  <2>1. PICK none : none = <<>> /\ none \in Seq(Message) /\ NoChunks(none)
    BY QuietFrames
  <2>2. net' = net => Adds(q, none)
    BY <1>1, <2>1 DEF Adds
  <2> HIDE DEF Goal
  <2>3. Exchange(p, none) => Goal
    BY <1>2, <2>1
  <2> QED
    BY <2>1, <2>2, <2>3 DEF Goal
<1>4. ASSUME NEW frames, NEW pushed, Fail(p, frames, pushed),
             frames = <<>> \/ \E m \in Message : m.type = "Header" /\ frames = <<m>>
      PROVE  Goal
  <2>1. Exchange(p, frames)
    BY <1>4, Zenon DEF Fail
  <2>2. frames = <<>> \/ \E m \in Message : m.type # "Chunk" /\ frames = <<m>>
    <3>1. ASSUME NEW m \in Message, m.type = "Header" PROVE m.type # "Chunk"
      BY <3>1
    <3> QED
      BY <1>4, <3>1
  <2> HIDE DEF Goal
  <2> QED
    BY <1>2, <2>1, <2>2
<1>5. ASSUME net[p] # <<>>, Head(net[p]).type \in Answer, NEW s \in Sender, s.chunker \in Chunker,
             NEW last \in s.chunker.offset..PartitionEnd(s.chunker), NEW grown \in BOOLEAN, NEW pushed, NEW header,
             header = <<>> \/ header = <<HeaderFrame(s.chunker)>>,
             PutPartition(p, s, "Sending", header, pushed, last, grown)
      PROVE  Goal
  <2>1. PICK c \in Chunker : c = s.chunker
    BY <1>5
  <2>2. PICK pause, frames :
          /\ pause = <<>> \/ pause = <<[type |-> "Partition"]>>
          /\ frames = header \o ChunksOf(c.name, c.offset + 1, last, grown) \o pause
          /\ Exchange(p, frames)
    <3> DEFINE read == Reading(c, last)
               rest == IF read.offset < c.size THEN <<[type |-> "Partition"]>> ELSE <<>>
    <3>1. Exchange(p, header \o ChunksOf(c.name, c.offset + 1, last, grown) \o rest)
      BY <1>5, <2>1, Zenon DEF PutPartition
    <3> HIDE DEF read
    <3>2. rest = <<>> \/ rest = <<[type |-> "Partition"]>>
      OBVIOUS
    <3> HIDE DEF rest
    <3> QED
      BY <3>1, <3>2
  <2>3. OnePartition(frames, c, last, pause)
    BY <1>5, <2>1, <2>2, PartitionFrames, ZenonT(30)
  <2>4. net[q] = <<>>
    BY <1>5, AnswerArrives
  <2>5. net'[q] = net[q] \o frames
    BY <2>2, Added
  <2> QED
    BY <2>3, <2>4, <2>5 DEF OnePartition, Adds
<1>6. ASSUME net[p] # <<>>, Head(net[p]).type \in Answer, NEW s \in Sender, s.queue # <<>>,
             NEW pushed, NextFile(p, s, "Sending", pushed)
      PROVE  Goal
  <2> HIDE DEF Goal
  <2>1. ASSUME NEW next, NEW last, NEW grown, Opens(p, s, next, last, grown, pushed)
        PROVE  Goal
    <3>1. PICK header : header = <<HeaderFrame(next.chunker)>>
      OBVIOUS
    <3>2. /\ next \in Sender /\ next.chunker \in Chunker
          /\ last \in next.chunker.offset..PartitionEnd(next.chunker) /\ grown \in BOOLEAN
          /\ PutPartition(p, next, "Sending", header, pushed, last, grown)
      BY <2>1, <3>1 DEF Opens
    <3> QED
      BY <1>5, <1>6, <3>1, <3>2
  <2> QED
    BY <1>4, <1>6, <2>1, NextFilePuts
<1>7. CASE SendFiles(p)
  <2>1. PICK batch \in Batches : \E manifest \in ManifestsOf(batch) :
          Write(p, <<[type |-> "Request", manifest |-> manifest]>>)
    BY <1>7, Zenon DEF SendFiles
  <2>2. PICK manifest \in ManifestsOf(batch) :
          Write(p, <<[type |-> "Request", manifest |-> manifest]>>)
    BY <2>1
  <2>3. manifest \in Manifest
    BY BatchAssumption, ManifestListed
  <2>4. PICK m \in Message : m = [type |-> "Request", manifest |-> manifest] /\ m.type # "Chunk"
    BY <2>3, MessageConstructors
  <2> HIDE DEF Goal
  <2> QED
    BY <1>2, <2>2, <2>4
<1>8. CASE SendNothing(p)
  BY <1>3, <1>8, Zenon DEF SendNothing
<1>9. CASE Receive(p)
  <2> HIDE DEF Goal
  <2>1. CASE RcvDeclined(p) \/ RcvProgress(p) \/ RcvClosed(p)
    BY <1>3, <2>1, Zenon DEF RcvDeclined, RcvProgress, RcvClosed
  <2>2. CASE RcvAccepted(p)
    <3>1. PICK s \in Sender, pushed \in Seq(Event) : NextFile(p, s, "Sending", pushed) /\ s.queue # <<>>
      BY <2>2, AcceptedHalf
    <3>2. net[p] # <<>> /\ Head(net[p]).type \in Answer
      BY <2>2 DEF RcvAccepted, Arrives, Answer
    <3> QED
      BY <1>6, <3>1, <3>2
  <2>3. CASE RcvPartitionReceived(p)
    <3>1. PICK none : none = <<>>
      OBVIOUS
    <3>2. /\ net[p] # <<>> /\ Head(net[p]).type \in Answer
          /\ snd[p] \in Sender /\ snd[p].chunker \in Chunker
          /\ \/ Fail(p, none, none)
             \/ \E last \in snd[p].chunker.offset..PartitionEnd(snd[p].chunker), grown \in BOOLEAN :
                  PutPartition(p, snd[p], "Sending", none, none, last, grown)
      BY <2>3, <3>1, PartitionRead, ZenonT(30)
    <3> QED
      BY <1>4, <1>5, <3>1, <3>2
  <2>4. CASE RcvFileTransferComplete(p)
    <3>1. net[p] # <<>> /\ Head(net[p]).type \in Answer /\ activity[p] = "Sending"
      <4>1. /\ net[p] # <<>> /\ Head(net[p]).type \in Answer
            /\ Head(net[p]).type = "FileTransferComplete"
        BY <2>4 DEF RcvFileTransferComplete, Arrives, Answer
      <4> QED
        BY <4>1, AnswerArrives DEF Tells
    <3>2. PICK s : s = CompletedHalf(p) /\ s \in Sender /\ s.queue = snd[p].queue
      BY CompletedFields
    <3>3. \/ snd[p].queue # <<>> /\ NextFile(p, s, "Sending", <<>>)
          \/ Exchange(p, <<>>)
      BY <2>4, <3>1, <3>2, Zenon DEF RcvFileTransferComplete, CompletedHalf
    <3> QED
      BY <1>3, <1>6, <3>1, <3>2, <3>3
  <2> QED
    BY <1>9, <2>1, <2>2, <2>3, <2>4, SenderReceives
<1>10. ~\E accepted \in BOOLEAN : Respond(p, accepted)
  BY DEF Respond, Turns, Roles
<1> QED
  BY <1>7, <1>8, <1>9, <1>10

\* Of two ends, what goes to the one whose peer may send is one partition at most.
Windows == \A p \in Peer : Other(p) \notin Senders => Window(net[Other(p)])

LEMMA InitWindows == Init => Windows
BY WindowEmpty, TwoPeers DEF Init, Windows

LEMMA StepWindows == KeepTurns /\ Windows /\ [Next]_vars => Windows'
<1> SUFFICES ASSUME KeepTurns, Windows, [Next]_vars,
                    NEW p \in Peer, NEW q \in Peer, q = Other(p), q \notin Senders
             PROVE  Window(net'[q])
  BY TwoPeers DEF Windows
<1>1. /\ TypeInv /\ Turns(p, q) /\ Window(net[q]) /\ net[q] \in Seq(Message)
      /\ p = Other(q) /\ \A x \in Peer : x = p \/ x = q
  BY Opposite, TwoPeers, NetIsFrames DEF KeepTurns, TakeTurns, Windows
<1>2. CASE UNCHANGED vars
  BY <1>1, <1>2 DEF vars
<1>3. ASSUME NEW x \in Peer,
             SendFiles(x) \/ SendNothing(x) \/ (\E accepted \in BOOLEAN : Respond(x, accepted))
               \/ Receive(x)
      PROVE  Window(net'[q])
  <2>1. CASE ~up \/ x = q
    <3>1. net'[q] = net[q] \/ (net[q] # <<>> /\ net'[q] = Tail(net[q]))
      BY <1>1, <1>3, <2>1, StepPasses, FramesTaken
    <3> QED
      BY <1>1, <3>1, WindowTail
  <2>2. CASE up /\ x = p
    <3>1. PICK frames : Adds(q, frames)
      BY <1>1, <1>3, <2>2, SenderAdds
    <3>2. CASE NoChunks(frames)
      BY <1>1, <3>1, <3>2, WindowConcat DEF Adds
    <3>3. CASE net[q] = <<>> /\ Window(frames)
      BY <3>1, <3>3, ConcatEmptySeq DEF Adds
    <3> QED
      BY <3>1, <3>2, <3>3 DEF Adds
  <2> QED
    BY <1>1, <2>1, <2>2
<1>4. CASE LinkDrop
  <2>1. PICK n \in 0..Len(net[q]) :
          net'[q] = Append(SubSeq(net[q], 1, n), [type |-> "Closed"])
    BY <1>1, <1>4, LinkDropCuts
  <2> QED
    BY <1>1, <2>1, WindowCut
<1>5. CASE Redial
  BY <1>5, WindowEmpty DEF Redial
<1> QED
  BY <1>2, <1>3, <1>4, <1>5 DEF Next

\* As long as one of two ends sends, the chunks on their way to an end are of one partition at
\* most, however late or early its acknowledgement comes: batches that were given up, resets
\* and lost channels included.
THEOREM OnePartitionHolds == OneSender => (Spec => []OnePartitionInFlight)
<1> SUFFICES ASSUME OneSender PROVE Spec => []OnePartitionInFlight
  OBVIOUS
<1>1. KeepTurns /\ Windows => OnePartitionInFlight
  <2> SUFFICES ASSUME KeepTurns, Windows, NEW x \in Peer PROVE Window(net[x])
    BY WindowFits, NetIsFrames DEF KeepTurns, OnePartitionInFlight, InFlight
  <2>1. PICK y \in Peer : y = Other(x) /\ x = Other(y) /\ x # y
    BY TwoPeers
  <2>2. CASE x \notin Senders
    BY <2>1, <2>2 DEF Windows
  <2>3. CASE y \notin Senders
    <3>1. \A m \in ToSet(net[x]) : m.type # "Chunk"
      BY <2>1, <2>3 DEF KeepTurns, TakeTurns, Turns, Roles, Answer
    <3>2. NoChunks(net[x])
      BY <3>1, NetIsFrames, FramesIndexed DEF KeepTurns, NoChunks
    <3> QED
      BY <3>2, WindowOfNone
  <2> QED
    BY <2>1, <2>2, <2>3 DEF OneSender
<1>2. KeepTurns /\ Windows /\ [Next]_vars => (KeepTurns /\ Windows)'
  BY StepKeepTurns, StepWindows
<1> QED
  BY <1>1, <1>2, InitKeepTurns, InitWindows, PTL DEF Spec

-----------------------------------------------------------------------------
(* Quiet ends agree.                                                       *)

Accepting(s) == \E m \in ToSet(s) : m.type = "Response" /\ m.accepted

\* The end that receives is doing what its incoming half says, and keeps no whole file staged.
Occupied(q) ==
  /\ activity[q] = "IncomingRequest" <=> rcv[q].pending # <<>>
  /\ activity[q] = "Receiving" <=> rcv[q].accepted # <<>>
  /\ rcv[q].receiver # None => rcv[q].receiver.data = <<>> \/ ~IsComplete(rcv[q].receiver)

\* What the end that sends waits for is on its way, or the other end has yet to give it.
Pursued(p, q) ==
  /\ activity[p] = "AwaitingResponse" =>
       Carries(net[q], "Request") \/ rcv[q].pending # <<>> \/ Carries(net[p], "Response")
  /\ activity[p] = "Sending" /\ Unread(snd[p]) =>
       Carries(net[q], "Partition") \/ Carries(net[p], "PartitionReceived")
  /\ rcv[q].accepted # <<>> => activity[p] = "Sending" \/ Accepting(net[p])

\* What the other end waits for is the file that is sent, up to its last chunk.
Expected(p, q) ==
  activity[p] = "Sending" =>
    /\ Begun(snd[p]) = snd[p].offered[snd[p].filesSent + 1]
    /\ Carries(net[p], "FileTransferComplete") =>
         (rcv[q].accepted = <<>> <=> snd[p].queue = <<>>)
    /\ ~Carries(net[p], "FileTransferComplete") =>
         /\ rcv[q].accepted # <<>>
         /\ rcv[q].receiver # None \/ Carries(net[q], "Header")
    /\ Carries(net[q], "Header") => Carries(net[q], "Chunk")
    /\ rcv[q].receiver # None /\ ~Carries(net[q], "Chunk") =>
         Len(rcv[q].receiver.data) = snd[p].chunker.offset

Agreed(p, q) == Occupied(q) /\ Pursued(p, q) /\ Expected(p, q)

\* As long as no file failed, of every two ends whose other one does not send.
Agreement ==
  up /\ Faultless => \A p \in Peer : Other(p) \notin Senders => Agreed(p, Other(p))

LEMMA CarriesTail ==
  ASSUME NEW s \in Seq(Message), s # <<>>
  PROVE  /\ \A type : Carries(s, type) <=> Head(s).type = type \/ Carries(Tail(s), type)
         /\ Accepting(s) <=>
              (Head(s).type = "Response" /\ Head(s).accepted) \/ Accepting(Tail(s))
BY FramesTail DEF Carries, Accepting

LEMMA CarriesConcat ==
  ASSUME NEW s \in Seq(Message), NEW t \in Seq(Message)
  PROVE  /\ \A type : Carries(s \o t, type) <=> Carries(s, type) \/ Carries(t, type)
         /\ Accepting(s \o t) <=> Accepting(s) \/ Accepting(t)
BY FramesConcat DEF Carries, Accepting

LEMMA CarriesNothing ==
  (\A type : ~Carries(<<>>, type)) /\ ~Accepting(<<>>)
BY FramesEmpty DEF Carries, Accepting

LEMMA CarriesOne ==
  ASSUME NEW m \in Message
  PROVE  /\ \A type : Carries(<<m>>, type) <=> m.type = type
         /\ Accepting(<<m>>) <=> m.type = "Response" /\ m.accepted
BY FramesOne DEF Carries, Accepting

LEMMA CarriesAppended ==
  ASSUME NEW s \in Seq(Message), NEW m \in Message
  PROVE  /\ \A type : Carries(s \o <<m>>, type) <=> Carries(s, type) \/ m.type = type
         /\ Accepting(s \o <<m>>) <=> Accepting(s) \/ (m.type = "Response" /\ m.accepted)
<1>1. PICK one \in Seq(Message) : one = <<m>>
  BY FramesOne
<1>2. /\ \A type : Carries(one, type) <=> m.type = type
      /\ Accepting(one) <=> m.type = "Response" /\ m.accepted
  BY <1>1, CarriesOne
<1>3. /\ \A type : Carries(s \o one, type) <=> Carries(s, type) \/ Carries(one, type)
      /\ Accepting(s \o one) <=> Accepting(s) \/ Accepting(one)
  BY CarriesConcat
<1> QED
  BY <1>1, <1>2, <1>3, Zenon

\* Who is answered hears nothing of what answers are for.
LEMMA NoAnswerCarried ==
  ASSUME NEW s, ~Answering(s)
  PROVE  /\ \A type \in Answer : ~Carries(s, type)
         /\ ~Accepting(s)
BY DEF Answering, Carries, Accepting, Answer

\* What can be said of a frame that arrives at the end whose user does not send.
LEMMA FrameArrives ==
  ASSUME TypeInv, NEW p \in Peer, NEW q \in Peer, Turns(p, q), up, net[q] # <<>>
  PROVE  /\ net[q] \in Seq(Message) /\ Tail(net[q]) \in Seq(Message)
         /\ net[p] \in Seq(Message)
         /\ Head(net[q]) \in ToSet(net[q])
         /\ Head(net[q]).type \in Outgoing \ {"Closed"}
         /\ rcv[q].pending = <<>> /\ ~Answering(net[p])
         /\ ~Carries(Tail(net[q]), "Header")
         /\ Head(net[q]).type \in {"Request", "Partition"} => Tail(net[q]) = <<>>
<1>1. /\ net[q] \in Seq(Message) /\ Tail(net[q]) \in Seq(Message) /\ net[p] \in Seq(Message)
      /\ Head(net[q]) \in ToSet(net[q]) /\ Head(net[q]) = net[q][1]
      /\ 1 \in 1..Len(net[q])
  <2>1. net[q] \in Seq(Message) /\ net[p] \in Seq(Message)
    BY NetIsFrames
  <2>2. /\ Tail(net[q]) \in Seq(Message) /\ Head(net[q]) \in ToSet(net[q])
        /\ Head(net[q]) = net[q][1] /\ Len(net[q]) \in Nat /\ Len(net[q]) >= 1
    BY <2>1, FramesTail
  <2> QED
    BY <2>1, <2>2
<1>2. Head(net[q]).type # "Closed"
  BY <1>1 DEF Turns, ClosedLast
<1>3. Head(net[q]).type \in Outgoing
  BY <1>1 DEF Turns, Roles
<1>4. ~Answering(net[p])
  BY <1>2, NothingAnswered
<1>5. rcv[q].pending = <<>>
  BY DEF Turns, Asking
<1>6. Shape(net[q])
  BY DEF Turns, Asking
<1> QED
  BY <1>1, <1>2, <1>3, <1>4, <1>5, <1>6, ShapeTail

-----------------------------------------------------------------------------
(* No file failed, and none fails in a step that keeps it so.              *)

LEMMA NoFaultYet ==
  ASSUME TypeInv, NEW x \in Peer,
         SendFiles(x) \/ SendNothing(x) \/ (\E accepted \in BOOLEAN : Respond(x, accepted))
           \/ Receive(x),
         Faultless'
  PROVE  Faultless /\ ~Fault
<1>1. budget \in [requests : 0..MaxRequests, faults : 0..MaxFaults, drops : 0..MaxDrops]
      /\ MaxFaults \in Nat
  BY BoundAssumption DEF TypeInv, TypeOK, BudgetOK
<1>2. budget'.faults = budget.faults \/ Fault
  <2>1. ASSUME SendFiles(x) \/ SendNothing(x)
        PROVE  budget'.faults = budget.faults
    <3>1. budget' = [budget EXCEPT !.requests = @ - 1]
      BY <2>1, Zenon DEF SendFiles, SendNothing
    <3> QED
      BY <1>1, <3>1
  <2>2. ASSUME \E accepted \in BOOLEAN : Respond(x, accepted)
        PROVE  NoFault
    BY <2>2, Zenon DEF Respond
  <2>3. ASSUME Receive(x)
        PROVE  NoFault \/ Fault
    <3>1. CASE RcvStaleResponse(x) \/ RcvDeclined(x) \/ RcvProgress(x) \/ RcvRequest(x)
               \/ RcvPartition(x) \/ RcvIgnoredChunk(x) \/ RcvChunk(x) \/ RcvLastChunk(x)
               \/ RcvChunkFails(x) \/ RcvClosed(x)
      BY <3>1, Zenon DEF RcvStaleResponse, RcvDeclined, RcvProgress, RcvRequest, RcvPartition,
         RcvIgnoredChunk, RcvChunk, RcvLastChunk, RcvChunkFails, RcvClosed
    <3>2. CASE RcvAccepted(x) \/ RcvFileTransferComplete(x)
      BY <3>2, Zenon DEF RcvAccepted, RcvFileTransferComplete, NextFile
    <3>3. CASE RcvPartitionReceived(x)
      BY <3>3, Zenon DEF RcvPartitionReceived
    <3>4. CASE RcvHeader(x)
      BY <3>4, Zenon DEF RcvHeader
    <3> QED
      BY <2>3, <3>1, <3>2, <3>3, <3>4, Zenon DEF Receive
  <2> QED
    BY <2>1, <2>2, <2>3 DEF NoFault
<1>3. ~Fault
  BY <1>1 DEF Fault, Faultless
<1> QED
  BY <1>2, <1>3 DEF Faultless

-----------------------------------------------------------------------------
(* Steps of the end that receives.                                         *)

\* A handler of a header or a chunk that answers nothing.
LEMMA ReceiverAgrees ==
  ASSUME TypeInv, NEW p \in Peer, NEW q \in Peer, Turns(p, q), up, Agreed(p, q),
         net[q] # <<>>, Head(net[q]).type \in {"Header", "Chunk"},
         NEW w \in Seq(Message), \A m \in ToSet(w) : m.type = "Progress",
         net'[q] = Tail(net[q]), net'[p] = net[p] \o w,
         activity'[p] = activity[p], snd'[p] = snd[p], activity'[q] = activity[q],
         rcv'[q].pending = rcv[q].pending, rcv'[q].accepted = rcv[q].accepted,
         rcv'[q].receiver # None =>
           rcv'[q].receiver.data = <<>> \/ ~IsComplete(rcv'[q].receiver),
         activity[p] = "Sending" =>
           /\ rcv'[q].receiver # None
           /\ ~Carries(Tail(net[q]), "Chunk") =>
                Len(rcv'[q].receiver.data) = snd[p].chunker.offset
  PROVE  Agreed(p, q)'
<1>1. /\ net[q] \in Seq(Message) /\ Tail(net[q]) \in Seq(Message) /\ net[p] \in Seq(Message)
      /\ ~Carries(Tail(net[q]), "Header")
      /\ ~Answering(net[p]) /\ rcv[q].pending = <<>>
  BY FrameArrives
<1>2. /\ \A type \in Answer : ~Carries(w, type)
      /\ ~Accepting(w)
  BY DEF Carries, Accepting, Answer
<1>3. /\ \A type \in Answer : ~Carries(net[p], type) /\ ~Carries(net'[p], type)
      /\ ~Accepting(net[p])
  BY <1>1, <1>2, NoAnswerCarried, CarriesConcat
<1>4. \A type \in {"Request", "Partition"} : Carries(net'[q], type) <=> Carries(net[q], type)
  BY <1>1, CarriesTail
<1>5. Occupied(q)'
  BY DEF Agreed, Occupied, IsComplete
<1>6. Pursued(p, q)'
  BY <1>1, <1>3, <1>4 DEF Agreed, Pursued, Unread, Answer
<1>7. Expected(p, q)'
  BY <1>1, <1>3 DEF Agreed, Expected, Begun, Answer
<1> QED
  BY <1>5, <1>6, <1>7 DEF Agreed

\* The file that a header announces is the next one of those that were accepted.
LEMMA NextExpected ==
  ASSUME TypeInv, AllTidy, ManifestHonoured, NEW p \in Peer, NEW q \in Peer, Turns(p, q), up,
         activity[p] = "Sending", rcv[q].accepted # <<>>,
         ~Carries(net[p], "FileTransferComplete")
  PROVE  /\ Len(rcv[q].remaining) = Len(snd[p].queue) + 1
         /\ rcv[q].remaining # <<>>
         /\ Head(rcv[q].remaining) = snd[p].offered[snd[p].filesSent + 1]
<1>1. /\ rcv[q].received \in Manifest /\ rcv[q].remaining \in Manifest
      /\ rcv[q].received \o rcv[q].remaining = rcv[q].accepted
      /\ snd[p].queue \in Seq(File) /\ snd[p].filesSent \in Nat
  BY NetIsFrames DEF ManifestHonoured, Honours, Incoming, Sender
<1>2. /\ rcv[q].accepted = snd[p].offered
      /\ Len(rcv[q].received) = snd[p].filesSent
      /\ Len(snd[p].queue) + snd[p].filesSent + 1 = Len(snd[p].offered)
  <2>1. Len(rcv[q].received) = snd[p].filesSent + 0 /\ rcv[q].accepted = snd[p].offered
    BY DEF Turns, Engaged
  <2> QED
    BY <1>1, <2>1 DEF Turns, Batch
<1>3. /\ Len(rcv[q].received) \in Nat /\ Len(rcv[q].remaining) \in Nat
      /\ Len(snd[p].queue) \in Nat
      /\ Len(rcv[q].accepted) = Len(rcv[q].received) + Len(rcv[q].remaining)
      /\ \A i \in 1..Len(rcv[q].remaining) :
           rcv[q].accepted[Len(rcv[q].received) + i] = rcv[q].remaining[i]
  <2>1. PICK some \in Seq(FileHeader), rest \in Seq(FileHeader) :
          some = rcv[q].received /\ rest = rcv[q].remaining
    BY <1>1 DEF Manifest
  <2>2. /\ Len(some \o rest) = Len(some) + Len(rest)
        /\ \A i \in 1..Len(rest) : (some \o rest)[Len(some) + i] = rest[i]
    BY ConcatProperties
  <2>3. Len(some) \in Nat /\ Len(rest) \in Nat /\ Len(snd[p].queue) \in Nat
    BY <1>1, LenProperties
  <2> QED
    BY <1>1, <2>1, <2>2, <2>3
<1>4. Len(rcv[q].remaining) = Len(snd[p].queue) + 1
  <2>1. PICK n \in Nat, m \in Nat, k \in Nat :
          n = Len(rcv[q].received) /\ m = Len(rcv[q].remaining) /\ k = Len(snd[p].queue)
    BY <1>3
  <2>2. n + m = k + n + 1
    BY <1>2, <1>3, <2>1
  <2>3. m = k + 1
    BY <2>2
  <2> QED
    BY <2>1, <2>3
<1>5. 1 \in 1..Len(rcv[q].remaining)
  BY <1>3, <1>4
<1>6. rcv[q].remaining # <<>> /\ Head(rcv[q].remaining) = rcv[q].remaining[1]
  <2>1. Len(rcv[q].remaining) # 0
    BY <1>3, <1>4
  <2> QED
    BY <1>1, <2>1, HeadTailProperties, EmptySeq DEF Manifest
<1> QED
  BY <1>1, <1>2, <1>3, <1>4, <1>5, <1>6

LEMMA RcvHeaderAgrees ==
  ASSUME TypeInv, AllTidy, ManifestHonoured, NEW p \in Peer, NEW q \in Peer, p = Other(q),
         Turns(p, q), up, ~Fault, Agreed(p, q), RcvHeader(q)
  PROVE  Agreed(p, q)'
<1> DEFINE header == Head(net[q]).header
<1>1. net[q] # <<>> /\ Head(net[q]).type = "Header"
  BY DEF RcvHeader, Arrives
<1>2. /\ net[q] \in Seq(Message) /\ Head(net[q]) \in ToSet(net[q]) /\ ~Answering(net[p])
      /\ rcv[q].pending = <<>>
  BY <1>1, FrameArrives
<1>3. ~Carries(net[p], "FileTransferComplete") /\ ~Accepting(net[p])
  BY <1>2, NoAnswerCarried DEF Answer
<1>4. activity[p] = "Sending" =>
        /\ rcv[q].accepted # <<>> /\ rcv[q].remaining # <<>>
        /\ header = Head(rcv[q].remaining)
        /\ Carries(Tail(net[q]), "Chunk")
  <2> SUFFICES ASSUME activity[p] = "Sending"
               PROVE  /\ rcv[q].accepted # <<>> /\ rcv[q].remaining # <<>>
                      /\ header = Head(rcv[q].remaining)
                      /\ Carries(Tail(net[q]), "Chunk")
    OBVIOUS
  <2>1. header = Begun(snd[p])
    BY <1>1, <1>2 DEF Turns, Asking
  <2>2. rcv[q].accepted # <<>> /\ Begun(snd[p]) = snd[p].offered[snd[p].filesSent + 1]
    BY <1>3 DEF Agreed, Expected
  <2>3. rcv[q].remaining # <<>> /\ Head(rcv[q].remaining) = snd[p].offered[snd[p].filesSent + 1]
    BY <1>3, <2>2, NextExpected
  <2>4. Carries(net[q], "Header")
    BY <1>1, <1>2 DEF Carries
  <2>5. Carries(net[q], "Chunk")
    BY <2>4 DEF Agreed, Expected
  <2>6. Carries(Tail(net[q]), "Chunk")
    BY <1>1, <1>2, <2>5, CarriesTail
  <2> QED
    BY <2>1, <2>2, <2>3, <2>6
<1>5. activity[p] # "Sending" => rcv[q].accepted = <<>>
  BY <1>3 DEF Agreed, Pursued
<1>6. Exchange(q, <<>>) =>
        /\ net'[q] = Tail(net[q]) /\ net'[p] = net[p] \o <<>>
        /\ <<>> \in Seq(Message) /\ \A m \in ToSet(<<>>) : m.type = "Progress"
  BY NothingWritten
<1>7. CASE /\ rcv[q].accepted = <<>> \/ rcv[q].remaining = <<>>
           /\ Exchange(q, <<>>) /\ UNCHANGED <<activity, snd, rcv>>
  <2>1. activity[p] # "Sending"
    BY <1>4, <1>7
  <2>2. Occupied(q)
    BY DEF Agreed
  <2> QED
    BY <1>1, <1>6, <1>7, <2>1, <2>2, ReceiverAgrees DEF Occupied
<1>8. CASE /\ rcv[q].accepted # <<>> /\ header # Head(rcv[q].remaining)
  BY <1>4, <1>5, <1>8
<1>9. CASE /\ rcv' = [rcv EXCEPT ![q].inFile = 0,
                                ![q].receiver = [header |-> header, data |-> <<>>, over |-> FALSE]]
           /\ rcv[q].accepted # <<>>
           /\ Exchange(q, <<>>) /\ UNCHANGED <<activity, snd>>
  <2>1. [header |-> header, data |-> <<>>, over |-> FALSE] # None
    <3>1. header \in FileHeader
      BY <1>1, <1>2, FramesTail, MessageFields
    <3>2. <<>> \in Seq(File \X Nat)
      OBVIOUS
    <3>3. [header |-> header, data |-> <<>>, over |-> FALSE] \in
            [header : [name : File, size : Nat], data : Seq(File \X Nat), over : BOOLEAN]
      BY <3>1, <3>2 DEF FileHeader
    <3> QED
      BY <3>3, NoneAssumption
  <2>2. /\ rcv'[q].receiver = [header |-> header, data |-> <<>>, over |-> FALSE]
        /\ rcv'[q].pending = rcv[q].pending /\ rcv'[q].accepted = rcv[q].accepted
    BY <1>9 DEF TypeInv, TypeOK, Incoming
  <2>3. rcv'[q].receiver # None /\ rcv'[q].receiver.data = <<>>
    BY <2>1, <2>2
  <2> QED
    BY <1>1, <1>4, <1>6, <1>9, <2>2, <2>3, ReceiverAgrees
<1> HIDE DEF header
<1> QED
  BY <1>7, <1>8, <1>9, Zenon DEF RcvHeader, header

\* As many chunks of a file have arrived as its last one says.
LEMMA ChunkCounted ==
  ASSUME TypeInv, InStep, NEW q \in Peer, Arrives(q, "Chunk"), rcv[q].receiver # None
  PROVE  Len(Received(q).half.receiver.data) = Head(net[q]).chunk[2]
<1>1. /\ net[q] # <<>> /\ net[q] \in Seq(Message) /\ Head(net[q]).type = "Chunk"
  BY NetIsFrames DEF Arrives
<1>2. PICK before \in Position, after \in Position :
        Leads(net[q], before, after) /\ Staged(rcv[q], before)
  BY DEF InStep, Fits
<1>3. PICK next \in Position : Advances(before, Head(net[q]), next) /\ Leads(Tail(net[q]), next, after)
  BY <1>1, <1>2, TailLeads
<1>4. /\ next.header \in FileHeader /\ next.count \in Nat /\ next.header.size \in Nat
      /\ next.count <= next.header.size
      /\ Head(net[q]).chunk = <<next.header.name, next.count>>
  <2>1. /\ before.header \in FileHeader /\ before.count \in Nat
        /\ before.count < before.header.size
        /\ Head(net[q]).chunk = <<before.header.name, before.count + 1>>
        /\ next = [header |-> before.header, count |-> before.count + 1]
    BY <1>1, <1>3 DEF Advances, Position
  <2>2. before.header.size \in Nat
    BY <2>1 DEF FileHeader
  <2> QED
    BY <2>1, <2>2
<1>5. Received(q).half.receiver # None
  BY ReceivedFrames
<1>6. Staged(Received(q).half, next)
  BY <1>2, <1>3, ReceivedReads
<1>7. Received(q).half.receiver.data = Prefix(next.header, next.count)
  BY <1>5, <1>6 DEF Staged
<1>8. Len(Prefix(next.header, next.count)) = next.count
  BY <1>4, PrefixProperties
<1> QED
  BY <1>4, <1>7, <1>8

LEMMA RcvChunkAgrees ==
  ASSUME TypeInv, AllTidy, InStep, NEW p \in Peer, NEW q \in Peer, p = Other(q),
         Turns(p, q), up, Faultless, Agreed(p, q), RcvChunk(q)
  PROVE  Agreed(p, q)'
<1>1. /\ net[q] # <<>> /\ Head(net[q]).type = "Chunk" /\ Arrives(q, "Chunk")
      /\ rcv[q].receiver # None /\ ~IsComplete(Received(q).half.receiver)
      /\ rcv' = [rcv EXCEPT ![q] = Received(q).half]
      /\ Exchange(q, Received(q).frames)
      /\ UNCHANGED <<activity, snd, up, saved>>
  BY DEF RcvChunk, Arrives
<1>2. /\ net[q] \in Seq(Message) /\ Head(net[q]) \in ToSet(net[q])
      /\ Tail(net[q]) \in Seq(Message)
  BY <1>1, FrameArrives
<1>3. /\ Received(q).frames \in Seq(Message)
      /\ \A m \in ToSet(Received(q).frames) : m.type = "Progress"
      /\ Received(q).half.receiver # None
      /\ Received(q).half.accepted = rcv[q].accepted
      /\ Received(q).half.pending = rcv[q].pending
  BY <1>1, ReceivedFrames
<1>4. PICK w \in Seq(Message) :
        /\ ToSet(w) \subseteq ToSet(Received(q).frames)
        /\ net'[q] = Tail(net[q]) /\ net'[p] = net[p] \o w
  <2>1. PICK frames \in Seq(Message) : frames = Received(q).frames /\ Exchange(q, frames)
    BY <1>1, <1>3
  <2>2. /\ net'[q] = Tail(net[q]) /\ net'[p] = net[p] \o Written(frames)
        /\ Written(frames) \in Seq(Message)
        /\ ToSet(Written(frames)) \subseteq ToSet(frames)
    BY <2>1, Exchanged
  <2>3. PICK w \in Seq(Message) : w = Written(frames)
    BY <2>2
  <2> QED
    BY <2>1, <2>2, <2>3
<1>5. rcv'[q] = Received(q).half
  BY <1>1 DEF TypeInv, TypeOK
<1>6. ASSUME ~Carries(Tail(net[q]), "Chunk"), activity[p] = "Sending"
      PROVE  Head(net[q]).chunk[2] = snd[p].chunker.offset
  <2>1. /\ Head(net[q]) = net[q][1] /\ Len(net[q]) \in Nat /\ 1 \in 1..Len(net[q])
        /\ Len(Tail(net[q])) = Len(net[q]) - 1
        /\ \A i \in 1..Len(Tail(net[q])) : Tail(net[q])[i] = net[q][i + 1]
    BY <1>1, <1>2, FramesTail
  <2>2. 1 < Len(net[q]) => net[q][1 + 1].type # "Chunk"
    <3> SUFFICES ASSUME 1 < Len(net[q]) PROVE net[q][1 + 1].type # "Chunk"
      OBVIOUS
    <3>1. 1 \in 1..Len(Tail(net[q]))
      BY <2>1
    <3>2. Tail(net[q])[1] \in ToSet(Tail(net[q]))
      BY <1>2, <3>1, FramesIndexed
    <3> QED
      BY <1>6, <2>1, <3>1, <3>2 DEF Carries
  <2>3. LastChunk(net[q], snd[p], Faultless)
    BY <1>6 DEF Turns, Engaged
  <2> QED
    BY <1>1, <2>1, <2>2, <2>3 DEF LastChunk
<1>7. Len(rcv'[q].receiver.data) = Head(net[q]).chunk[2]
  BY <1>1, <1>5, ChunkCounted
<1>8. ~IsComplete(rcv'[q].receiver) /\ rcv'[q].receiver # None
  BY <1>1, <1>3, <1>5
<1> QED
  BY <1>1, <1>3, <1>4, <1>5, <1>6, <1>7, <1>8, ReceiverAgrees

\* No chunk arrives without its file having been opened.
LEMMA ChunkExpected ==
  ASSUME TypeInv, NEW p \in Peer, NEW q \in Peer, Turns(p, q), up, Agreed(p, q),
         Arrives(q, "Chunk")
  PROVE  rcv[q].receiver # None
<1>1. net[q] # <<>> /\ Head(net[q]).type = "Chunk"
  BY DEF Arrives
<1>2. /\ net[q] \in Seq(Message) /\ Head(net[q]) \in ToSet(net[q]) /\ ~Answering(net[p])
      /\ ~Carries(Tail(net[q]), "Header")
  BY <1>1, FrameArrives
<1>3. ~Carries(net[p], "FileTransferComplete") /\ ~Carries(net[q], "Header")
  BY <1>1, <1>2, NoAnswerCarried, CarriesTail DEF Answer
<1>4. activity[p] = "Sending"
  BY <1>1, <1>2 DEF Turns, Asking
<1> QED
  BY <1>3, <1>4 DEF Agreed, Expected

LEMMA RcvLastChunkAgrees ==
  ASSUME TypeInv, AllTidy, ManifestHonoured, InStep, NEW p \in Peer, NEW q \in Peer,
         p = Other(q), Turns(p, q), up, Agreed(p, q), RcvLastChunk(q)
  PROVE  Agreed(p, q)'
<1>1. /\ net[q] # <<>> /\ Head(net[q]).type = "Chunk" /\ Arrives(q, "Chunk")
      /\ rcv[q].receiver # None /\ IsComplete(Received(q).half.receiver)
      /\ UNCHANGED <<snd, up>>
  BY Zenon DEF RcvLastChunk, Arrives
<1>2. PICK half \in Incoming :
        /\ half = Received(q).half /\ half.receiver \in Receiver
        /\ half.accepted = rcv[q].accepted /\ half.remaining = rcv[q].remaining
        /\ half.pending = rcv[q].pending
  BY <1>1, ReceivedFields, ReceivedFrames
<1>3. /\ activity[p] = "Sending" /\ Tail(net[q]) = <<>> /\ ~Unread(snd[p])
      /\ rcv[q].accepted # <<>> /\ rcv[q].pending = <<>> /\ ~Answering(net[p])
  BY <1>1, LastChunkEnds, ReceivedFields, FrameArrives
<1>4. Len(rcv[q].remaining) = Len(snd[p].queue) + 1
  BY <1>3, NextExpected, NoAnswerCarried DEF Answer
<1>5. PICK finished : finished = Finished(half)
  OBVIOUS
<1>6. /\ finished.receiver = None /\ finished.pending = <<>>
      /\ finished.accepted = IF IsLastFile(half) THEN <<>> ELSE rcv[q].accepted
  BY <1>2, <1>3, <1>5, FinishedHalf
<1>7. finished.accepted = <<>> <=> snd[p].queue = <<>>
  <2>1. snd[p].queue \in Seq(File)
    BY NetIsFrames DEF Sender
  <2>2. PICK n \in Nat : n = Len(snd[p].queue) /\ (n = 0 <=> snd[p].queue = <<>>)
    BY <2>1, LenProperties, EmptySeq
  <2>3. IsLastFile(half) <=> n + 1 <= 1
    BY <1>2, <1>4, <2>2 DEF IsLastFile
  <2>4. n + 1 <= 1 <=> n = 0
    OBVIOUS
  <2> QED
    BY <1>3, <1>6, <2>2, <2>3, <2>4
<1>8. PICK frames \in Seq(Message) : frames = Received(q).frames
  BY <1>1, ReceivedFrames
<1>9. PICK complete \in Message : complete = [type |-> "FileTransferComplete"]
  BY MessageConstructors
<1>10. /\ rcv' = [rcv EXCEPT ![q] = finished]
       /\ Exchange(q, frames \o <<complete>>)
       /\ IF finished.accepted = <<>> THEN activity' = [activity EXCEPT ![q] = "Idle"]
                                      ELSE activity' = activity
  BY <1>2, <1>5, <1>8, <1>9, Zenon DEF RcvLastChunk
<1>11. /\ rcv'[q] = finished /\ snd'[p] = snd[p] /\ activity'[p] = activity[p]
       /\ activity'[q] = IF finished.accepted = <<>> THEN "Idle" ELSE activity[q]
  BY <1>1, <1>10, TwoPeers DEF TypeInv, TypeOK
<1>12. /\ net'[q] = <<>> /\ Carries(net'[p], "FileTransferComplete")
  <2>1. <<complete>> \in Seq(Message) /\ frames \o <<complete>> \in Seq(Message)
    BY FramesOne, FramesConcat
  <2>2. PICK w \in Seq(Message) : w = frames \o <<complete>> /\ Exchange(q, w)
    BY <1>10, <2>1
  <2>3. Carries(w, "FileTransferComplete")
    BY <1>9, <2>1, <2>2, CarriesConcat, CarriesOne
  <2>4. Written(w) = w
    BY DEF Written
  <2>5. net'[q] = Tail(net[q]) /\ net'[p] = net[p] \o w
    BY <2>2, <2>4, Exchanged
  <2>6. net[p] \in Seq(Message)
    BY NetIsFrames
  <2> QED
    BY <1>3, <2>3, <2>5, <2>6, CarriesConcat
<1>13. Occupied(q)'
  BY <1>3, <1>6, <1>11 DEF Agreed, Occupied
<1>14. Pursued(p, q)'
  BY <1>3, <1>11 DEF Agreed, Pursued, Unread
<1>15. Expected(p, q)'
  <2>1. Begun(snd[p]) = snd[p].offered[snd[p].filesSent + 1]
    BY <1>3 DEF Agreed, Expected
  <2> QED
    BY <1>6, <1>7, <1>11, <1>12, <2>1, CarriesNothing DEF Expected, Begun
<1> QED
  BY <1>13, <1>14, <1>15 DEF Agreed

\* A frame that is written on an open channel arrives after those before it.
LEMMA FrameWritten ==
  ASSUME TypeInv, NEW p \in Peer, NEW q \in Peer, p = Other(q), up, NEW m \in Message
  PROVE  /\ Exchange(q, <<m>>) => net'[q] = Tail(net[q]) /\ net'[p] = net[p] \o <<m>>
         /\ Write(q, <<m>>) => net'[q] = net[q] /\ net'[p] = net[p] \o <<m>>
         /\ <<m>> \in Seq(Message)
<1>1. <<m>> \in Seq(Message) /\ Written(<<m>>) = <<m>>
  BY FramesOne DEF Written
<1>2. p # q
  BY TwoPeers
<1>3. Write(q, <<m>>) => net'[q] = net[q] /\ net'[p] = net[p] \o Written(<<m>>)
  BY <1>2 DEF Write, TypeInv, TypeOK
<1>4. Exchange(q, <<m>>) => net'[q] = Tail(net[q]) /\ net'[p] = net[p] \o Written(<<m>>)
  BY <1>1, Exchanged
<1> QED
  BY <1>1, <1>3, <1>4

LEMMA RcvPartitionAgrees ==
  ASSUME TypeInv, NEW p \in Peer, NEW q \in Peer, p = Other(q), Turns(p, q), up,
         Agreed(p, q), RcvPartition(q)
  PROVE  Agreed(p, q)'
<1>1. /\ net[q] # <<>> /\ Head(net[q]).type = "Partition"
      /\ UNCHANGED <<activity, snd, rcv, up, saved>>
  BY DEF RcvPartition, Arrives
<1>2. /\ net[q] \in Seq(Message) /\ net[p] \in Seq(Message) /\ Head(net[q]) \in ToSet(net[q])
      /\ ~Answering(net[p]) /\ Tail(net[q]) = <<>>
  BY <1>1, FrameArrives
<1>3. activity[p] = "Sending"
  BY <1>1, <1>2 DEF Turns, Asking
<1>4. PICK m \in Message : m = [type |-> "PartitionReceived"]
  BY MessageConstructors
<1>5. net'[q] = <<>> /\ net'[p] = net[p] \o <<m>> /\ <<m>> \in Seq(Message)
  BY <1>2, <1>4, FrameWritten DEF RcvPartition
<1>6. /\ Carries(net'[p], "PartitionReceived") /\ ~Carries(net'[p], "FileTransferComplete")
      /\ ~Carries(net[p], "FileTransferComplete")
  <2>1. m.type = "PartitionReceived"
    BY <1>4
  <2>2. \A type : Carries(net'[p], type) <=> Carries(net[p], type) \/ m.type = type
    BY <1>2, <1>5, CarriesAppended
  <2>3. ~Carries(net[p], "FileTransferComplete")
    BY <1>2, NoAnswerCarried DEF Answer
  <2> QED
    BY <2>1, <2>2, <2>3
<1>7. ~Carries(net[q], "Header") /\ ~Carries(net[q], "Chunk")
  BY <1>1, <1>2, CarriesTail, CarriesNothing
<1>8. Occupied(q)'
  BY <1>1 DEF Agreed, Occupied, IsComplete
<1>9. Pursued(p, q)'
  BY <1>1, <1>3, <1>6 DEF Pursued
<1>10. Expected(p, q)'
  BY <1>1, <1>3, <1>5, <1>6, <1>7, CarriesNothing DEF Agreed, Expected, Begun
<1> QED
  BY <1>8, <1>9, <1>10 DEF Agreed

\* What an answer leaves of the incoming half.
LEMMA RespondAgrees ==
  ASSUME TypeInv, AllTidy, NEW p \in Peer, NEW q \in Peer, p = Other(q), Turns(p, q), up,
         Agreed(p, q), NEW accept \in BOOLEAN, NEW request \in Manifest, request # <<>>,
         rcv[q].accepted = <<>>, activity[p] = "AwaitingResponse",
         rcv'[q] = Responded(rcv[q], request, accept, TRUE),
         activity'[q] = IF accept THEN "Receiving" ELSE "Idle",
         activity'[p] = activity[p], snd'[p] = snd[p], net[p] \in Seq(Message),
         net'[p] = net[p] \o <<Response(accept)>>
  PROVE  Agreed(p, q)'
<1>1. rcv[q] \in Incoming
  BY NetIsFrames
<1>2. /\ rcv'[q].pending = <<>> /\ rcv'[q].receiver = rcv[q].receiver
      /\ accept => rcv'[q].accepted = request
      /\ ~accept => rcv'[q].accepted = <<>>
  <2>1. PICK half : half = Responded(rcv[q], request, accept, TRUE)
    OBVIOUS
  <2>2. /\ half.pending = <<>> /\ half.receiver = rcv[q].receiver
        /\ accept => half.accepted = request
        /\ ~accept => half.accepted = rcv[q].accepted
    BY <1>1, <2>1, AnsweredFields
  <2> QED
    BY <2>1, <2>2
<1>3. /\ Carries(net'[p], "Response")
      /\ accept => Accepting(net'[p])
  <2>1. PICK m \in Message : m = Response(accept) /\ m.type = "Response" /\ m.accepted = accept
    BY ResponseFrame
  <2>2. net'[p] = net[p] \o <<m>>
    BY <2>1
  <2> QED
    BY <2>1, <2>2, CarriesAppended
<1>4. Occupied(q)'
  BY <1>2 DEF Agreed, Occupied, IsComplete
<1>5. Pursued(p, q)'
  BY <1>2, <1>3 DEF Pursued
<1>6. Expected(p, q)'
  BY DEF Expected
<1> QED
  BY <1>4, <1>5, <1>6 DEF Agreed

LEMMA UserRespondsAgrees ==
  ASSUME TypeInv, AllTidy, NEW p \in Peer, NEW q \in Peer, p = Other(q), Turns(p, q), up,
         Agreed(p, q), NEW accept \in BOOLEAN, Respond(q, accept)
  PROVE  Agreed(p, q)'
<1>1. /\ rcv[q].pending # <<>> /\ rcv[q].pending \in Manifest
      /\ rcv[q].accepted = <<>> /\ activity[p] = "AwaitingResponse"
      /\ net[p] \in Seq(Message) /\ UNCHANGED snd
  BY NetIsFrames DEF Respond, AllTidy, Tidy, Turns, Asking, Incoming
<1>2. /\ rcv' = [rcv EXCEPT ![q] = Responded(@, rcv[q].pending, accept, TRUE)]
      /\ activity' = [activity EXCEPT ![q] = IF accept THEN "Receiving" ELSE "Idle"]
  <2>1. WriteOutcomes = {TRUE}
    BY DEF WriteOutcomes
  <2> QED
    BY <2>1 DEF Respond
<1>3. net'[p] = net[p] \o <<Response(accept)>>
  BY ResponseFrame, FrameWritten DEF Respond
<1>4. /\ rcv'[q] = Responded(rcv[q], rcv[q].pending, accept, TRUE)
      /\ activity'[q] = IF accept THEN "Receiving" ELSE "Idle"
      /\ activity'[p] = activity[p] /\ snd'[p] = snd[p]
  BY <1>1, <1>2, TwoPeers DEF TypeInv, TypeOK
<1> QED
  BY <1>1, <1>3, <1>4, RespondAgrees

LEMMA RcvRequestAgrees ==
  ASSUME TypeInv, AllTidy, NEW p \in Peer, NEW q \in Peer, p = Other(q), Turns(p, q), up,
         Agreed(p, q), RcvRequest(q)
  PROVE  Agreed(p, q)'
<1> DEFINE request == Head(net[q]).manifest
<1>1. net[q] # <<>> /\ Head(net[q]).type = "Request" /\ UNCHANGED snd
  BY DEF RcvRequest, Arrives
<1>2. /\ net[q] \in Seq(Message) /\ net[p] \in Seq(Message) /\ Head(net[q]) \in ToSet(net[q])
      /\ Head(net[q]) \in Message
      /\ ~Answering(net[p]) /\ rcv[q].pending = <<>>
  BY <1>1, FrameArrives, FramesTail
<1>3. /\ activity[p] = "AwaitingResponse" /\ request = snd[p].offered /\ request # <<>>
      /\ request \in Manifest
  BY <1>1, <1>2, MessageFields DEF Turns, Asking, Batch
<1>4. rcv[q].accepted = <<>>
  BY <1>2, <1>3, NoAnswerCarried DEF Agreed, Pursued
<1>5. CASE /\ rcv' = [rcv EXCEPT ![q].pending = request]
           /\ activity' = [activity EXCEPT ![q] = "IncomingRequest"]
  <2>1. /\ rcv'[q].pending = request /\ rcv'[q].accepted = <<>>
        /\ rcv'[q].receiver = rcv[q].receiver
        /\ activity'[q] = "IncomingRequest" /\ activity'[p] = activity[p]
    BY <1>4, <1>5, NetIsFrames, TwoPeers DEF TypeInv, TypeOK, Incoming
  <2>2. Occupied(q)'
    BY <1>3, <2>1 DEF Agreed, Occupied, IsComplete
  <2>3. Pursued(p, q)'
    BY <1>3, <2>1 DEF Pursued
  <2>4. Expected(p, q)'
    BY <1>3, <2>1 DEF Expected
  <2> QED
    BY <2>2, <2>3, <2>4 DEF Agreed
<1>6. CASE /\ Exchange(q, <<Response(TRUE)>>)
           /\ \E written \in WriteOutcomes :
                /\ rcv' = [rcv EXCEPT ![q] = Responded(@, request, TRUE, written)]
                /\ activity' = [activity EXCEPT ![q] =
                     IF written THEN "Receiving" ELSE "IncomingRequest"]
  <2>1. WriteOutcomes = {TRUE}
    BY DEF WriteOutcomes
  <2>2. /\ rcv' = [rcv EXCEPT ![q] = Responded(@, request, TRUE, TRUE)]
        /\ activity' = [activity EXCEPT ![q] = "Receiving"]
    BY <1>6, <2>1
  <2>3. /\ rcv'[q] = Responded(rcv[q], request, TRUE, TRUE)
        /\ activity'[q] = "Receiving" /\ activity'[p] = activity[p] /\ snd'[p] = snd[p]
    BY <1>1, <2>2, TwoPeers DEF TypeInv, TypeOK
  <2>4. net'[p] = net[p] \o <<Response(TRUE)>>
    <3>1. PICK m \in Message : m = Response(TRUE)
      BY ResponseFrame
    <3>2. Exchange(q, <<m>>)
      BY <1>6, <3>1
    <3>3. net'[p] = net[p] \o <<m>>
      BY <3>2, FrameWritten
    <3> QED
      BY <3>1, <3>3
  <2> HIDE DEF request
  <2> QED
    BY <1>2, <1>3, <1>4, <2>3, <2>4, RespondAgrees
<1> HIDE DEF request
<1> QED
  BY <1>2, <1>4, <1>5, <1>6, Zenon DEF RcvRequest, request

\* Each step of the end that receives, none of which fails.
LEMMA ReceiverStepAgrees ==
  ASSUME TypeInv, AllTidy, ManifestHonoured, InStep, Faultless,
         NEW p \in Peer, NEW q \in Peer, p = Other(q), Turns(p, q), q \notin Senders, up,
         Agreed(p, q), ~Fault,
         SendFiles(q) \/ SendNothing(q) \/ (\E accepted \in BOOLEAN : Respond(q, accepted))
           \/ Receive(q)
  PROVE  Agreed(p, q)'
<1>1. ~SendFiles(q) /\ ~SendNothing(q)
  BY DEF SendFiles, SendNothing
<1>2. ASSUME net[q] # <<>>,
             Head(net[q]).type \in
               {"Response", "PartitionReceived", "Progress", "FileTransferComplete", "Closed"}
      PROVE  FALSE
  BY <1>2, FrameArrives DEF Outgoing
<1>3. CASE Receive(q)
  <2>1. \/ RcvRequest(q) \/ RcvHeader(q) \/ RcvPartition(q) \/ RcvIgnoredChunk(q)
        \/ RcvChunk(q) \/ RcvLastChunk(q) \/ RcvChunkFails(q)
    BY <1>2, <1>3 DEF Receive, RcvStaleResponse, RcvDeclined, RcvAccepted,
                      RcvPartitionReceived, RcvProgress, RcvFileTransferComplete, RcvClosed,
                      Arrives
  <2>2. ~RcvIgnoredChunk(q)
    BY ChunkExpected DEF RcvIgnoredChunk
  <2>3. ~RcvChunkFails(q)
    BY DEF RcvChunkFails
  <2> QED
    BY <2>1, <2>2, <2>3, RcvRequestAgrees, RcvHeaderAgrees, RcvPartitionAgrees,
       RcvChunkAgrees, RcvLastChunkAgrees
<1>4. CASE \E accepted \in BOOLEAN : Respond(q, accepted)
  BY <1>4, UserRespondsAgrees
<1> QED
  BY <1>1, <1>3, <1>4

-----------------------------------------------------------------------------
(* Steps of the end that sends.                                            *)

LEMMA PartitionCarries ==
  ASSUME NEW c \in Chunker, c.offset < c.size,
         NEW header, header = <<>> \/ header = <<HeaderFrame(c)>>,
         NEW last, NEW grown \in BOOLEAN, last = PartitionEnd(c),
         NEW frames, frames = PartitionWritten(c, last, header, grown)
  PROVE  /\ frames \in Seq(Message) /\ Carries(frames, "Chunk")
         /\ header # <<>> => Carries(frames, "Header")
         /\ Reading(c, last).offset < c.size => Carries(frames, "Partition")
<1>1. /\ c.offset \in Nat /\ c.name \in File /\ c.size \in Nat /\ last \in Nat
      /\ c.offset < last
  BY PartitionEndType, PartitionAssumption DEF Chunker, PartitionEnd
<1>2. PICK chunks \in Seq(Message) :
        chunks = ChunksOf(c.name, c.offset + 1, last, grown) /\ Carries(chunks, "Chunk")
  <2>1. ChunksOf(c.name, c.offset + 1, last, grown) \in Seq(Message)
    <3>1. c.offset + 1 \in Nat /\ c.offset + 1 <= last + 1
      BY <1>1
    <3> QED
      BY <1>1, <3>1, ChunksType
  <2>2. PICK chunks \in Seq(Message) : chunks = ChunksOf(c.name, c.offset + 1, last, grown)
    BY <2>1
  <2>3. 1 \in 1..(last - (c.offset + 1) + 1)
    BY <1>1
  <2>4. chunks = [i \in 1..(last - (c.offset + 1) + 1) |->
                   [type |-> "Chunk", chunk |-> <<c.name, (c.offset + 1) + i - 1>>,
                    over |-> grown /\ i = last - (c.offset + 1) + 1]]
    BY <2>2, Zenon DEF ChunksOf
  <2>5. 1 \in DOMAIN chunks
    BY <2>3, <2>4, Zenon
  <2>6. chunks[1].type = "Chunk"
    BY <2>3, <2>4
  <2>7. chunks[1] \in ToSet(chunks)
    BY <2>5, FramesIndexed
  <2> QED
    BY <2>2, <2>6, <2>7 DEF Carries
<1>3. PICK first \in Seq(Message) :
        first = header /\ (header # <<>> => Carries(first, "Header"))
  <2>1. PICK m \in Message : m = HeaderFrame(c) /\ m.type = "Header"
    <3>1. HeaderFrame(c) \in Message
      BY <1>1, MessageConstructors DEF HeaderFrame, FileHeader
    <3> QED
      BY <3>1 DEF HeaderFrame
  <2>2. <<m>> \in Seq(Message) /\ Carries(<<m>>, "Header")
    BY <2>1, FramesOne, CarriesOne
  <2>3. <<>> \in Seq(Message)
    OBVIOUS
  <2> QED
    BY <2>1, <2>2, <2>3
<1>4. PICK rest \in Seq(Message) :
        /\ rest = PartitionPause(c, last)
        /\ Reading(c, last).offset < c.size => Carries(rest, "Partition")
  <2>1. PICK m \in Message : m = [type |-> "Partition"] /\ m.type = "Partition"
    BY MessageConstructors
  <2>2. <<m>> \in Seq(Message) /\ Carries(<<m>>, "Partition")
    BY <2>1, FramesOne, CarriesOne
  <2>3. <<>> \in Seq(Message)
    OBVIOUS
  <2> QED
    BY <2>1, <2>2, <2>3 DEF PartitionPause
<1>5. PICK some \in Seq(Message) : some = first \o chunks
  BY ConcatProperties
<1>6. \A type : Carries(some, type) <=> Carries(first, type) \/ Carries(chunks, type)
  BY <1>5, CarriesConcat
<1>7. /\ some \o rest \in Seq(Message)
      /\ \A type : Carries(some \o rest, type) <=> Carries(some, type) \/ Carries(rest, type)
  BY CarriesConcat, FramesConcat
<1>8. frames = some \o rest
  BY <1>2, <1>3, <1>4, <1>5 DEF PartitionWritten
<1> QED
  BY <1>2, <1>3, <1>4, <1>6, <1>7, <1>8

\* What send_next_partition leaves, of a file that is not read to its end.
LEMMA PutPartitionAgrees ==
  ASSUME TypeInv, NEW p \in Peer, NEW q \in Peer, p = Other(q), Turns(p, q), up, Occupied(q),
         net[p] # <<>>, Head(net[p]).type \in Answer,
         NEW s \in Sender, s.chunker \in Chunker, s.chunker.offset < s.chunker.size,
         Begun(s) = s.offered[s.filesSent + 1],
         NEW header, header = <<>> \/ header = <<HeaderFrame(s.chunker)>>, NEW pushed,
         NEW last, NEW grown \in BOOLEAN, last = PartitionEnd(s.chunker),
         PutPartition(p, s, "Sending", header, pushed, last, grown),
         rcv[q].accepted # <<>>, header # <<>> \/ rcv[q].receiver # None
  PROVE  Agreed(p, q)'
<1> DEFINE c == s.chunker
<1>1. last \in c.offset..PartitionEnd(c)
  <2>1. PartitionEnd(c) \in Nat /\ c.offset \in Nat /\ c.offset <= PartitionEnd(c)
    BY PartitionEndType DEF Chunker
  <2> QED
    BY <2>1
<1>2. q = Other(p) /\ p # q
  BY Opposite
<1>3. PICK frames : frames = PartitionWritten(c, last, header, grown)
  OBVIOUS
<1>4. PICK read : read = Reading(c, last)
  OBVIOUS
<1>5. /\ frames \in Seq(Message) /\ Carries(frames, "Chunk")
      /\ header # <<>> => Carries(frames, "Header")
      /\ read.offset < c.size => Carries(frames, "Partition")
  BY <1>3, <1>4, PartitionCarries
<1>6. PICK sender : PartitionSent(p, s, header, last, grown, sender)
  BY <1>1, PartitionPut
<1>7. /\ Exchange(p, frames) /\ activity' = [activity EXCEPT ![p] = "Sending"]
      /\ UNCHANGED <<rcv, up, saved>>
      /\ read.name = c.name /\ read.size = c.size
      /\ snd' = [snd EXCEPT ![p] = sender]
      /\ sender.offered = s.offered /\ sender.filesSent = s.filesSent
      /\ sender.chunker = read
  BY <1>3, <1>4, <1>6 DEF PartitionSent
<1>8. /\ snd'[p] = sender /\ activity'[p] = "Sending" /\ activity'[q] = activity[q]
      /\ rcv'[q] = rcv[q]
  BY <1>2, <1>7 DEF TypeInv, TypeOK
<1>9. net'[p] = Tail(net[p]) /\ net'[q] = frames
  <2>1. net[q] = <<>>
    BY AnswerArrives
  <2>2. net'[p] = Tail(net[p]) /\ net'[q] = net[q] \o Written(frames)
    BY <1>2, <1>5, <1>7, Exchanged
  <2>3. Written(frames) = frames
    BY DEF Written
  <2> QED
    BY <1>5, <2>1, <2>2, <2>3, ConcatEmptySeq
<1>10. ~Carries(net'[p], "FileTransferComplete")
  BY <1>9, AnswerArrives, NoAnswerCarried DEF Answer
<1>11. Occupied(q)'
  BY <1>8 DEF Occupied, IsComplete
<1>12. Pursued(p, q)'
  BY <1>5, <1>7, <1>8, <1>9 DEF Pursued, Unread
<1>13. Expected(p, q)'
  <2>1. Begun(sender) = Begun(s)
    BY <1>7 DEF Begun
  <2>2. Begun(snd'[p]) = snd'[p].offered[snd'[p].filesSent + 1]
    BY <1>7, <1>8, <2>1
  <2> QED
    BY <1>5, <1>8, <1>9, <1>10, <2>2 DEF Expected, Begun
<1> QED
  BY <1>11, <1>12, <1>13 DEF Agreed

\* What next_file leaves when it does not fail.
LEMMA NextFileAgrees ==
  ASSUME TypeInv, NEW p \in Peer, NEW q \in Peer, p = Other(q), Turns(p, q), up, Occupied(q),
         net[p] # <<>>, Head(net[p]).type \in Answer, ~Fault,
         NEW s \in Sender, s.queue # <<>>, NEW pushed, NextFile(p, s, "Sending", pushed),
         s.offered = snd[p].offered, s.filesSent + 1 \in 1..Len(s.offered),
         s.queue[1] = s.offered[s.filesSent + 1].name,
         rcv[q].accepted # <<>>
  PROVE  Agreed(p, q)'
<1> DEFINE name == Head(s.queue)
<1>1. name = s.queue[1] /\ Size[name] \in Nat
  BY HeadTailProperties, SizeAssumption DEF Sender
<1>2. PutPartition(p, FileOpened(s, Size[name]), "Sending", FileHeaderOf(s, Size[name]), pushed,
                   PartitionEnd(FileOpened(s, Size[name]).chunker), FALSE)
  BY Zenon DEF NextFile, FileOpened, FileHeaderOf
<1>3. PICK next : next = FileOpened(s, Size[name])
  OBVIOUS
<1>4. PICK header : header = FileHeaderOf(s, Size[name])
  OBVIOUS
<1>5. PICK file \in FileHeader :
        file = s.offered[s.filesSent + 1] /\ file.size = Size[file.name] /\ file.size > 0
  <2>1. s.offered \in Seq(FileHeader)
    BY DEF Sender, Manifest
  <2>2. s.offered[s.filesSent + 1] \in FileHeader
    BY <2>1, ElementOfSeq
  <2> QED
    BY <2>2 DEF Turns, Batch
<1>6. /\ next \in Sender /\ next.chunker \in Chunker
      /\ next.chunker = [name |-> name, size |-> Size[name], offset |-> 0]
      /\ header = <<HeaderFrame(next.chunker)>>
      /\ next.offered = s.offered /\ next.filesSent = s.filesSent
  BY <1>1, <1>3, <1>4, FileOpenedFields, Zenon
<1>7. /\ next.chunker.name = file.name /\ next.chunker.size = file.size
      /\ next.chunker.offset = 0
  BY <1>1, <1>5, <1>6
<1>8. Begun(next) = next.offered[next.filesSent + 1]
  <2>1. Begun(next) = [name |-> file.name, size |-> file.size]
    BY <1>7 DEF Begun
  <2>2. file = [name |-> file.name, size |-> file.size]
    BY DEF FileHeader
  <2> QED
    BY <1>5, <1>6, <2>1, <2>2
<1>9. next.chunker.offset < next.chunker.size
  BY <1>5, <1>7
<1>10. header # <<>>
  BY <1>6
<1>11. PutPartition(p, next, "Sending", header, pushed, PartitionEnd(next.chunker), FALSE)
  BY <1>2, <1>3, <1>4
<1> HIDE DEF name
<1> QED
  BY <1>6, <1>8, <1>9, <1>10, <1>11, PutPartitionAgrees

\* An answer that arrives is accepted by the end it comes from, or nothing is.
LEMMA OnlyThisAnswer ==
  ASSUME TypeInv, NEW p \in Peer, NEW q \in Peer, Turns(p, q), up,
         net[p] # <<>>, Head(net[p]).type \in Answer
  PROVE  /\ net[q] = <<>>
         /\ \A type \in Answer : /\ ~Carries(Tail(net[p]), type)
                                 /\ Carries(net[p], type) <=> Head(net[p]).type = type
         /\ ~Accepting(Tail(net[p]))
         /\ Accepting(net[p]) => Head(net[p]).type = "Response" /\ Head(net[p]).accepted
<1>1. net[p] \in Seq(Message) /\ ~Answering(Tail(net[p])) /\ net[q] = <<>>
  BY AnswerArrives, NetIsFrames
<1>2. (\A type \in Answer : ~Carries(Tail(net[p]), type)) /\ ~Accepting(Tail(net[p]))
  BY <1>1, NoAnswerCarried
<1> QED
  BY <1>1, <1>2, CarriesTail

\* A handler that takes an answer and stops sending, when nothing is accepted any more.
LEMMA StopAgrees ==
  ASSUME TypeInv, NEW p \in Peer, NEW q \in Peer, p = Other(q), Turns(p, q), Occupied(q),
         activity' = [activity EXCEPT ![p] = "Idle"], UNCHANGED rcv, rcv[q].accepted = <<>>
  PROVE  Agreed(p, q)'
<1>1. /\ activity'[p] = "Idle" /\ activity'[q] = activity[q] /\ rcv'[q] = rcv[q]
  BY TwoPeers DEF TypeInv, TypeOK
<1>2. Occupied(q)'
  BY <1>1 DEF Occupied, IsComplete
<1> QED
  BY <1>1, <1>2 DEF Agreed, Pursued, Expected

LEMMA RcvDeclinedAgrees ==
  ASSUME TypeInv, NEW p \in Peer, NEW q \in Peer, p = Other(q), Turns(p, q), up,
         Agreed(p, q), RcvDeclined(p)
  PROVE  Agreed(p, q)'
<1>1. /\ net[p] # <<>> /\ Head(net[p]).type \in Answer /\ ~Head(net[p]).accepted
      /\ activity[p] = "AwaitingResponse"
      /\ activity' = [activity EXCEPT ![p] = "Idle"] /\ UNCHANGED rcv
  BY DEF RcvDeclined, Arrives, Answer
<1>2. ~Accepting(net[p])
  BY <1>1, OnlyThisAnswer
<1>3. rcv[q].accepted = <<>> /\ Occupied(q)
  BY <1>1, <1>2 DEF Agreed, Pursued
<1> QED
  BY <1>1, <1>3, StopAgrees

LEMMA RcvAcceptedAgrees ==
  ASSUME TypeInv, NEW p \in Peer, NEW q \in Peer, p = Other(q), Turns(p, q), up, ~Fault,
         Agreed(p, q), RcvAccepted(p)
  PROVE  Agreed(p, q)'
<1>1. /\ net[p] # <<>> /\ Head(net[p]).type \in Answer /\ Head(net[p]).type = "Response"
      /\ Head(net[p]).accepted
  BY DEF RcvAccepted, Arrives, Answer
<1>2. PICK s \in Sender, pushed \in Seq(Event) :
        /\ NextFile(p, s, "Sending", pushed)
        /\ s.offered = snd[p].offered /\ s.filesSent = 0
        /\ Len(s.queue) = Len(s.offered) /\ s.queue # <<>>
        /\ \A i \in 1..Len(s.queue) : s.queue[i] = s.offered[i].name
  BY AcceptedHalf
<1>3. 1 \in 1..Len(s.queue)
  <2>1. s.queue \in Seq(File)
    BY DEF Sender
  <2>2. Len(s.queue) \in Nat /\ Len(s.queue) # 0
    BY <1>2, <2>1, LenProperties, EmptySeq
  <2> QED
    BY <2>2
<1>4. /\ s.filesSent + 1 \in 1..Len(s.offered)
      /\ s.queue[1] = s.offered[s.filesSent + 1].name
  <2>1. s.filesSent + 1 = 1
    BY <1>2
  <2> QED
    BY <1>2, <1>3, <2>1
<1>5. rcv[q].accepted # <<>>
  <2>1. rcv[q].accepted = snd[p].offered
    BY <1>1, AnswerArrives DEF Tells
  <2>2. s.offered \in Seq(FileHeader)
    BY DEF Sender, Manifest
  <2>3. s.offered # <<>>
    BY <1>2, <1>3, <2>2, EmptySeq
  <2> QED
    BY <1>2, <2>1, <2>3
<1>6. Occupied(q)
  BY DEF Agreed
<1> QED
  BY <1>1, <1>2, <1>4, <1>5, <1>6, NextFileAgrees

LEMMA RcvPartitionReceivedAgrees ==
  ASSUME TypeInv, NEW p \in Peer, NEW q \in Peer, p = Other(q), Turns(p, q), up, ~Fault,
         Agreed(p, q), RcvPartitionReceived(p)
  PROVE  Agreed(p, q)'
<1>1. /\ net[p] # <<>> /\ Head(net[p]).type \in Answer
      /\ Head(net[p]).type = "PartitionReceived"
      /\ activity[p] = "Sending" /\ snd[p] \in Sender /\ snd[p].chunker \in Chunker
  BY PartitionRead DEF RcvPartitionReceived, Arrives
<1>2. snd[p].chunker # None
  BY <1>1 DEF Turns, Batch
<1>3. snd[p].chunker.offset < snd[p].chunker.size
  BY <1>1, AnswerArrives DEF Tells, Unread
<1>4. PutPartition(p, snd[p], "Sending", <<>>, <<>>, PartitionEnd(snd[p].chunker), FALSE)
  BY <1>1, <1>2, Zenon DEF RcvPartitionReceived
<1>5. /\ ~Carries(net[p], "FileTransferComplete") /\ ~Carries(net[q], "Header")
  BY <1>1, OnlyThisAnswer, CarriesNothing DEF Answer
<1>6. /\ Begun(snd[p]) = snd[p].offered[snd[p].filesSent + 1]
      /\ rcv[q].accepted # <<>> /\ rcv[q].receiver # None
  BY <1>1, <1>5 DEF Agreed, Expected
<1>7. Occupied(q)
  BY DEF Agreed
<1>8. PICK none : none = <<>>
  OBVIOUS
<1>9. PutPartition(p, snd[p], "Sending", none, none, PartitionEnd(snd[p].chunker), FALSE)
  BY <1>4, <1>8
<1> QED
  BY <1>1, <1>3, <1>6, <1>7, <1>8, <1>9, PutPartitionAgrees

LEMMA RcvFileTransferCompleteAgrees ==
  ASSUME TypeInv, NEW p \in Peer, NEW q \in Peer, p = Other(q), Turns(p, q), up, ~Fault,
         Agreed(p, q), RcvFileTransferComplete(p)
  PROVE  Agreed(p, q)'
<1>1. PICK s : s = CompletedHalf(p)
  OBVIOUS
<1>2. /\ net[p] # <<>> /\ Head(net[p]).type \in Answer
      /\ Head(net[p]).type = "FileTransferComplete"
  BY DEF RcvFileTransferComplete, Arrives, Answer
<1>3. activity[p] = "Sending"
  BY <1>2, AnswerArrives DEF Tells
<1>4. /\ s \in Sender /\ s.queue = snd[p].queue /\ s.offered = snd[p].offered
      /\ s.filesSent = snd[p].filesSent + 1
  BY <1>1, CompletedFields
<1>5. Occupied(q) /\ (rcv[q].accepted = <<>> <=> snd[p].queue = <<>>)
  <2>1. Carries(net[p], "FileTransferComplete")
    BY <1>2, OnlyThisAnswer
  <2> QED
    BY <1>3, <2>1 DEF Agreed, Expected
<1>6. CASE snd[p].queue = <<>>
  <2>1. activity' = [activity EXCEPT ![p] = "Idle"] /\ UNCHANGED rcv
    BY <1>6 DEF RcvFileTransferComplete
  <2> QED
    BY <1>5, <1>6, <2>1, StopAgrees
<1>7. CASE snd[p].queue # <<>>
  <2>1. NextFile(p, s, "Sending", <<>>)
    BY <1>1, <1>3, <1>7 DEF RcvFileTransferComplete, CompletedHalf
  <2>2. /\ Len(snd[p].queue) \in Nat /\ Len(snd[p].queue) # 0 /\ snd[p].filesSent \in Nat
    <3>1. snd[p].queue \in Seq(File) /\ snd[p].filesSent \in Nat
      BY NetIsFrames DEF Sender
    <3> QED
      BY <1>7, <3>1, LenProperties, EmptySeq
  <2>3. /\ Len(snd[p].queue) + snd[p].filesSent + 1 = Len(snd[p].offered)
        /\ \A i \in 1..Len(snd[p].queue) :
             snd[p].queue[i] = snd[p].offered[snd[p].filesSent + 1 + i].name
    BY <1>3 DEF Turns, Batch
  <2>4. s.filesSent + 1 \in 1..Len(s.offered)
    <3>1. PICK n \in Nat, m \in Nat : n = snd[p].filesSent /\ m = Len(snd[p].queue) /\ m # 0
      BY <2>2
    <3>2. (n + 1) + 1 \in 1..(m + n + 1)
      BY <3>1
    <3> QED
      BY <1>4, <2>3, <3>1, <3>2
  <2>5. s.queue[1] = s.offered[s.filesSent + 1].name
    <3>1. 1 \in 1..Len(snd[p].queue)
      BY <2>2
    <3>2. snd[p].queue[1] = snd[p].offered[snd[p].filesSent + 1 + 1].name
      BY <2>3, <3>1
    <3> QED
      BY <1>4, <3>2
  <2>6. PICK pushed : pushed = <<>>
    OBVIOUS
  <2>7. NextFile(p, s, "Sending", pushed)
    BY <2>1, <2>6
  <2> QED
    BY <1>2, <1>4, <1>5, <1>7, <2>4, <2>5, <2>7, NextFileAgrees
<1> QED
  BY <1>6, <1>7

LEMMA RcvProgressAgrees ==
  ASSUME TypeInv, NEW p \in Peer, NEW q \in Peer, p = Other(q), Turns(p, q), Agreed(p, q),
         RcvProgress(p)
  PROVE  Agreed(p, q)'
<1>1. /\ net[p] # <<>> /\ Head(net[p]).type = "Progress" /\ Exchange(p, <<>>)
      /\ UNCHANGED <<activity, snd, rcv>>
  BY DEF RcvProgress, Arrives
<1>2. net[p] \in Seq(Message) /\ net[q] \in Seq(Message)
  BY NetIsFrames
<1>3. net'[p] = Tail(net[p]) /\ net'[q] = net[q]
  <2>1. q = Other(p) /\ <<>> \in Seq(Message) /\ Written(<<>>) = <<>>
    BY Opposite, EmptySeq DEF Written
  <2>2. net'[p] = Tail(net[p]) /\ net'[q] = net[q] \o Written(<<>>)
    BY <1>1, <2>1, Exchanged
  <2> QED
    BY <1>2, <2>1, <2>2, ConcatEmptySeq
<1>4. /\ \A type \in Answer : Carries(net'[p], type) <=> Carries(net[p], type)
      /\ Accepting(net'[p]) <=> Accepting(net[p])
  BY <1>1, <1>2, <1>3, CarriesTail DEF Answer
<1>5. Occupied(q)'
  BY <1>1 DEF Agreed, Occupied, IsComplete
<1>6. Pursued(p, q)'
  BY <1>1, <1>3, <1>4 DEF Agreed, Pursued, Unread, Answer
<1>7. Expected(p, q)'
  BY <1>1, <1>3, <1>4 DEF Agreed, Expected, Begun, Answer
<1> QED
  BY <1>5, <1>6, <1>7 DEF Agreed

LEMMA SendFilesAgrees ==
  ASSUME TypeInv, NEW p \in Peer, NEW q \in Peer, p = Other(q), Turns(p, q), up,
         Agreed(p, q), SendFiles(p)
  PROVE  Agreed(p, q)'
<1>1. /\ activity[p] = "Idle" /\ UNCHANGED rcv
      /\ activity' = [activity EXCEPT ![p] = "AwaitingResponse"]
  BY DEF SendFiles
<1>2. /\ activity'[p] = "AwaitingResponse" /\ activity'[q] = activity[q] /\ rcv'[q] = rcv[q]
  BY <1>1, TwoPeers DEF TypeInv, TypeOK
<1>3. rcv[q].accepted = <<>>
  <2>1. ~Accepting(net[p])
    BY <1>1 DEF Turns, Answered, Tells, Accepting
  <2> QED
    BY <1>1, <2>1 DEF Agreed, Pursued
<1>4. Carries(net'[q], "Request")
  <2>1. PICK batch \in Batches : \E manifest \in ManifestsOf(batch) :
          Write(p, <<[type |-> "Request", manifest |-> manifest]>>)
    BY DEF SendFiles
  <2>2. PICK manifest \in ManifestsOf(batch) :
          Write(p, <<[type |-> "Request", manifest |-> manifest]>>)
    BY <2>1
  <2>3. manifest \in Manifest
    BY BatchAssumption, ManifestListed
  <2>4. PICK m \in Message : m = [type |-> "Request", manifest |-> manifest]
                             /\ m.type = "Request"
    BY <2>3, MessageConstructors
  <2>5. Write(p, <<m>>)
    BY <2>2, <2>4
  <2>6. q = Other(p) /\ net[q] \in Seq(Message)
    BY Opposite, NetIsFrames
  <2>7. net'[q] = net[q] \o <<m>>
    BY <2>5, <2>6, FrameWritten
  <2> QED
    BY <2>4, <2>6, <2>7, CarriesAppended
<1>5. Occupied(q)'
  BY <1>2 DEF Agreed, Occupied, IsComplete
<1> QED
  BY <1>2, <1>3, <1>4, <1>5 DEF Agreed, Pursued, Expected

\* Each step of the end that sends, in which nothing fails.
LEMMA SenderStepAgrees ==
  ASSUME TypeInv, NEW p \in Peer, NEW q \in Peer, p = Other(q), Turns(p, q), up, ~Fault,
         Agreed(p, q),
         SendFiles(p) \/ SendNothing(p) \/ (\E accepted \in BOOLEAN : Respond(p, accepted))
           \/ Receive(p)
  PROVE  Agreed(p, q)'
<1>1. CASE SendNothing(p)
  BY <1>1 DEF SendNothing, Agreed, Occupied, IsComplete, Pursued, Carries, Accepting, Unread,
              Expected, Begun
<1>2. CASE \E accepted \in BOOLEAN : Respond(p, accepted)
  BY <1>2 DEF Respond, Turns, Roles
<1>3. CASE Receive(p)
  <2>1. ~RcvClosed(p)
    <3>1. ASSUME net[p] # <<>>, Head(net[p]).type = "Closed"
          PROVE  FALSE
      <4>1. /\ Head(net[p]) = net[p][1] /\ 1 \in 1..Len(net[p])
        <5>1. Head(net[p]) = net[p][1] /\ Len(net[p]) \in Nat /\ Len(net[p]) >= 1
          BY <3>1, NetIsFrames, FramesTail
        <5> QED
          BY <5>1
      <4> QED
        BY <3>1, <4>1 DEF Turns, ClosedLast
    <3> QED
      BY <3>1 DEF RcvClosed, Arrives
  <2> QED
    BY <1>3, <2>1, SenderReceives, RcvDeclinedAgrees, RcvAcceptedAgrees,
       RcvPartitionReceivedAgrees, RcvProgressAgrees, RcvFileTransferCompleteAgrees
<1> QED
  BY <1>1, <1>2, <1>3, SendFilesAgrees

-----------------------------------------------------------------------------
(* Any step, and the theorem.                                              *)

\* Two machines that have just been made wait for nothing.
LEMMA FreshAgrees ==
  ASSUME NEW p \in Peer, NEW q \in Peer,
         activity[p] = "Idle", activity[q] = "Idle", rcv[q] = FreshRcv
  PROVE  Agreed(p, q)
BY DEF Agreed, Occupied, Pursued, Expected, FreshRcv

LEMMA InitAgreement == Init => Agreement
<1> SUFFICES ASSUME Init, NEW p \in Peer PROVE Agreed(p, Other(p))
  BY DEF Agreement
<1>1. PICK q \in Peer : q = Other(p)
  BY TwoPeers
<1>2. activity[p] = "Idle" /\ activity[q] = "Idle" /\ rcv[q] = FreshRcv
  BY DEF Init
<1> QED
  BY <1>1, <1>2, FreshAgrees

LEMMA StepAgreement == KeepTurns /\ Agreement /\ [Next]_vars => Agreement'
<1> SUFFICES ASSUME KeepTurns, Agreement, [Next]_vars, up', Faultless',
                    NEW p \in Peer, NEW q \in Peer, q = Other(p), q \notin Senders
             PROVE  Agreed(p, q)'
  BY TwoPeers DEF Agreement
<1>1. /\ Turns(p, q) /\ p = Other(q) /\ (\A x \in Peer : x = p \/ x = q)
      /\ TypeInv /\ AllTidy /\ ManifestHonoured /\ InStep
  BY Opposite, TwoPeers DEF KeepTurns, TakeTurns
<1>2. up /\ Faultless => Agreed(p, q)
  BY DEF Agreement
<1>3. CASE UNCHANGED vars
  BY <1>2, <1>3 DEF vars, Faultless, Agreed, Occupied, IsComplete, Pursued, Carries, Accepting,
                    Unread, Expected, Begun
<1>4. ASSUME NEW x \in Peer,
             SendFiles(x) \/ SendNothing(x) \/ (\E accepted \in BOOLEAN : Respond(x, accepted))
               \/ Receive(x)
      PROVE  Agreed(p, q)'
  <2>1. up' = up
    BY <1>4, StepPasses DEF KeepTurns, Passing
  <2>2. up /\ Faultless /\ ~Fault /\ Agreed(p, q)
    BY <1>1, <1>2, <1>4, <2>1, NoFaultYet
  <2>3. CASE x = p
    BY <1>1, <1>4, <2>2, <2>3, SenderStepAgrees
  <2>4. CASE x = q
    BY <1>1, <1>4, <2>2, <2>4, ReceiverStepAgrees
  <2> QED
    BY <1>1, <2>3, <2>4
<1>5. CASE LinkDrop
  BY <1>5 DEF LinkDrop
<1>6. CASE Redial
  <2>1. activity'[p] = "Idle" /\ activity'[q] = "Idle" /\ rcv'[q] = FreshRcv
    BY <1>6 DEF Redial
  <2> QED
    BY <2>1 DEF Agreed, Occupied, Pursued, Expected, FreshRcv
<1> QED
  BY <1>3, <1>4, <1>5, <1>6 DEF Next

\* With nothing on its way, an end that sends would have been answered.
LEMMA QuietSender ==
  ASSUME TypeInv, NEW p \in Peer, NEW q \in Peer, Turns(p, q), Agreed(p, q), up,
         net[p] = <<>>, net[q] = <<>>
  PROVE  activity[p] # "Sending"
<1> SUFFICES ASSUME activity[p] = "Sending" PROVE FALSE
  OBVIOUS
<1>1. \A type : ~Carries(net[p], type) /\ ~Carries(net[q], type)
  BY CarriesNothing
<1>2. /\ rcv[q].receiver # None /\ ~Unread(snd[p])
      /\ Begun(snd[p]) = snd[p].offered[snd[p].filesSent + 1]
      /\ Len(rcv[q].receiver.data) = snd[p].chunker.offset
      /\ rcv[q].receiver.data = <<>> \/ ~IsComplete(rcv[q].receiver)
  BY <1>1 DEF Agreed, Occupied, Pursued, Expected
<1>3. PICK c \in Chunker : c = snd[p].chunker
  BY NetIsFrames DEF Turns, Batch, Sender
<1>4. c.offset \in Nat /\ c.size \in Nat /\ c.offset = c.size
  BY <1>2, <1>3 DEF Chunker, Unread
<1>5. rcv[q].receiver.header.size = c.size
  <2>1. rcv[q].receiver.header = Begun(snd[p])
    BY <1>2 DEF Turns, Engaged
  <2> QED
    BY <1>3, <2>1 DEF Begun
<1>6. c.size > 0
  <2>1. /\ Len(snd[p].queue) \in Nat /\ snd[p].filesSent \in Nat
    <3>1. snd[p].queue \in Seq(File) /\ snd[p].filesSent \in Nat
      BY NetIsFrames DEF Sender
    <3> QED
      BY <3>1, LenProperties
  <2>2. Len(snd[p].queue) + snd[p].filesSent + 1 = Len(snd[p].offered)
    BY DEF Turns, Batch
  <2>3. snd[p].filesSent + 1 \in 1..Len(snd[p].offered)
    <3>1. PICK n \in Nat, m \in Nat : n = snd[p].filesSent /\ m = Len(snd[p].queue)
      BY <2>1
    <3>2. n + 1 \in 1..(m + n + 1)
      OBVIOUS
    <3> QED
      BY <2>2, <3>1, <3>2
  <2>4. snd[p].offered[snd[p].filesSent + 1].size > 0
    BY <2>3 DEF Turns, Batch
  <2>5. Begun(snd[p]).size = c.size
    BY <1>3 DEF Begun
  <2> QED
    BY <1>2, <2>4, <2>5
<1>7. Len(rcv[q].receiver.data) = c.size
  BY <1>2, <1>3, <1>4
<1>8. IsComplete(rcv[q].receiver)
  BY <1>4, <1>5, <1>7 DEF IsComplete
<1>9. rcv[q].receiver.data = <<>> /\ Len(<<>>) = 0
  BY <1>2, <1>8
<1> QED
  BY <1>6, <1>7, <1>9

\* With nothing on its way, each of two ends waits for the other one's user, or for its own.
LEMMA QuietAgrees == OneSender /\ KeepTurns /\ Agreement => QuietMeansAgreed
<1> SUFFICES ASSUME OneSender, KeepTurns, Agreement, Faultless, up,
                    \A x \in Peer : net[x] = <<>>,
                    NEW x \in Peer
             PROVE  /\ activity[x] = "AwaitingResponse" <=>
                         activity[Other(x)] = "IncomingRequest"
                    /\ activity[x] \in {"Idle", "AwaitingResponse", "IncomingRequest"}
  BY DEF QuietMeansAgreed
<1>1. PICK y \in Peer : y = Other(x) /\ x = Other(y) /\ x # y
  BY TwoPeers
<1>2. ASSUME NEW p \in Peer, NEW q \in Peer, q = Other(p), q \notin Senders
      PROVE  /\ activity[p] = "AwaitingResponse" <=> activity[q] = "IncomingRequest"
             /\ activity[p] \in {"Idle", "AwaitingResponse"}
             /\ activity[q] \in {"Idle", "IncomingRequest"}
  <2>1. Turns(p, q) /\ Agreed(p, q) /\ net[p] = <<>> /\ net[q] = <<>> /\ TypeInv
    BY <1>2 DEF KeepTurns, TakeTurns, Agreement
  <2>2. activity[p] # "Sending"
    BY <2>1, QuietSender
  <2>3. (\A type : ~Carries(net[p], type) /\ ~Carries(net[q], type)) /\ ~Accepting(net[p])
    BY <2>1, CarriesNothing
  <2>4. activity[q] # "Receiving"
    BY <2>1, <2>2, <2>3 DEF Agreed, Occupied, Pursued
  <2>5. activity[p] = "AwaitingResponse" => activity[q] = "IncomingRequest"
    BY <2>1, <2>3 DEF Agreed, Occupied, Pursued
  <2>6. activity[q] = "IncomingRequest" => activity[p] = "AwaitingResponse"
    BY <2>1 DEF Agreed, Occupied, Turns, Asking
  <2> QED
    BY <2>1, <2>2, <2>4, <2>5, <2>6 DEF Turns, Roles
<1>3. CASE y \notin Senders
  BY <1>1, <1>2, <1>3
<1>4. CASE x \notin Senders
  BY <1>1, <1>2, <1>4
<1> QED
  BY <1>1, <1>3, <1>4 DEF OneSender

\* Of two ends of which one sends, and as long as no file failed: once nothing is on its way on
\* an open channel, neither end sends or receives any more, and one waits for an answer exactly
\* when the user of the other is asked for it.
THEOREM QuietEndsAgree == OneSender => (Spec => []QuietMeansAgreed)
<1> SUFFICES ASSUME OneSender PROVE Spec => []QuietMeansAgreed
  OBVIOUS
<1>1. KeepTurns /\ Agreement => QuietMeansAgreed
  BY QuietAgrees
<1>2. KeepTurns /\ Agreement /\ [Next]_vars => (KeepTurns /\ Agreement)'
  BY StepKeepTurns, StepAgreement
<1> QED
  BY <1>1, <1>2, InitKeepTurns, InitAgreement, PTL DEF Spec

=============================================================================
