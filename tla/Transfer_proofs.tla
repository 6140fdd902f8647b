-------------------------- MODULE Transfer_proofs --------------------------
(***************************************************************************)
(* Proofs about Transfer, for every pair of peers, every set of files and  *)
(* sizes, every partition size and every bound on the environment.         *)
(***************************************************************************)
EXTENDS Transfer, SequenceTheorems, TLAPS

-----------------------------------------------------------------------------
(* The data.                                                               *)

LEMMA OtherPeer ==
  ASSUME NEW p \in Peer
  PROVE  Other(p) \in Peer /\ Other(p) # p
BY PeerAssumption DEF Other

LEMMA MessageConstructors ==
  /\ \A m \in Manifest : [type |-> "Request", manifest |-> m] \in Message
  /\ \A b \in BOOLEAN : [type |-> "Response", accepted |-> b] \in Message
  /\ \A h \in FileHeader : [type |-> "Header", header |-> h] \in Message
  /\ \A c \in Chunk, b \in BOOLEAN : [type |-> "Chunk", chunk |-> c, over |-> b] \in Message
  /\ \A b \in BOOLEAN : [type |-> "Progress", whole |-> b] \in Message
  /\ \A t \in {"Partition", "PartitionReceived", "FileTransferComplete", "Closed"} :
       [type |-> t] \in Message
BY DEF Message

LEMMA MessageFields ==
  ASSUME NEW m \in Message
  PROVE  /\ m.type = "Request" => m.manifest \in Manifest
         /\ m.type = "Response" => m.accepted \in BOOLEAN
         /\ m.type = "Header" => m.header \in FileHeader
         /\ m.type = "Chunk" => m.chunk \in Chunk /\ m.over \in BOOLEAN
         /\ m.type = "Progress" => m.whole \in BOOLEAN
BY DEF Message

LEMMA EventConstructors ==
  /\ \A k \in {"SendProgress", "ReceiveProgress"}, b \in BOOLEAN :
       [kind |-> k, whole |-> b] \in Event
  /\ \A m \in Manifest : [kind |-> "FilesReceived", files |-> m] \in Event
  /\ \A n \in Nat : [kind |-> "SendingFinished", count |-> n] \in Event
  /\ \A k \in {"RequestReceived", "Declined", "Failed"} : [kind |-> k] \in Event
BY DEF Event

LEMMA ChunksType ==
  ASSUME NEW name \in File, NEW first \in Nat, NEW last \in Nat,
         NEW grown \in BOOLEAN, first <= last + 1
  PROVE  ChunksOf(name, first, last, grown) \in Seq(Message)
<1> DEFINE frame(i) == [type |-> "Chunk", chunk |-> <<name, first + i - 1>>,
                        over |-> grown /\ i = last - first + 1]
<1>1. last - first + 1 \in Nat
  OBVIOUS
<1>2. \A i \in 1..(last - first + 1) : frame(i) \in Message
  <2> TAKE i \in 1..(last - first + 1)
  <2>1. <<name, first + i - 1>> \in Chunk /\ (grown /\ i = last - first + 1) \in BOOLEAN
    BY DEF Chunk
  <2> QED
    BY <2>1, MessageConstructors
<1> HIDE DEF frame
<1>3. [i \in 1..(last - first + 1) |-> frame(i)] \in Seq(Message)
  BY <1>1, <1>2, IsASeq
<1> QED
  BY <1>3 DEF ChunksOf, frame

LEMMA FreshTypes == FreshSnd \in Sender /\ FreshRcv \in Incoming
BY DEF FreshSnd, FreshRcv, Sender, Incoming, Manifest

-----------------------------------------------------------------------------
(* What every step does besides its own updates.                           *)

LEMMA ExchangeType ==
  ASSUME NEW p \in Peer, net \in [Peer -> Seq(Message)], net[p] # <<>>,
         NEW frames \in Seq(Message), Exchange(p, frames)
  PROVE  net' \in [Peer -> Seq(Message)]
<1>1. Tail(net[p]) \in Seq(Message)
  BY HeadTailProperties
<1>2. net[Other(p)] \o Written(frames) \in Seq(Message)
  BY OtherPeer DEF Written
<1> QED
  BY <1>1, <1>2, OtherPeer DEF Exchange

LEMMA WriteType ==
  ASSUME NEW p \in Peer, net \in [Peer -> Seq(Message)],
         NEW frames \in Seq(Message), Write(p, frames)
  PROVE  net' \in [Peer -> Seq(Message)]
<1>1. net[Other(p)] \o Written(frames) \in Seq(Message)
  BY OtherPeer DEF Written
<1> QED
  BY <1>1, OtherPeer DEF Write

LEMMA PushType ==
  ASSUME NEW p \in Peer, busy \in [Peer -> BOOLEAN],
         NEW pushed \in Seq(Event), Push(p, pushed)
  PROVE  /\ events' \in [Peer -> Seq(Event)]
         /\ busy' \in [Peer -> BOOLEAN]
<1>1. events' \in [Peer -> Seq(Event)]
  BY DEF Push
<1>2. BusyAfter(busy[p], pushed) \in BOOLEAN
  BY DEF BusyAfter
<1> QED
  BY <1>1, <1>2 DEF Push

LEMMA BudgetType ==
  ASSUME budget \in [requests : 0..MaxRequests, faults : 0..MaxFaults,
                     drops : 0..MaxDrops],
         NoFault \/ Fault
  PROVE  budget' \in [requests : 0..MaxRequests, faults : 0..MaxFaults,
                      drops : 0..MaxDrops]
BY BoundAssumption DEF NoFault, Fault

\* RcvAccepted opens the first file asked for, so there must be one.
AwaitsWithFiles ==
  \A p \in Peer : activity[p] = "AwaitingResponse" => snd[p].requested # <<>>

TypeInv == TypeOK /\ AwaitsWithFiles

LEMMA AwaitsPreserved ==
  ASSUME TypeInv, NEW p \in Peer, NEW act \in Activity, NEW half \in Sender,
         activity' = [activity EXCEPT ![p] = act], snd' = [snd EXCEPT ![p] = half],
         act = "AwaitingResponse" => half.requested # <<>>
  PROVE  AwaitsWithFiles'
BY DEF TypeInv, TypeOK, AwaitsWithFiles

BudgetOK == budget \in [requests : 0..MaxRequests, faults : 0..MaxFaults,
                        drops : 0..MaxDrops]

LEMMA FailType ==
  ASSUME TypeInv, NEW p \in Peer, net[p] # <<>>, NEW frames \in Seq(Message),
         NEW pushed \in Seq(Event), Fail(p, frames, pushed), BudgetOK'
  PROVE  TypeInv'
<1> TypeOK
  BY DEF TypeInv
<1>1. ResetSnd(p) \in Sender
  BY FreshTypes DEF TypeOK, ResetSnd, Sender
<1>2. ResetRcv(p) \in Incoming
  BY FreshTypes DEF TypeOK, ResetRcv, Incoming
<1>3. net' \in [Peer -> Seq(Message)]
  BY ExchangeType DEF TypeOK, Fail
<1>4. Append(pushed, [kind |-> "Failed"]) \in Seq(Event)
  BY EventConstructors
<1>5. /\ events' \in [Peer -> Seq(Event)]
      /\ busy' \in [Peer -> BOOLEAN]
  BY <1>4, PushType DEF TypeOK, Fail
<1>6. activity' \in [Peer -> Activity]
  BY DEF TypeOK, Fail, Activity
<1>7. snd' \in [Peer -> Sender] /\ rcv' \in [Peer -> Incoming]
  BY <1>1, <1>2 DEF TypeOK, Fail
<1>8. up' \in BOOLEAN /\ saved' \in [Peer -> Seq(Receiver)]
  BY DEF TypeOK, Fail
<1>9. AwaitsWithFiles'
  BY <1>1, AwaitsPreserved DEF Fail, Activity
<1> QED
  BY <1>3, <1>5, <1>6, <1>7, <1>8, <1>9 DEF TypeInv, TypeOK, BudgetOK

-----------------------------------------------------------------------------
(* The sender's half.                                                      *)

LEMMA PartitionEndType ==
  ASSUME NEW c \in Chunker
  PROVE  /\ PartitionEnd(c) \in Nat
         /\ c.offset <= PartitionEnd(c)
         /\ PartitionEnd(c) <= c.size
BY PartitionAssumption DEF PartitionEnd, Chunker

LEMMA ReadingType ==
  ASSUME NEW c \in Chunker, NEW last \in c.offset..PartitionEnd(c)
  PROVE  Reading(c, last) \in Chunker
<1> USE PartitionEndType
<1> DEFINE end == IF last = PartitionEnd(c) THEN last ELSE c.size
<1>1. end \in Nat /\ end <= c.size
  BY DEF Chunker
<1> HIDE DEF end
<1>2. [c EXCEPT !.offset = end] \in Chunker
  BY <1>1 DEF Chunker
<1> QED
  BY <1>2 DEF Reading, end

LEMMA PutPartitionType ==
  ASSUME TypeInv, NEW p \in Peer, net[p] # <<>>,
         NEW s \in Sender, s.chunker \in Chunker, NEW act \in Activity,
         act = "AwaitingResponse" => s.requested # <<>>,
         NEW header \in Seq(Message), NEW pushed \in Seq(Event),
         NEW last \in s.chunker.offset..PartitionEnd(s.chunker), NEW grown \in BOOLEAN,
         PutPartition(p, s, act, header, pushed, last, grown), BudgetOK'
  PROVE  TypeInv'
<1> TypeOK
  BY DEF TypeInv
<1> DEFINE c == s.chunker
           read == Reading(c, last)
           chunks == ChunksOf(c.name, c.offset + 1, last, grown)
           pause == IF read.offset < c.size THEN <<[type |-> "Partition"]>> ELSE <<>>
           progress(sent) ==
             IF act = "Sending"
             THEN <<[kind |-> "SendProgress",
                     whole |-> s.sentBefore + sent >= TotalSize(s.offered)]>>
             ELSE <<>>
           sent == s.sentIn + (last - c.offset)
<1>0. /\ c.name \in File /\ c.offset \in Nat /\ c.offset <= last /\ last \in Nat
      /\ read \in Chunker
  BY PartitionEndType, ReadingType DEF Chunker
<1>1. chunks \in Seq(Message)
  <2>1. c.offset + 1 \in Nat /\ c.offset + 1 <= last + 1
    BY <1>0
  <2> HIDE DEF c
  <2> QED
    BY <1>0, <2>1, ChunksType
<1>2. pause \in Seq(Message)
  BY MessageConstructors
<1>3. header \o chunks \o pause \in Seq(Message)
  BY <1>1, <1>2, ConcatProperties
<1>4. Exchange(p, header \o chunks \o pause)
  BY DEF PutPartition
<1>5. net' \in [Peer -> Seq(Message)]
  BY <1>3, <1>4, ExchangeType DEF TypeOK
<1>6. sent \in Nat
  BY <1>0 DEF Sender
<1>7. pushed \o progress(sent) \in Seq(Event)
  <2>1. (s.sentBefore + sent >= TotalSize(s.offered)) \in BOOLEAN
    OBVIOUS
  <2> DEFINE whole == s.sentBefore + sent >= TotalSize(s.offered)
  <2> HIDE DEF whole
  <2>2. [kind |-> "SendProgress", whole |-> whole] \in Event
    BY <2>1, EventConstructors DEF whole
  <2>3. progress(sent) \in Seq(Event)
    BY <2>2 DEF whole
  <2> QED
    BY <2>3, ConcatProperties
<1>8. /\ events' \in [Peer -> Seq(Event)]
      /\ busy' \in [Peer -> BOOLEAN]
  <2>1. Push(p, pushed \o progress(sent)) \/ Push(p, pushed)
    BY DEF PutPartition
  <2> QED
    BY <2>1, <1>7, PushType DEF TypeOK
<1>9. snd' \in [Peer -> Sender] /\ AwaitsWithFiles'
  <2>0. activity' = [activity EXCEPT ![p] = act]
    BY DEF PutPartition
  <2>1. [s EXCEPT !.chunker = read, !.sentIn = sent] \in Sender
    BY <1>0, <1>6 DEF Sender
  <2>2. [s EXCEPT !.chunker = IF header = <<>> THEN read ELSE c] \in Sender
    BY <1>0 DEF Sender
  <2>3. \/ snd' = [snd EXCEPT ![p] = [s EXCEPT !.chunker = read, !.sentIn = sent]]
        \/ snd' = [snd EXCEPT ![p] =
                     [s EXCEPT !.chunker = IF header = <<>> THEN read ELSE c]]
    BY DEF PutPartition
  <2>4. /\ [s EXCEPT !.chunker = read, !.sentIn = sent].requested = s.requested
        /\ [s EXCEPT !.chunker = IF header = <<>> THEN read ELSE c].requested = s.requested
    BY DEF Sender
  <2> HIDE DEF read, sent, c
  <2>5. AwaitsWithFiles'
    BY <2>0, <2>1, <2>2, <2>3, <2>4, AwaitsPreserved
  <2> QED
    BY <2>1, <2>2, <2>3, <2>5 DEF TypeOK
<1>10. activity' \in [Peer -> Activity]
  BY DEF PutPartition, TypeOK
<1>11. UNCHANGED <<rcv, up, saved>>
  BY DEF PutPartition
<1> QED
  BY <1>5, <1>8, <1>9, <1>10, <1>11 DEF TypeInv, TypeOK, BudgetOK

LEMMA NextFileType ==
  ASSUME TypeInv, NEW p \in Peer, net[p] # <<>>,
         NEW s \in Sender, s.queue # <<>>, NEW act \in Activity,
         act = "AwaitingResponse" => s.requested # <<>>,
         NEW pushed \in Seq(Event), NextFile(p, s, act, pushed)
  PROVE  TypeInv'
<1> DEFINE name == Head(s.queue)
           chunker(size) == [name |-> name, size |-> size, offset |-> 0]
           open(size) == [s EXCEPT !.queue = Tail(@), !.sentIn = 0,
                                   !.chunker = chunker(size)]
           header(size) ==
             <<[type |-> "Header", header |-> [name |-> name, size |-> size]]>>
<1>1. name \in File /\ Tail(s.queue) \in Seq(File)
  BY HeadTailProperties DEF Sender
<1>2. Size[name] \in Nat
  BY <1>1, SizeAssumption
<1>3. \A size \in Nat : /\ chunker(size) \in Chunker
                        /\ open(size) \in Sender
                        /\ open(size).chunker = chunker(size)
                        /\ chunker(size).offset = 0
                        /\ open(size).requested = s.requested
  <2> TAKE size \in Nat
  <2>1. chunker(size) \in Chunker /\ chunker(size).offset = 0
    BY <1>1 DEF Chunker
  <2> HIDE DEF chunker
  <2> QED
    BY <1>1, <2>1 DEF Sender
<1>4. \A size \in Nat : header(size) \in Seq(Message)
  BY <1>1, MessageConstructors, SMTT(20) DEF FileHeader
<1>5. BudgetOK'
  BY BudgetType DEF NextFile, BudgetOK, TypeInv, TypeOK
<1>6. CASE \E size \in Nat, grown \in BOOLEAN :
             PutPartition(p, open(size), act, header(size), pushed,
                          PartitionEnd(open(size).chunker), grown)
  <2> PICK size \in Nat, grown \in BOOLEAN :
             PutPartition(p, open(size), act, header(size), pushed,
                          PartitionEnd(open(size).chunker), grown)
    BY <1>6
  <2> HIDE DEF open, header, chunker
  <2>1. PartitionEnd(open(size).chunker)
          \in open(size).chunker.offset..PartitionEnd(open(size).chunker)
    BY <1>3, PartitionEndType
  <2> QED
    BY <1>3, <1>4, <1>5, <2>1, PutPartitionType
<1>7. CASE \E last \in 0..(PartitionEnd(open(Size[name]).chunker) - 1), grown \in BOOLEAN :
             PutPartition(p, open(Size[name]), act, header(Size[name]), pushed, last, grown)
  <2> PICK last \in 0..(PartitionEnd(open(Size[name]).chunker) - 1), grown \in BOOLEAN :
             PutPartition(p, open(Size[name]), act, header(Size[name]), pushed, last, grown)
    BY <1>7
  <2> HIDE DEF open, header, chunker
  <2>1. last \in open(Size[name]).chunker.offset..PartitionEnd(open(Size[name]).chunker)
    <3>1. PartitionEnd(open(Size[name]).chunker) \in Nat
      BY <1>2, <1>3, PartitionEndType
    <3>2. open(Size[name]).chunker.offset = 0
      BY <1>2, <1>3
    <3> QED
      BY <3>1, <3>2
  <2> QED
    BY <1>2, <1>3, <1>4, <1>5, <2>1, PutPartitionType
<1>8. CASE Fail(p, <<>>, pushed) \/ Fail(p, header(Size[name]), pushed)
  <2>1. <<>> \in Seq(Message) /\ header(Size[name]) \in Seq(Message)
    BY <1>2, <1>4
  <2> HIDE DEF header
  <2> QED
    BY <1>5, <1>8, <2>1, FailType
<1>9. \/ \E size \in Nat, grown \in BOOLEAN :
             PutPartition(p, open(size), act, header(size), pushed,
                          PartitionEnd(open(size).chunker), grown)
      \/ \E last \in 0..(PartitionEnd(open(Size[name]).chunker) - 1), grown \in BOOLEAN :
             PutPartition(p, open(Size[name]), act, header(Size[name]), pushed, last, grown)
      \/ Fail(p, <<>>, pushed) \/ Fail(p, header(Size[name]), pushed)
  <2>1. \A size \in 0..(Size[name] + 1) \ {Size[name]} : size \in Nat
    BY <1>2
  <2> QED
    BY <1>2, <2>1, Zenon DEF NextFile
<1> QED
  BY <1>6, <1>7, <1>8, <1>9

-----------------------------------------------------------------------------
(* The receiver's half.                                                    *)

LEMMA RespondedType ==
  ASSUME NEW half \in Incoming, NEW request \in Manifest,
         NEW accepted \in BOOLEAN, NEW written \in BOOLEAN
  PROVE  /\ Responded(half, request, accepted, written) \in Incoming
         /\ RespondEvents(accepted, written) \in Seq(Event)
<1>1. RespondEvents(accepted, written) \in Seq(Event)
  <2>1. [kind |-> "ReceiveProgress", whole |-> FALSE] \in Event
    BY DEF Event
  <2> QED
    BY <2>1 DEF RespondEvents
<1>2. <<>> \in Manifest
  BY DEF Manifest
<1>3. Responded(half, request, accepted, written) \in Incoming
  BY <1>2 DEF Responded, Incoming
<1> QED
  BY <1>1, <1>3

LEMMA ReceivedType ==
  ASSUME TypeOK, NEW p \in Peer, Arrives(p, "Chunk"), rcv[p].receiver # None
  PROVE  /\ Received(p).half \in Incoming
         /\ Received(p).half.receiver \in Receiver
         /\ Received(p).events \in Seq(Event)
         /\ Received(p).frames \in Seq(Message)
<1> DEFINE half == rcv[p]
           done == half.total + half.inFile + 1
           size == TotalSize(half.accepted)
           whole == done >= size
           due == /\ size > 0
                  /\ (done - half.lastProgress) * ProgressSteps >= size \/ whole
           reported == IF size > 0 THEN <<[kind |-> "ReceiveProgress", whole |-> whole]>>
                       ELSE <<>>
           chunk == Head(net[p]).chunk
           over == Head(net[p]).over
           receiver == [half.receiver EXCEPT !.data = Append(@, chunk), !.over = @ \/ over]
<1>1. half \in Incoming /\ half.receiver \in Receiver
  BY DEF TypeOK, Incoming
<1>2. chunk \in Chunk /\ over \in BOOLEAN
  <2>1. Head(net[p]) \in Message
    BY HeadTailProperties DEF TypeOK, Arrives
  <2> QED
    BY <2>1, MessageFields DEF Arrives
<1>3. receiver \in Receiver
  <2>1. Append(half.receiver.data, chunk) \in Seq(Chunk)
    BY <1>1, <1>2, AppendProperties DEF Receiver
  <2>2. (half.receiver.over \/ over) \in BOOLEAN
    BY <1>1, <1>2
  <2> HIDE DEF over
  <2> QED
    BY <1>1, <2>1, <2>2 DEF Receiver
<1>4. done \in Nat
  BY <1>1 DEF Incoming
<1>5. whole \in BOOLEAN /\ due \in BOOLEAN
  OBVIOUS
<1>6. Received(p) =
        [half |-> [half EXCEPT !.receiver = receiver, !.inFile = @ + 1,
                               !.lastProgress = IF due THEN done ELSE @],
         events |-> reported,
         frames |-> IF due THEN <<[type |-> "Progress", whole |-> whole]>> ELSE <<>>]
  BY <1>1 DEF Received, Incoming
<1> DEFINE last == IF due THEN done ELSE half.lastProgress
<1>7. last \in Nat /\ half.inFile + 1 \in Nat
  BY <1>1, <1>4 DEF Incoming
<1> HIDE DEF half, done, whole, due, receiver, last
<1>8. reported \in Seq(Event)
  BY <1>5, EventConstructors
<1> HIDE DEF reported
<1>9. [type |-> "Progress", whole |-> whole] \in Message
  BY <1>5, MessageConstructors
<1> DEFINE more == [half EXCEPT !.receiver = receiver, !.inFile = @ + 1,
                                !.lastProgress = last]
<1>10. more \in Incoming /\ more.receiver = receiver
  BY <1>1, <1>3, <1>7 DEF Incoming
<1>11. /\ Received(p).half = more
       /\ Received(p).events = reported
       /\ Received(p).frames =
            IF due THEN <<[type |-> "Progress", whole |-> whole]>> ELSE <<>>
  BY <1>6 DEF last
<1> HIDE DEF more
<1> QED
  BY <1>3, <1>8, <1>9, <1>10, <1>11

LEMMA FinishedType ==
  ASSUME NEW half \in Incoming, half.receiver \in Receiver
  PROVE  Finished(half) \in Incoming
<1>1. half.receiver.header \in FileHeader /\ half.receiver.header.size \in Nat
  BY DEF Receiver, FileHeader
<1>2. Append(half.received, half.receiver.header) \in Manifest
  BY <1>1 DEF Incoming, Manifest
<1>3. (IF half.remaining = <<>> THEN half.remaining ELSE Tail(half.remaining)) \in Manifest
  BY HeadTailProperties DEF Incoming, Manifest
<1>4. <<>> \in Manifest
  BY DEF Manifest
<1> DEFINE rest == IF half.remaining = <<>> THEN half.remaining ELSE Tail(half.remaining)
           done == [half EXCEPT !.receiver = None, !.total = @ + half.receiver.header.size,
                                !.inFile = 0,
                                !.received = Append(@, half.receiver.header),
                                !.remaining = rest]
<1>5. done \in Incoming
  <2>1. rest \in Manifest
    BY <1>3
  <2>2. half.total + half.receiver.header.size \in Nat
    BY <1>1 DEF Incoming
  <2> HIDE DEF rest
  <2> QED
    BY <1>1, <1>2, <2>1, <2>2 DEF Incoming
<1>6. [done EXCEPT !.accepted = <<>>, !.received = <<>>] \in Incoming
  <2> HIDE DEF done
  <2> QED
    BY <1>4, <1>5 DEF Incoming
<1> QED
  BY <1>5, <1>6 DEF Finished

-----------------------------------------------------------------------------
(* Type correctness.                                                       *)

LEMMA InitTypeInv == Init => TypeInv
<1> SUFFICES ASSUME Init PROVE TypeInv
  OBVIOUS
<1>1. /\ activity \in [Peer -> Activity] /\ up \in BOOLEAN
      /\ busy \in [Peer -> BOOLEAN] /\ net \in [Peer -> Seq(Message)]
      /\ saved \in [Peer -> Seq(Receiver)] /\ events \in [Peer -> Seq(Event)]
  BY DEF Init, Activity
<1>2. snd \in [Peer -> Sender] /\ rcv \in [Peer -> Incoming]
  BY FreshTypes DEF Init
<1>3. BudgetOK
  BY BoundAssumption DEF Init, BudgetOK
<1> QED
  BY <1>1, <1>2, <1>3 DEF TypeInv, TypeOK, BudgetOK, AwaitsWithFiles, Init

LEMMA ManifestsOfType ==
  ASSUME NEW batch \in Seq(File), NEW manifest \in ManifestsOf(batch)
  PROVE  /\ manifest \in Manifest
         /\ Names(manifest) \in Seq(File)
         /\ Names(manifest) # <<>>
<1>1. PICK n \in 1..Len(batch) :
         \E keep \in [1..n -> DOMAIN batch] :
           manifest = [i \in 1..n |-> HeaderOf(batch[keep[i]])]
  BY DEF ManifestsOf
<1>2. PICK keep \in [1..n -> DOMAIN batch] :
         manifest = [i \in 1..n |-> HeaderOf(batch[keep[i]])]
  BY <1>1
<1>3. n \in Nat /\ 1 \in 1..n
  OBVIOUS
<1>4. \A i \in 1..n : batch[keep[i]] \in File
  BY ElementOfSeq, LenProperties
<1>5. \A i \in 1..n : HeaderOf(batch[keep[i]]) \in FileHeader
  BY <1>4, SizeAssumption DEF HeaderOf, FileHeader
<1>6. manifest \in [1..n -> FileHeader]
  BY <1>2, <1>5
<1>7. manifest \in Manifest
  BY <1>3, <1>6, SeqDef DEF Manifest
<1>8. Names(manifest) \in [1..n -> File]
  BY <1>6 DEF Names, FileHeader
<1>9. Names(manifest) \in Seq(File)
  BY <1>3, <1>8, SeqDef
<1> QED
  BY <1>3, <1>7, <1>8, <1>9

LEMMA RequestBudget ==
  ASSUME BudgetOK, budget.requests > 0, budget' = [budget EXCEPT !.requests = @ - 1]
  PROVE  BudgetOK'
BY BoundAssumption DEF BudgetOK

LEMMA SendFilesType ==
  ASSUME TypeInv, NEW p \in Peer, SendFiles(p)
  PROVE  TypeInv'
<1>0. PICK batch \in Batches : \E manifest \in ManifestsOf(batch) :
        /\ snd' = [snd EXCEPT ![p] =
             [@ EXCEPT !.requested = Names(manifest), !.offered = manifest]]
        /\ Write(p, <<[type |-> "Request", manifest |-> manifest]>>)
  BY DEF SendFiles
<1>1. PICK manifest \in ManifestsOf(batch) :
        /\ snd' = [snd EXCEPT ![p] =
             [@ EXCEPT !.requested = Names(manifest), !.offered = manifest]]
        /\ Write(p, <<[type |-> "Request", manifest |-> manifest]>>)
  BY <1>0
<1> DEFINE half == [snd[p] EXCEPT !.requested = Names(manifest), !.offered = manifest]
<1>2. manifest \in Manifest /\ Names(manifest) \in Seq(File) /\ Names(manifest) # <<>>
  BY BatchAssumption, ManifestsOfType
<1>3. half \in Sender /\ half.requested # <<>>
  <2>1. snd[p] \in Sender
    BY DEF TypeInv, TypeOK
  <2> QED
    BY <1>2, <2>1 DEF Sender
<1>4. snd' = [snd EXCEPT ![p] = half] /\ snd \in [Peer -> Sender]
  BY <1>1 DEF TypeInv, TypeOK
<1> HIDE DEF half
<1>5. /\ snd' \in [Peer -> Sender] /\ snd'[p].requested # <<>>
      /\ \A q \in Peer \ {p} : snd'[q] = snd[q]
  BY <1>3, <1>4
<1>6. net' \in [Peer -> Seq(Message)]
  <2>1. <<[type |-> "Request", manifest |-> manifest]>> \in Seq(Message)
    BY <1>2, MessageConstructors
  <2> QED
    BY <1>1, <2>1, WriteType DEF TypeInv, TypeOK
<1>7. events' \in [Peer -> Seq(Event)] /\ busy' \in [Peer -> BOOLEAN]
  <2>1. Push(p, <<>>) /\ <<>> \in Seq(Event)
    BY DEF SendFiles
  <2> QED
    BY <2>1, PushType DEF TypeInv, TypeOK
<1>8. activity' \in [Peer -> Activity] /\ \A q \in Peer \ {p} : activity'[q] = activity[q]
  BY DEF SendFiles, Activity, TypeInv, TypeOK
<1>9. BudgetOK' /\ UNCHANGED <<rcv, up, saved>>
  BY RequestBudget DEF SendFiles, BudgetOK, TypeInv, TypeOK
<1> QED
  BY <1>5, <1>6, <1>7, <1>8, <1>9 DEF TypeInv, TypeOK, BudgetOK, AwaitsWithFiles

LEMMA SendNothingType ==
  ASSUME TypeInv, NEW p \in Peer, SendNothing(p)
  PROVE  TypeInv'
<1>1. events' \in [Peer -> Seq(Event)] /\ busy' \in [Peer -> BOOLEAN]
  <2>1. Push(p, <<[kind |-> "Failed"]>>) /\ <<[kind |-> "Failed"]>> \in Seq(Event)
    BY EventConstructors DEF SendNothing
  <2> QED
    BY <2>1, PushType DEF TypeInv, TypeOK
<1>2. BudgetOK' /\ UNCHANGED <<activity, snd, rcv, net, up, saved>>
  BY RequestBudget DEF SendNothing, BudgetOK, TypeInv, TypeOK
<1> QED
  BY <1>1, <1>2 DEF TypeInv, TypeOK, BudgetOK, AwaitsWithFiles

\* An action that leaves both halves alone and consumes a frame.
LEMMA ConsumeType ==
  ASSUME TypeInv, NEW p \in Peer, net[p] # <<>>,
         NEW frames \in Seq(Message), NEW pushed \in Seq(Event),
         Exchange(p, frames), Push(p, pushed), NoFault,
         UNCHANGED <<activity, snd, rcv, up, saved>>
  PROVE  TypeInv'
<1>1. net' \in [Peer -> Seq(Message)]
  BY ExchangeType DEF TypeInv, TypeOK
<1>2. events' \in [Peer -> Seq(Event)] /\ busy' \in [Peer -> BOOLEAN]
  BY PushType DEF TypeInv, TypeOK
<1> QED
  BY <1>1, <1>2 DEF TypeInv, TypeOK, AwaitsWithFiles, NoFault

LEMMA RespondType ==
  ASSUME TypeInv, NEW p \in Peer, NEW accepted \in BOOLEAN, Respond(p, accepted)
  PROVE  TypeInv'
<1> PICK written \in BOOLEAN :
       /\ activity' = [activity EXCEPT ![p] =
            IF ~written THEN @ ELSE IF accepted THEN "Receiving" ELSE "Idle"]
       /\ rcv' = [rcv EXCEPT ![p] = Responded(@, rcv[p].pending, accepted, written)]
       /\ Push(p, RespondEvents(accepted, written))
  BY DEF Respond, WriteOutcomes
<1>1. rcv[p] \in Incoming /\ rcv[p].pending \in Manifest
  BY DEF TypeInv, TypeOK, Incoming
<1>2. rcv' \in [Peer -> Incoming]
  BY <1>1, RespondedType DEF TypeInv, TypeOK
<1>3. events' \in [Peer -> Seq(Event)] /\ busy' \in [Peer -> BOOLEAN]
  BY <1>1, RespondedType, PushType DEF TypeInv, TypeOK
<1>4. net' \in [Peer -> Seq(Message)]
  <2>1. <<Response(accepted)>> \in Seq(Message)
    BY MessageConstructors DEF Response
  <2> QED
    BY <2>1, WriteType DEF Respond, TypeInv, TypeOK
<1>5. activity' \in [Peer -> Activity] /\ AwaitsWithFiles' /\ UNCHANGED <<snd, up, saved>>
  BY DEF TypeInv, TypeOK, Activity, AwaitsWithFiles, Respond
<1> QED
  BY <1>2, <1>3, <1>4, <1>5 DEF TypeInv, TypeOK, Respond, NoFault

LEMMA HeadMessage ==
  ASSUME TypeInv, NEW p \in Peer, NEW type, Arrives(p, type)
  PROVE  net[p] # <<>> /\ Head(net[p]) \in Message /\ Head(net[p]).type = type
BY HeadTailProperties DEF TypeInv, TypeOK, Arrives

LEMMA SimpleFramesType ==
  ASSUME TypeInv, NEW p \in Peer,
         \/ RcvStaleResponse(p) \/ RcvProgress(p)
         \/ RcvIgnoredChunk(p) \/ RcvPartition(p)
  PROVE  TypeInv'
<1>0. <<>> \in Seq(Message) /\ <<>> \in Seq(Event)
  OBVIOUS
<1>1. CASE RcvStaleResponse(p) \/ RcvIgnoredChunk(p)
  <2>1. /\ Exchange(p, <<>>) /\ Push(p, <<>>) /\ NoFault
        /\ UNCHANGED <<activity, snd, rcv, up, saved>>
        /\ net[p] # <<>>
    BY <1>1, HeadMessage DEF RcvStaleResponse, RcvIgnoredChunk
  <2> QED
    BY <1>0, <2>1, ConsumeType
<1>3. CASE RcvPartition(p)
  <2> DEFINE frames == <<[type |-> "PartitionReceived"]>>
  <2>1. frames \in Seq(Message)
    BY MessageConstructors
  <2>2. /\ Exchange(p, frames) /\ Push(p, <<>>) /\ NoFault
        /\ UNCHANGED <<activity, snd, rcv, up, saved>>
        /\ net[p] # <<>>
    BY <1>3, HeadMessage DEF RcvPartition
  <2> HIDE DEF frames
  <2> QED
    BY <1>0, <2>1, <2>2, ConsumeType
<1>4. CASE RcvProgress(p)
  <2> DEFINE pushed == IF activity[p] = "Sending"
             THEN <<[kind |-> "SendProgress", whole |-> Head(net[p]).whole]>> ELSE <<>>
  <2>1. Head(net[p]).whole \in BOOLEAN /\ net[p] # <<>>
    BY <1>4, HeadMessage, MessageFields DEF RcvProgress
  <2>2. pushed \in Seq(Event)
    BY <2>1, EventConstructors
  <2>3. /\ Exchange(p, <<>>) /\ Push(p, pushed) /\ NoFault
        /\ UNCHANGED <<activity, snd, rcv, up, saved>>
    BY <1>4 DEF RcvProgress
  <2> HIDE DEF pushed
  <2>4. <<>> \in Seq(Message)
    OBVIOUS
  <2> QED
    BY <2>1, <2>2, <2>3, <2>4, ConsumeType
<1> QED
  BY <1>1, <1>3, <1>4

LEMMA RcvDeclinedType ==
  ASSUME TypeInv, NEW p \in Peer, RcvDeclined(p)
  PROVE  TypeInv'
<1> DEFINE half == [snd[p] EXCEPT !.requested = <<>>]
           pushed == <<[kind |-> "Declined"]>>
<1>1. snd[p] \in Sender /\ half \in Sender
  <2>1. snd[p] \in Sender /\ <<>> \in Seq(File)
    BY DEF TypeInv, TypeOK
  <2> QED
    BY <2>1 DEF Sender
<1>2. snd' = [snd EXCEPT ![p] = half] /\ activity' = [activity EXCEPT ![p] = "Idle"]
  BY DEF RcvDeclined, TypeInv, TypeOK
<1>3. pushed \in Seq(Event) /\ <<>> \in Seq(Message)
  BY EventConstructors
<1>4. /\ net[p] # <<>> /\ Exchange(p, <<>>) /\ Push(p, pushed) /\ NoFault
      /\ UNCHANGED <<rcv, up, saved>>
  BY HeadMessage DEF RcvDeclined
<1> HIDE DEF half, pushed
<1>5. net' \in [Peer -> Seq(Message)]
  BY <1>3, <1>4, ExchangeType DEF TypeInv, TypeOK
<1>6. events' \in [Peer -> Seq(Event)] /\ busy' \in [Peer -> BOOLEAN]
  BY <1>3, <1>4, PushType DEF TypeInv, TypeOK
<1>7. AwaitsWithFiles'
  BY <1>1, <1>2, AwaitsPreserved DEF Activity
<1> QED
  BY <1>1, <1>2, <1>4, <1>5, <1>6, <1>7 DEF TypeInv, TypeOK, Activity, NoFault

LEMMA RcvAcceptedType ==
  ASSUME TypeInv, NEW p \in Peer, RcvAccepted(p)
  PROVE  TypeInv'
<1> DEFINE half == [snd[p] EXCEPT !.queue = snd[p].requested, !.requested = <<>>,
                                  !.sentBefore = 0, !.filesSent = 0]
           pushed == <<[kind |-> "SendProgress", whole |-> FALSE]>>
<1>1. snd[p] \in Sender /\ snd[p].requested # <<>>
  BY DEF RcvAccepted, TypeInv, TypeOK, AwaitsWithFiles
<1>2. half \in Sender /\ half.queue # <<>>
  <2>1. <<>> \in Seq(File)
    OBVIOUS
  <2> QED
    BY <1>1, <2>1 DEF Sender
<1>3. pushed \in Seq(Event)
  BY DEF Event
<1>4. NextFile(p, half, "Sending", pushed) /\ net[p] # <<>>
  BY HeadMessage DEF RcvAccepted
<1> HIDE DEF half, pushed
<1> QED
  BY <1>2, <1>3, <1>4, NextFileType DEF Activity

LEMMA RcvPartitionReceivedType ==
  ASSUME TypeInv, NEW p \in Peer, RcvPartitionReceived(p)
  PROVE  TypeInv'
<1> DEFINE c == snd[p].chunker
<1>1. /\ snd[p] \in Sender /\ activity[p] \in Activity
      /\ activity[p] = "AwaitingResponse" => snd[p].requested # <<>>
  BY DEF TypeInv, TypeOK, AwaitsWithFiles
<1>2. net[p] # <<>> /\ <<>> \in Seq(Message) /\ <<>> \in Seq(Event)
  BY HeadMessage DEF RcvPartitionReceived
<1>3. CASE c = None
  <2>1. CASE UNCHANGED <<activity, snd, rcv, up, saved>> /\ Exchange(p, <<>>)
             /\ Push(p, <<>>) /\ NoFault
    BY <1>2, <2>1, ConsumeType
  <2> QED
    BY <1>3, <2>1, Zenon DEF RcvPartitionReceived
<1>4. CASE c # None
  <2>1. c \in Chunker
    BY <1>1, <1>4 DEF Sender
  <2>2. /\ PartitionEnd(c) \in Nat /\ c.offset \in Nat /\ c.offset <= PartitionEnd(c)
    BY <2>1, PartitionEndType DEF Chunker
  <2>3. BudgetOK'
    BY BudgetType, <1>4 DEF RcvPartitionReceived, BudgetOK, TypeInv, TypeOK
  <2>4. \/ \E last \in c.offset..PartitionEnd(c), grown \in BOOLEAN :
             PutPartition(p, snd[p], activity[p], <<>>, <<>>, last, grown)
        \/ Fail(p, <<>>, <<>>)
    <3>1. /\ PartitionEnd(c) \in c.offset..PartitionEnd(c)
          /\ \A last \in c.offset..(PartitionEnd(c) - 1) :
               last \in c.offset..PartitionEnd(c)
      BY <2>2
    <3> QED
      BY <1>4, <3>1, Zenon DEF RcvPartitionReceived
  <2>5. CASE Fail(p, <<>>, <<>>)
    BY <1>2, <2>3, <2>5, FailType
  <2>6. CASE \E last \in c.offset..PartitionEnd(c), grown \in BOOLEAN :
               PutPartition(p, snd[p], activity[p], <<>>, <<>>, last, grown)
    BY <1>1, <1>2, <2>1, <2>3, <2>6, PutPartitionType
  <2> QED
    BY <2>4, <2>5, <2>6
<1> QED
  BY <1>3, <1>4

LEMMA RcvFileTransferCompleteType ==
  ASSUME TypeInv, NEW p \in Peer, RcvFileTransferComplete(p)
  PROVE  TypeInv'
<1> DEFINE counted == [snd[p] EXCEPT !.sentBefore = @ + snd[p].sentIn, !.sentIn = 0,
                                     !.filesSent = @ + 1, !.chunker = None]
<1>1. /\ snd[p] \in Sender /\ activity[p] \in Activity
      /\ activity[p] = "AwaitingResponse" => snd[p].requested # <<>>
  BY DEF TypeInv, TypeOK, AwaitsWithFiles
<1>2. /\ counted \in Sender
      /\ counted.queue = snd[p].queue /\ counted.requested = snd[p].requested
  <2>1. snd[p].sentBefore + snd[p].sentIn \in Nat /\ snd[p].filesSent + 1 \in Nat
    BY <1>1 DEF Sender
  <2> QED
    BY <1>1, <2>1 DEF Sender
<1>3. net[p] # <<>> /\ <<>> \in Seq(Message) /\ <<>> \in Seq(Event)
  BY HeadMessage DEF RcvFileTransferComplete
<1>4. CASE snd[p].queue # <<>> /\ NextFile(p, counted, activity[p], <<>>)
  <2> HIDE DEF counted
  <2> QED
    BY <1>1, <1>2, <1>3, <1>4, NextFileType
<1>5. CASE snd[p].queue = <<>>
  <2> DEFINE half == [counted EXCEPT !.filesSent = 0]
             pushed == <<[kind |-> "SendingFinished", count |-> counted.filesSent]>>
  <2>1. /\ snd' = [snd EXCEPT ![p] = half]
        /\ activity' = [activity EXCEPT ![p] = "Idle"]
        /\ Push(p, pushed) /\ Exchange(p, <<>>) /\ NoFault
        /\ UNCHANGED <<rcv, up, saved>>
    BY <1>5 DEF RcvFileTransferComplete
  <2> HIDE DEF counted
  <2>2. half \in Sender /\ counted.filesSent \in Nat
    BY <1>2 DEF Sender
  <2>3. pushed \in Seq(Event)
    BY <2>2, EventConstructors
  <2> HIDE DEF half, pushed
  <2>4. net' \in [Peer -> Seq(Message)]
    BY <1>3, <2>1, ExchangeType DEF TypeInv, TypeOK
  <2>5. events' \in [Peer -> Seq(Event)] /\ busy' \in [Peer -> BOOLEAN]
    BY <2>1, <2>3, PushType DEF TypeInv, TypeOK
  <2>6. AwaitsWithFiles'
    BY <2>1, <2>2, AwaitsPreserved DEF Activity
  <2> QED
    BY <2>1, <2>2, <2>4, <2>5, <2>6 DEF TypeInv, TypeOK, Activity, NoFault
<1> QED
  BY <1>4, <1>5, Zenon DEF RcvFileTransferComplete

LEMMA RcvRequestType ==
  ASSUME TypeInv, NEW p \in Peer, RcvRequest(p)
  PROVE  TypeInv'
<1> DEFINE request == Head(net[p]).manifest
<1>1. /\ net[p] # <<>> /\ <<>> \in Seq(Message) /\ <<>> \in Seq(Event)
      /\ request \in Manifest /\ rcv[p] \in Incoming
      /\ NoFault /\ UNCHANGED <<snd, up, saved>>
  BY HeadMessage, MessageFields DEF RcvRequest, TypeInv, TypeOK
<1>2. \A b \in BOOLEAN : <<Response(b)>> \in Seq(Message)
  <2>1. \A b \in BOOLEAN : Response(b) \in Message
    BY MessageConstructors DEF Response
  <2> QED
    BY <2>1
<1>3. CASE /\ Exchange(p, <<Response(FALSE)>>) /\ Push(p, <<>>)
           /\ UNCHANGED <<activity, rcv>>
  BY <1>1, <1>2, <1>3, ConsumeType
<1>4. ASSUME NEW frames \in Seq(Message), NEW pushed \in Seq(Event),
             NEW half \in Incoming, NEW act \in Activity \ {"AwaitingResponse"},
             Exchange(p, frames), Push(p, pushed),
             rcv' = [rcv EXCEPT ![p] = half], activity' = [activity EXCEPT ![p] = act]
      PROVE  TypeInv'
  <2>1. net' \in [Peer -> Seq(Message)]
    BY <1>1, <1>4, ExchangeType DEF TypeInv, TypeOK
  <2>2. events' \in [Peer -> Seq(Event)] /\ busy' \in [Peer -> BOOLEAN]
    BY <1>4, PushType DEF TypeInv, TypeOK
  <2>3. activity' \in [Peer -> Activity] /\ rcv' \in [Peer -> Incoming]
    BY <1>4 DEF TypeInv, TypeOK
  <2>4. AwaitsWithFiles'
    BY <1>1, <1>4 DEF TypeInv, TypeOK, AwaitsWithFiles
  <2> QED
    BY <1>1, <2>1, <2>2, <2>3, <2>4 DEF TypeInv, TypeOK, NoFault
<1>5. CASE /\ rcv' = [rcv EXCEPT ![p].pending = request]
           /\ activity' = [activity EXCEPT ![p] = "IncomingRequest"]
           /\ Exchange(p, <<>>) /\ Push(p, <<[kind |-> "RequestReceived"]>>)
  <2> DEFINE half == [rcv[p] EXCEPT !.pending = request]
             pushed == <<[kind |-> "RequestReceived"]>>
  <2>1. half \in Incoming
    BY <1>1 DEF Incoming
  <2>2. pushed \in Seq(Event)
    BY EventConstructors
  <2>3. rcv' = [rcv EXCEPT ![p] = half]
    BY <1>5
  <2> HIDE DEF half, pushed
  <2> QED
    BY <1>1, <1>4, <1>5, <2>1, <2>2, <2>3 DEF Activity, pushed
<1>6. CASE /\ Exchange(p, <<Response(TRUE)>>)
           /\ \E written \in BOOLEAN :
                /\ rcv' = [rcv EXCEPT ![p] = Responded(@, request, TRUE, written)]
                /\ activity' = [activity EXCEPT ![p] =
                     IF written THEN "Receiving" ELSE "IncomingRequest"]
                /\ Push(p, RespondEvents(TRUE, written))
  <2> PICK written \in BOOLEAN :
                /\ rcv' = [rcv EXCEPT ![p] = Responded(@, request, TRUE, written)]
                /\ activity' = [activity EXCEPT ![p] =
                     IF written THEN "Receiving" ELSE "IncomingRequest"]
                /\ Push(p, RespondEvents(TRUE, written))
    BY <1>6
  <2> DEFINE half == Responded(rcv[p], request, TRUE, written)
             act == IF written THEN "Receiving" ELSE "IncomingRequest"
             pushed == RespondEvents(TRUE, written)
             frames == <<Response(TRUE)>>
  <2>1. half \in Incoming /\ pushed \in Seq(Event) /\ frames \in Seq(Message)
    BY <1>1, <1>2, RespondedType
  <2>2. act \in Activity \ {"AwaitingResponse"}
    BY DEF Activity
  <2>3. /\ rcv' = [rcv EXCEPT ![p] = half] /\ activity' = [activity EXCEPT ![p] = act]
        /\ Push(p, pushed) /\ Exchange(p, frames)
    BY <1>6
  <2> HIDE DEF half, act, pushed, frames
  <2> QED
    BY <1>4, <2>1, <2>2, <2>3
<1>7. WriteOutcomes \subseteq BOOLEAN
  BY DEF WriteOutcomes
<1> QED
  BY <1>3, <1>5, <1>6, <1>7, Zenon DEF RcvRequest

LEMMA RcvHeaderType ==
  ASSUME TypeInv, NEW p \in Peer, RcvHeader(p)
  PROVE  TypeInv'
<1> DEFINE header == Head(net[p]).header
<1>1. /\ net[p] # <<>> /\ <<>> \in Seq(Message) /\ <<>> \in Seq(Event)
      /\ header \in FileHeader /\ rcv[p] \in Incoming
  BY HeadMessage, MessageFields DEF RcvHeader, TypeInv, TypeOK
<1>2. CASE /\ Exchange(p, <<>>) /\ Push(p, <<>>) /\ NoFault
           /\ UNCHANGED <<activity, snd, rcv, up, saved>>
  BY <1>1, <1>2, ConsumeType
<1>3. CASE (NoFault \/ Fault) /\ Fail(p, <<>>, <<>>)
  <2>1. BudgetOK'
    BY <1>3, BudgetType DEF BudgetOK, TypeInv, TypeOK
  <2> QED
    BY <1>1, <1>3, <2>1, FailType
<1>4. CASE /\ rcv' = [rcv EXCEPT ![p].inFile = 0,
                                 ![p].receiver = [header |-> header, data |-> <<>>, over |-> FALSE]]
           /\ Exchange(p, <<>>) /\ Push(p, <<>>) /\ NoFault
           /\ UNCHANGED <<activity, snd, up, saved>>
  <2> DEFINE half == [rcv[p] EXCEPT !.inFile = 0,
                                    !.receiver = [header |-> header, data |-> <<>>, over |-> FALSE]]
  <2>1. [header |-> header, data |-> <<>>, over |-> FALSE] \in Receiver
    BY <1>1 DEF Receiver
  <2>2. half \in Incoming
    BY <1>1, <2>1 DEF Incoming
  <2>3. rcv' = [rcv EXCEPT ![p] = half]
    BY <1>4
  <2> HIDE DEF half
  <2>4. rcv' \in [Peer -> Incoming]
    BY <2>2, <2>3 DEF TypeInv, TypeOK
  <2>5. net' \in [Peer -> Seq(Message)]
    BY <1>1, <1>4, ExchangeType DEF TypeInv, TypeOK
  <2>6. events' \in [Peer -> Seq(Event)] /\ busy' \in [Peer -> BOOLEAN]
    BY <1>1, <1>4, PushType DEF TypeInv, TypeOK
  <2> QED
    BY <1>4, <2>4, <2>5, <2>6 DEF TypeInv, TypeOK, AwaitsWithFiles, NoFault
<1> QED
  BY <1>2, <1>3, <1>4, Zenon DEF RcvHeader

LEMMA RcvChunkType ==
  ASSUME TypeInv, NEW p \in Peer, RcvChunk(p)
  PROVE  TypeInv'
<1> TypeOK
  BY DEF TypeInv
<1>1. net[p] # <<>> /\ Arrives(p, "Chunk") /\ rcv[p].receiver # None
  BY DEF RcvChunk, Arrives
<1>2. /\ Received(p).half \in Incoming
      /\ Received(p).events \in Seq(Event)
      /\ Received(p).frames \in Seq(Message)
  BY <1>1, ReceivedType
<1>3. /\ rcv' = [rcv EXCEPT ![p] = Received(p).half]
      /\ Exchange(p, Received(p).frames) /\ Push(p, Received(p).events)
      /\ NoFault /\ UNCHANGED <<activity, snd, up, saved>>
  BY DEF RcvChunk
<1>4. rcv' \in [Peer -> Incoming]
  BY <1>2, <1>3 DEF TypeOK
<1>5. net' \in [Peer -> Seq(Message)]
  BY <1>1, <1>2, <1>3, ExchangeType DEF TypeOK
<1>6. events' \in [Peer -> Seq(Event)] /\ busy' \in [Peer -> BOOLEAN]
  BY <1>2, <1>3, PushType DEF TypeOK
<1> QED
  BY <1>3, <1>4, <1>5, <1>6 DEF TypeInv, TypeOK, AwaitsWithFiles, NoFault

LEMMA RcvChunkFailsType ==
  ASSUME TypeInv, NEW p \in Peer, RcvChunkFails(p)
  PROVE  TypeInv'
<1> TypeOK
  BY DEF TypeInv
<1>1. net[p] # <<>> /\ Arrives(p, "Chunk") /\ rcv[p].receiver # None
  BY DEF RcvChunkFails, Arrives
<1>2. /\ Received(p).events \in Seq(Event)
      /\ FramesBeforeSaving(p) \in Seq(Message)
  BY <1>1, ReceivedType DEF FramesBeforeSaving
<1>3. BudgetOK'
  BY BudgetType DEF RcvChunkFails, BudgetOK, TypeOK
<1>4. <<>> \in Seq(Message) /\ <<>> \in Seq(Event)
  OBVIOUS
<1>5. \/ Fail(p, <<>>, <<>>)
      \/ Fail(p, FramesBeforeSaving(p), Received(p).events)
  BY DEF RcvChunkFails
<1> QED
  BY <1>1, <1>2, <1>3, <1>4, <1>5, FailType

LEMMA RcvLastChunkType ==
  ASSUME TypeInv, NEW p \in Peer, RcvLastChunk(p)
  PROVE  TypeInv'
<1> TypeOK
  BY DEF TypeInv
<1> DEFINE half == Received(p).half
           finished == Finished(half)
           file == half.receiver
           complete == <<[type |-> "FileTransferComplete"]>>
           received == Append(half.received, file.header)
           whole == [kind |-> "FilesReceived", files |-> received]
           staged == [finished EXCEPT !.accepted = half.accepted,
                                      !.remaining = half.remaining, !.received = received]
<1>1. net[p] # <<>> /\ Arrives(p, "Chunk") /\ rcv[p].receiver # None
  BY DEF RcvLastChunk, Arrives
<1>2. /\ half \in Incoming /\ half.receiver \in Receiver
      /\ Received(p).events \in Seq(Event)
      /\ Received(p).frames \in Seq(Message)
  BY <1>1, ReceivedType
<1>3. file \in Receiver /\ file.header \in FileHeader
  BY <1>2 DEF Receiver
<1>4. finished \in Incoming
  BY <1>2, FinishedType
<1>5. received \in Manifest
  BY <1>2, <1>3, AppendProperties DEF Incoming, Manifest
<1>6. staged \in Incoming
  <2> HIDE DEF finished, received
  <2> QED
    BY <1>2, <1>4, <1>5 DEF Incoming
<1>7. Append(Received(p).events, whole) \in Seq(Event)
  <2> HIDE DEF received
  <2>1. whole \in Event
    BY <1>5, EventConstructors
  <2> QED
    BY <1>2, <2>1, AppendProperties
<1>8. Received(p).frames \o complete \in Seq(Message)
  <2>1. complete \in Seq(Message)
    BY MessageConstructors
  <2> QED
    BY <1>2, <2>1, ConcatProperties
<1>9. <<>> \in Seq(Message) /\ UNCHANGED <<snd, up>> /\ NoFault
  BY DEF RcvLastChunk
<1>10. ASSUME NEW frames \in Seq(Message), NEW pushed \in Seq(Event),
              NEW in \in Incoming,
              Exchange(p, frames), Push(p, pushed), rcv' = [rcv EXCEPT ![p] = in],
              \/ activity' = activity \/ activity' = [activity EXCEPT ![p] = "Idle"],
              \/ saved' = saved \/ saved' = [saved EXCEPT ![p] = Append(@, file)]
       PROVE  TypeInv'
  <2> HIDE DEF file
  <2>1. net' \in [Peer -> Seq(Message)]
    BY <1>1, <1>10, ExchangeType DEF TypeOK
  <2>2. events' \in [Peer -> Seq(Event)] /\ busy' \in [Peer -> BOOLEAN]
    BY <1>10, PushType DEF TypeOK
  <2>3. rcv' \in [Peer -> Incoming]
    BY <1>10 DEF TypeOK
  <2>4. activity' \in [Peer -> Activity]
    BY <1>10 DEF TypeOK, Activity
  <2>5. saved' \in [Peer -> Seq(Receiver)]
    <3>1. Append(saved[p], file) \in Seq(Receiver)
      BY <1>3, AppendProperties DEF TypeOK
    <3> QED
      BY <1>10, <3>1 DEF TypeOK
  <2>6. AwaitsWithFiles'
    BY <1>9, <1>10 DEF TypeInv, TypeOK, AwaitsWithFiles
  <2> QED
    BY <1>9, <2>1, <2>2, <2>3, <2>4, <2>5, <2>6 DEF TypeInv, TypeOK, NoFault
<1>11. CASE /\ saved' = [saved EXCEPT ![p] = Append(@, file)]
            /\ rcv' = [rcv EXCEPT ![p] = finished]
            /\ Exchange(p, Received(p).frames \o complete)
            /\ \/ /\ activity' = [activity EXCEPT ![p] = "Idle"]
                  /\ Push(p, Append(Received(p).events, whole))
               \/ activity' = activity /\ Push(p, Received(p).events)
  <2> HIDE DEF finished, file, whole, complete
  <2> QED
    BY <1>2, <1>4, <1>7, <1>8, <1>10, <1>11
<1>12. CASE /\ rcv' = [rcv EXCEPT ![p] = half]
            /\ Exchange(p, <<>>) /\ Push(p, Received(p).events)
            /\ UNCHANGED <<activity, saved>>
  BY <1>2, <1>9, <1>10, <1>12
<1>13. CASE /\ saved' = [saved EXCEPT ![p] = Append(@, file)]
            /\ rcv' = [rcv EXCEPT ![p] = staged]
            /\ Exchange(p, <<>>) /\ Push(p, Received(p).events)
            /\ UNCHANGED activity
  <2> HIDE DEF staged, file
  <2> QED
    BY <1>2, <1>6, <1>9, <1>10, <1>13
<1> QED
  BY <1>11, <1>12, <1>13, Zenon DEF RcvLastChunk

LEMMA ChannelType ==
  ASSUME TypeInv, LinkDrop \/ Redial \/ \E p \in Peer : RcvClosed(p)
  PROVE  TypeInv'
<1> TypeOK
  BY DEF TypeInv
<1>1. CASE LinkDrop
  <2>1. [type |-> "Closed"] \in Message
    BY MessageConstructors
  <2>2. \A q \in Peer : \A n \in 0..Len(net[q]) :
          Append(SubSeq(net[q], 1, n), [type |-> "Closed"]) \in Seq(Message)
    <3> TAKE q \in Peer
    <3> TAKE n \in 0..Len(net[q])
    <3>1. net[q] \in Seq(Message) /\ \A i \in 1..n : net[q][i] \in Message
      BY ElementOfSeq DEF TypeOK
    <3>2. SubSeq(net[q], 1, n) \in Seq(Message)
      BY <3>1, SubSeqProperties
    <3> QED
      BY <2>1, <3>2, AppendProperties
  <2>3. PICK p \in Peer, s \in Seq(Message), t \in Seq(Message) :
          net' = [net EXCEPT ![p] = s, ![Other(p)] = t]
    BY <1>1, <2>2, OtherPeer DEF LinkDrop
  <2>4. net' \in [Peer -> Seq(Message)]
    BY <2>3, OtherPeer DEF TypeOK
  <2>5. /\ budget.drops > 0 /\ budget' = [budget EXCEPT !.drops = @ - 1]
        /\ up' = FALSE /\ events' = [q \in Peer |-> <<>>]
        /\ UNCHANGED <<activity, snd, rcv, saved, busy>>
    BY <1>1 DEF LinkDrop
  <2>6. BudgetOK'
    <3>1. BudgetOK
      BY DEF TypeOK, BudgetOK
    <3> QED
      BY <2>5, <3>1, BoundAssumption DEF BudgetOK
  <2>7. events' \in [Peer -> Seq(Event)]
    BY <2>5
  <2> QED
    BY <2>4, <2>5, <2>6, <2>7 DEF TypeInv, TypeOK, BudgetOK, AwaitsWithFiles
<1>2. CASE Redial
  BY <1>2, FreshTypes DEF Redial, TypeInv, TypeOK, Activity, AwaitsWithFiles
<1>3. ASSUME NEW p \in Peer, RcvClosed(p) PROVE TypeInv'
  <2>1. ResetSnd(p) \in Sender
    BY FreshTypes DEF TypeOK, ResetSnd, Sender
  <2>2. ResetRcv(p) \in Incoming
    BY FreshTypes DEF TypeOK, ResetRcv, Incoming
  <2>3. /\ net[p] # <<>> /\ <<>> \in Seq(Message) /\ <<>> \in Seq(Event)
        /\ activity' = [activity EXCEPT ![p] = "Idle"]
        /\ snd' = [snd EXCEPT ![p] = ResetSnd(p)]
        /\ rcv' = [rcv EXCEPT ![p] = ResetRcv(p)]
        /\ Exchange(p, <<>>) /\ Push(p, <<>>) /\ NoFault /\ UNCHANGED <<up, saved>>
    BY <1>3, HeadMessage DEF RcvClosed
  <2>4. net' \in [Peer -> Seq(Message)]
    BY <2>3, ExchangeType DEF TypeOK
  <2>5. events' \in [Peer -> Seq(Event)] /\ busy' \in [Peer -> BOOLEAN]
    BY <2>3, PushType DEF TypeOK
  <2>6. AwaitsWithFiles'
    BY <2>1, <2>3, AwaitsPreserved DEF Activity
  <2> QED
    BY <2>1, <2>2, <2>3, <2>4, <2>5, <2>6 DEF TypeInv, TypeOK, Activity, NoFault
<1> QED
  BY <1>1, <1>2, <1>3

LEMMA StepTypeInv == TypeInv /\ [Next]_vars => TypeInv'
<1> SUFFICES ASSUME TypeInv, [Next]_vars PROVE TypeInv'
  OBVIOUS
<1>1. CASE UNCHANGED vars
  BY <1>1 DEF vars, TypeInv, TypeOK, AwaitsWithFiles
<1>2. ASSUME NEW p \in Peer,
             \/ SendFiles(p) \/ SendNothing(p)
             \/ \E accepted \in BOOLEAN : Respond(p, accepted)
      PROVE  TypeInv'
  BY <1>2, SendFilesType, SendNothingType, RespondType
<1>3. ASSUME NEW p \in Peer, Receive(p)
      PROVE  TypeInv'
  BY <1>3, SimpleFramesType, RcvDeclinedType, RcvAcceptedType, RcvPartitionReceivedType,
     RcvFileTransferCompleteType, RcvRequestType, RcvHeaderType, RcvChunkType,
     RcvLastChunkType, RcvChunkFailsType, ChannelType DEF Receive
<1>4. CASE LinkDrop \/ Redial
  BY <1>4, ChannelType
<1> QED
  BY <1>1, <1>2, <1>3, <1>4 DEF Next

\* Every reachable state is well typed, and a machine that awaits a response has files
\* to open when it comes: `next_file` never finds an empty queue then.
THEOREM TypeCorrect == Spec => []TypeOK
<1>1. Spec => []TypeInv
  BY InitTypeInv, StepTypeInv, PTL DEF Spec
<1>2. TypeInv => TypeOK
  BY DEF TypeInv
<1> QED
  BY <1>1, <1>2, PTL

-----------------------------------------------------------------------------
(* The manifest is honoured.                                               *)

LEMMA HonoursPreserved ==
  ASSUME TypeInv, ManifestHonoured, NEW p \in Peer, NEW half,
         rcv' = [rcv EXCEPT ![p] = half], up => Honours(half), UNCHANGED up
  PROVE  ManifestHonoured'
BY DEF TypeInv, TypeOK, ManifestHonoured

LEMMA ResetHonours ==
  ASSUME NEW p \in Peer
  PROVE  Honours(ResetRcv(p)) /\ Honours(FreshRcv)
BY DEF ResetRcv, FreshRcv, Honours

LEMMA FailHonours ==
  ASSUME TypeInv, ManifestHonoured, NEW p \in Peer, NEW frames, NEW pushed,
         Fail(p, frames, pushed)
  PROVE  ManifestHonoured'
<1>1. rcv' = [rcv EXCEPT ![p] = ResetRcv(p)] /\ UNCHANGED up
  BY DEF Fail
<1> QED
  BY <1>1, ResetHonours, HonoursPreserved

LEMMA RespondedHonours ==
  ASSUME NEW half \in Incoming, half.receiver = None, NEW request \in Manifest,
         NEW accepted \in BOOLEAN, Honours(half)
  PROVE  /\ half.pending # <<>> => Honours(Responded(half, request, accepted, TRUE))
         /\ half.accepted = <<>> => Honours(Responded(half, request, TRUE, TRUE))
<1>1. <<>> \o request = request
  BY ConcatEmptySeq DEF Manifest
<1>2. CASE accepted
  BY <1>1, <1>2 DEF Responded, Honours, Incoming
<1>3. CASE ~accepted
  BY <1>1, <1>3 DEF Responded, Honours, Incoming
<1> QED
  BY <1>2, <1>3

\* Taking the saved file off the manifest keeps the two parts together.
LEMMA FinishedHonours ==
  ASSUME NEW half \in Incoming, Honours(half), half.receiver \in Receiver,
         half.receiver # None
  PROVE  Honours(Finished(half))
<1> DEFINE header == half.receiver.header
           rest == Tail(half.remaining)
<1>1. /\ half.accepted # <<>> /\ half.remaining # <<>>
      /\ header = Head(half.remaining) /\ half.pending = <<>>
      /\ half.received \o half.remaining = half.accepted
      /\ half.received \in Seq(FileHeader) /\ half.remaining \in Seq(FileHeader)
  BY DEF Honours, Incoming, Manifest
<1>2. /\ header \in FileHeader /\ rest \in Seq(FileHeader)
      /\ <<header>> \in Seq(FileHeader)
  BY <1>1, HeadTailProperties
<1>3. <<header>> \o rest = half.remaining
  BY <1>1, <1>2
<1>4. Append(half.received, header) = half.received \o <<header>>
  BY <1>1, <1>2, AppendIsConcat
<1>5. Append(half.received, header) \o rest = half.accepted
  <2> DEFINE one == <<header>>
  <2> HIDE DEF header, rest, one
  <2>1. \A a, b, c \in Seq(FileHeader) : (a \o b) \o c = a \o (b \o c)
    BY ConcatAssociative
  <2>2. (half.received \o one) \o rest = half.received \o (one \o rest)
    BY <1>1, <1>2, <2>1, Zenon DEF one
  <2>3. one \o rest = half.remaining /\ Append(half.received, header) = half.received \o one
    BY <1>3, <1>4 DEF one
  <2> QED
    BY <1>1, <2>2, <2>3
<1> DEFINE done == [half EXCEPT !.receiver = None, !.total = @ + header.size,
                      !.inFile = 0, !.received = Append(@, header),
                      !.remaining = IF @ = <<>> THEN @ ELSE Tail(@)]
<1>6. /\ done.accepted = half.accepted /\ done.receiver = None
      /\ done.received = Append(half.received, header) /\ done.remaining = rest
      /\ done.pending = <<>>
  BY <1>1 DEF Incoming
<1>8. Honours(done)
  BY <1>5, <1>6 DEF Honours
<1>9. Honours([done EXCEPT !.accepted = <<>>, !.received = <<>>])
  <2> DEFINE last == [done EXCEPT !.accepted = <<>>, !.received = <<>>]
  <2>1. last.accepted = <<>> /\ last.receiver = None
    BY <1>6 DEF Incoming
  <2> HIDE DEF last
  <2> QED
    BY <2>1 DEF Honours
<1> QED
  BY <1>8, <1>9 DEF Finished

LEMMA ReceivedHonours ==
  ASSUME TypeInv, ManifestHonoured, up, NEW p \in Peer,
         Arrives(p, "Chunk"), rcv[p].receiver # None
  PROVE  Honours(Received(p).half)
<1>1. Honours(rcv[p]) /\ rcv[p] \in Incoming /\ rcv[p].receiver \in Receiver
  BY DEF ManifestHonoured, TypeInv, TypeOK, Incoming
<1> DEFINE receiver == [rcv[p].receiver EXCEPT !.data = Append(@, Head(net[p]).chunk),
                                           !.over = @ \/ Head(net[p]).over]
<1>2. PICK last : Received(p).half =
        [rcv[p] EXCEPT !.receiver = receiver, !.inFile = @ + 1, !.lastProgress = last]
  BY <1>1, Zenon DEF Received
<1>3. receiver.header = rcv[p].receiver.header
  BY <1>1 DEF Receiver
<1> HIDE DEF receiver
<1>4. /\ Received(p).half.receiver = receiver
      /\ Received(p).half.accepted = rcv[p].accepted
      /\ Received(p).half.remaining = rcv[p].remaining
      /\ Received(p).half.received = rcv[p].received
      /\ Received(p).half.pending = rcv[p].pending
  BY <1>1, <1>2 DEF Incoming
<1> QED
  BY <1>1, <1>3, <1>4 DEF Honours

\* The sending half has no say in it: next_file may fail, and then everything is reset.
LEMMA SendingHonours ==
  ASSUME TypeInv, ManifestHonoured, NEW p \in Peer,
         RcvAccepted(p) \/ RcvPartitionReceived(p) \/ RcvFileTransferComplete(p)
  PROVE  ManifestHonoured'
<1>1. ASSUME NEW s, NEW act, NEW header, NEW pushed, NEW last, NEW grown,
             PutPartition(p, s, act, header, pushed, last, grown)
      PROVE  ManifestHonoured'
  <2>1. UNCHANGED <<rcv, up>>
    BY <1>1, Zenon DEF PutPartition
  <2> QED
    BY <2>1 DEF ManifestHonoured
<1>2. ASSUME NEW s, NEW act, NEW pushed, NextFile(p, s, act, pushed)
      PROVE  ManifestHonoured'
  <2>1. \/ \E t, header, last, grown : PutPartition(p, t, act, header, pushed, last, grown)
        \/ \E frames : Fail(p, frames, pushed)
    BY <1>2, Zenon DEF NextFile
  <2> QED
    BY <1>1, <2>1, FailHonours
<1>3. CASE RcvAccepted(p)
  BY <1>2, <1>3 DEF RcvAccepted
<1>4. CASE RcvPartitionReceived(p)
  <2>1. \/ UNCHANGED <<rcv, up>>
        \/ \E last, grown : PutPartition(p, snd[p], activity[p], <<>>, <<>>, last, grown)
        \/ Fail(p, <<>>, <<>>)
    BY <1>4, Zenon DEF RcvPartitionReceived
  <2>2. CASE UNCHANGED <<rcv, up>>
    BY <2>2 DEF ManifestHonoured
  <2> QED
    BY <1>1, <2>1, <2>2, FailHonours
<1>5. CASE RcvFileTransferComplete(p)
  <2>1. \/ UNCHANGED <<rcv, up>>
        \/ \E s : NextFile(p, s, activity[p], <<>>)
    BY <1>5, Zenon DEF RcvFileTransferComplete
  <2>2. CASE UNCHANGED <<rcv, up>>
    BY <2>2 DEF ManifestHonoured
  <2> QED
    BY <1>2, <2>1, <2>2
<1> QED
  BY <1>3, <1>4, <1>5

\* A request is answered only while no other one is accepted.
LEMMA AnsweringHonours ==
  ASSUME TypeInv, ManifestHonoured, NEW p \in Peer,
         RcvRequest(p) \/ \E accepted \in BOOLEAN : Respond(p, accepted)
  PROVE  ManifestHonoured'
<1>1. SUFFICES ASSUME up PROVE ManifestHonoured'
  BY DEF RcvRequest, Respond, ManifestHonoured
<1>2. Honours(rcv[p]) /\ rcv[p] \in Incoming /\ WriteOutcomes = {TRUE}
  BY <1>1 DEF ManifestHonoured, TypeInv, TypeOK, WriteOutcomes
<1>3. rcv[p].accepted = <<>> => rcv[p].receiver = None
  BY <1>2 DEF Honours
<1>4. CASE \E accepted \in BOOLEAN : Respond(p, accepted)
  <2> PICK accepted \in BOOLEAN : Respond(p, accepted)
    BY <1>4
  <2> DEFINE half == Responded(rcv[p], rcv[p].pending, accepted, TRUE)
  <2>1. rcv' = [rcv EXCEPT ![p] = half] /\ UNCHANGED up /\ rcv[p].pending # <<>>
    BY <1>2 DEF Respond
  <2>2. rcv[p].pending \in Manifest /\ rcv[p].accepted = <<>>
    BY <1>2, <2>1 DEF Incoming, Honours
  <2>3. Honours(half)
    BY <1>2, <1>3, <2>1, <2>2, RespondedHonours
  <2> HIDE DEF half
  <2> QED
    BY <2>1, <2>3, HonoursPreserved
<1>5. CASE RcvRequest(p)
  <2> DEFINE request == Head(net[p]).manifest
             half == Responded(rcv[p], request, TRUE, TRUE)
             asked == [rcv[p] EXCEPT !.pending = request]
  <2>1. request \in Manifest /\ UNCHANGED up
    BY <1>5, HeadMessage, MessageFields DEF RcvRequest
  <2>2. \/ UNCHANGED rcv
        \/ /\ rcv[p].accepted = <<>>
           /\ rcv' = [rcv EXCEPT ![p] = asked] \/ rcv' = [rcv EXCEPT ![p] = half]
    BY <1>2, <1>5 DEF RcvRequest
  <2>3. CASE UNCHANGED rcv
    BY <2>1, <2>3 DEF ManifestHonoured
  <2>4. rcv[p].accepted = <<>> => Honours(asked)
    BY <1>2, <1>3 DEF Honours, Incoming
  <2>5. rcv[p].accepted = <<>> => Honours(half)
    BY <1>2, <1>3, <2>1, RespondedHonours
  <2> HIDE DEF half, asked
  <2> QED
    BY <2>1, <2>2, <2>3, <2>4, <2>5, HonoursPreserved
<1> QED
  BY <1>4, <1>5

LEMMA HeaderHonours ==
  ASSUME TypeInv, ManifestHonoured, NEW p \in Peer, RcvHeader(p)
  PROVE  ManifestHonoured'
<1> DEFINE header == Head(net[p]).header
           staged == [header |-> header, data |-> <<>>, over |-> FALSE]
           half == [rcv[p] EXCEPT !.inFile = 0, !.receiver = staged]
<1>1. \/ UNCHANGED <<rcv, up>>
      \/ Fail(p, <<>>, <<>>)
      \/ /\ rcv[p].accepted # <<>> /\ rcv[p].remaining # <<>>
         /\ header = Head(rcv[p].remaining)
         /\ rcv' = [rcv EXCEPT ![p] = half] /\ UNCHANGED up
  BY DEF RcvHeader
<1>2. CASE UNCHANGED <<rcv, up>>
  BY <1>2 DEF ManifestHonoured
<1>3. ASSUME up, rcv[p].accepted # <<>>, rcv[p].remaining # <<>>,
             header = Head(rcv[p].remaining)
      PROVE  Honours(half)
  <2>1. Honours(rcv[p]) /\ rcv[p] \in Incoming
    BY <1>3 DEF ManifestHonoured, TypeInv, TypeOK
  <2>2. /\ half.receiver.header = header /\ half.accepted = rcv[p].accepted
        /\ half.remaining = rcv[p].remaining /\ half.received = rcv[p].received
        /\ half.pending = rcv[p].pending
    BY <2>1 DEF Incoming
  <2> HIDE DEF half
  <2> QED
    BY <1>3, <2>1, <2>2 DEF Honours
<1> HIDE DEF half
<1> QED
  BY <1>1, <1>2, <1>3, FailHonours, HonoursPreserved

LEMMA ChunkHonours ==
  ASSUME TypeInv, ManifestHonoured, NEW p \in Peer,
         RcvChunk(p) \/ RcvLastChunk(p) \/ RcvChunkFails(p)
  PROVE  ManifestHonoured'
<1>1. Arrives(p, "Chunk") /\ rcv[p].receiver # None
  BY DEF RcvChunk, RcvLastChunk, RcvChunkFails
<1>2. /\ Received(p).half \in Incoming /\ Received(p).half.receiver \in Receiver
      /\ Received(p).half.receiver # None
  BY <1>1, ReceivedType, NoneAssumption DEF TypeInv, Receiver, FileHeader, Chunk
<1>3. up => Honours(Received(p).half) /\ Honours(Finished(Received(p).half))
  BY <1>1, <1>2, ReceivedHonours, FinishedHonours
<1>4. \/ \E frames, pushed : Fail(p, frames, pushed)
      \/ /\ UNCHANGED up
         /\ \/ rcv' = [rcv EXCEPT ![p] = Received(p).half]
            \/ rcv' = [rcv EXCEPT ![p] = Finished(Received(p).half)]
            \/ ~up
  BY Zenon DEF RcvChunk, RcvLastChunk, RcvChunkFails
<1>5. CASE UNCHANGED up /\ ~up
  BY <1>5 DEF ManifestHonoured
<1> QED
  BY <1>3, <1>4, <1>5, FailHonours, HonoursPreserved

LEMMA StepHonours ==
  TypeInv /\ ManifestHonoured /\ [Next]_vars => ManifestHonoured'
<1> SUFFICES ASSUME TypeInv, ManifestHonoured, [Next]_vars PROVE ManifestHonoured'
  OBVIOUS
<1>1. CASE UNCHANGED <<rcv, up>>
  BY <1>1 DEF ManifestHonoured
<1>2. ASSUME NEW p \in Peer, SendFiles(p) \/ SendNothing(p)
      PROVE  ManifestHonoured'
  BY <1>1, <1>2 DEF SendFiles, SendNothing
<1>3. ASSUME NEW p \in Peer, Receive(p)
      PROVE  ManifestHonoured'
  <2>1. CASE \/ RcvStaleResponse(p) \/ RcvDeclined(p) \/ RcvProgress(p)
             \/ RcvPartition(p) \/ RcvIgnoredChunk(p)
    BY <1>1, <2>1 DEF RcvStaleResponse, RcvDeclined, RcvProgress, RcvPartition,
       RcvIgnoredChunk
  <2>2. CASE RcvClosed(p)
    BY <2>2, ResetHonours, HonoursPreserved DEF RcvClosed
  <2> QED
    BY <1>3, <2>1, <2>2, SendingHonours, AnsweringHonours, HeaderHonours, ChunkHonours
    DEF Receive
<1>4. CASE LinkDrop
  BY <1>4 DEF LinkDrop, ManifestHonoured
<1>5. CASE Redial
  BY <1>5, ResetHonours DEF Redial, ManifestHonoured
<1> QED
  BY <1>1, <1>2, <1>3, <1>4, <1>5, AnsweringHonours DEF Next, vars

LEMMA InitHonours == Init => ManifestHonoured
BY ResetHonours DEF Init, ManifestHonoured

\* On an open channel every end keeps to the manifest it accepted: a file is staged only
\* as the next one of the manifest, and what is saved and what is expected make it up.
THEOREM ManifestIsHonoured == Spec => []ManifestHonoured
<1>1. Spec => [](TypeInv /\ ManifestHonoured)
  BY InitTypeInv, InitHonours, StepTypeInv, StepHonours, PTL DEF Spec
<1> QED
  BY <1>1, PTL

-----------------------------------------------------------------------------
(* Transfer implements FileDelivery, and every file it saves is intact.    *)

\* What the refinement maps the two machines to.
Offers == [p \in Peer |-> OfferedTo(p)]
Asked == [p \in Peer |-> rcv[p].pending]
Contract == [p \in Peer |-> rcv[p].remaining]
Delivered == [p \in Peer |-> [i \in DOMAIN saved[p] |-> saved[p][i].header]]

-----------------------------------------------------------------------------
(* Offers come only from the command that makes them.                      *)

\* What handlers write: every frame but a request.
Reply == {m \in Message : m.type # "Request"}

Shrinks == \A q \in Peer : OfferedTo(q)' \subseteq OfferedTo(q)

LEMMA ReplyConstructors ==
  /\ \A b \in BOOLEAN : <<[type |-> "Response", accepted |-> b]>> \in Seq(Reply)
  /\ \A h \in FileHeader : <<[type |-> "Header", header |-> h]>> \in Seq(Reply)
  /\ \A b \in BOOLEAN : <<[type |-> "Progress", whole |-> b]>> \in Seq(Reply)
  /\ \A t \in {"Partition", "PartitionReceived", "FileTransferComplete", "Closed"} :
       <<[type |-> t]>> \in Seq(Reply)
  /\ <<>> \in Seq(Reply)
<1>1. /\ \A b \in BOOLEAN : [type |-> "Response", accepted |-> b] \in Reply
      /\ \A h \in FileHeader : [type |-> "Header", header |-> h] \in Reply
      /\ \A b \in BOOLEAN : [type |-> "Progress", whole |-> b] \in Reply
      /\ \A t \in {"Partition", "PartitionReceived", "FileTransferComplete", "Closed"} :
           [type |-> t] \in Reply
  BY MessageConstructors DEF Reply
<1>2. \A m \in Reply : <<m>> \in Seq(Reply)
  OBVIOUS
<1> QED
  BY <1>1, <1>2

LEMMA NetTypes ==
  ASSUME TypeInv, TypeInv', NEW q \in Peer
  PROVE  /\ net[q] \in Seq(Message) /\ net'[q] \in Seq(Message)
         /\ DOMAIN net[q] = 1..Len(net[q]) /\ DOMAIN net'[q] = 1..Len(net'[q])
<1>1. net[q] \in Seq(Message) /\ net'[q] \in Seq(Message)
  BY DEF TypeInv, TypeOK
<1> QED
  BY <1>1

\* What is appended without a request, and what is taken away, offers nothing new.
LEMMA AppendedShrinks ==
  ASSUME TypeInv, TypeInv', NEW q \in Peer, NEW frames \in Seq(Reply),
         net'[q] = net[q] \o frames
  PROVE  OfferedTo(q)' \subseteq OfferedTo(q)
<1>1. net[q] \in Seq(Message) /\ frames \in Seq(Message)
  BY NetTypes, SeqMonotonic DEF Reply
<1>2. \A i \in 1..Len(net'[q]) : net'[q][i].type = "Request" =>
        i \in 1..Len(net[q]) /\ net'[q][i] = net[q][i]
  <2> TAKE i \in 1..Len(net'[q])
  <2>1. /\ Len(net'[q]) = Len(net[q]) + Len(frames)
        /\ Len(net[q]) \in Nat /\ Len(frames) \in Nat
        /\ net'[q][i] = IF i <= Len(net[q]) THEN net[q][i] ELSE frames[i - Len(net[q])]
    BY <1>1, ConcatProperties
  <2>2. CASE i > Len(net[q])
    <3>1. frames[i - Len(net[q])] \in Reply
      BY <2>1, <2>2, ElementOfSeq
    <3> QED
      BY <2>1, <2>2, <3>1 DEF Reply
  <2> QED
    BY <2>1, <2>2
<1> SUFFICES ASSUME NEW m \in OfferedTo(q)' PROVE m \in OfferedTo(q)
  OBVIOUS
<1>3. PICK i \in 1..Len(net'[q]) : net'[q][i].type = "Request" /\ m = net'[q][i].manifest
  BY NetTypes DEF OfferedTo
<1> QED
  BY <1>2, <1>3, NetTypes DEF OfferedTo

LEMMA TailShrinks ==
  ASSUME TypeInv, TypeInv', NEW q \in Peer, net[q] # <<>>, net'[q] = Tail(net[q])
  PROVE  OfferedTo(q)' \subseteq OfferedTo(q)
<1>1. /\ net[q] \in Seq(Message) /\ Len(net[q]) \in Nat
      /\ Len(Tail(net[q])) = Len(net[q]) - 1
      /\ \A i \in 1..Len(Tail(net[q])) : Tail(net[q])[i] = net[q][i + 1]
  BY NetTypes, HeadTailProperties
<1>2. \A i \in 1..Len(net'[q]) : i + 1 \in 1..Len(net[q]) /\ net'[q][i] = net[q][i + 1]
  BY <1>1
<1> SUFFICES ASSUME NEW m \in OfferedTo(q)' PROVE m \in OfferedTo(q)
  OBVIOUS
<1>3. PICK i \in 1..Len(net'[q]) : net'[q][i].type = "Request" /\ m = net'[q][i].manifest
  BY NetTypes DEF OfferedTo
<1> QED
  BY <1>2, <1>3, NetTypes DEF OfferedTo

LEMMA TwoPeers ==
  ASSUME NEW p \in Peer
  PROVE  Other(p) \in Peer /\ Other(p) # p /\ \A q \in Peer : q = p \/ q = Other(p)
BY OtherPeer, PeerAssumption

LEMMA ExchangeShrinks ==
  ASSUME TypeInv, TypeInv', NEW p \in Peer, net[p] # <<>>, NEW frames \in Seq(Reply),
         Exchange(p, frames)
  PROVE  Shrinks
<1>1. net'[p] = Tail(net[p]) /\ net'[Other(p)] = net[Other(p)] \o Written(frames)
  BY TwoPeers DEF Exchange, TypeInv, TypeOK
<1>2. Written(frames) \in Seq(Reply)
  BY DEF Written
<1> QED
  BY <1>1, <1>2, TwoPeers, AppendedShrinks, TailShrinks DEF Shrinks

LEMMA WriteShrinks ==
  ASSUME TypeInv, TypeInv', NEW p \in Peer, NEW frames \in Seq(Reply), Write(p, frames)
  PROVE  Shrinks
<1>1. net'[p] = net[p] /\ net'[Other(p)] = net[Other(p)] \o Written(frames)
  BY TwoPeers DEF Write, TypeInv, TypeOK
<1>2. Written(frames) \in Seq(Reply)
  BY DEF Written
<1>3. OfferedTo(p)' \subseteq OfferedTo(p)
  BY <1>1 DEF OfferedTo
<1> QED
  BY <1>1, <1>2, <1>3, TwoPeers, AppendedShrinks DEF Shrinks

-----------------------------------------------------------------------------
(* What a step of the abstract specification looks like.                   *)

\* Offers come and go, and nothing else happens.
LEMMA IdleStep ==
  ASSUME NEW p \in Peer, Shrinks, UNCHANGED <<rcv, up, saved>>
  PROVE  Delivery!Next
<1>1. Delivery!Offer(p)
  BY DEF Delivery!Offer, Shrinks
<1> QED
  BY <1>1 DEF Delivery!Next

\* An incoming half that gives up everything.
LEMMA ResetStep ==
  ASSUME TypeInv, NEW p \in Peer, NEW half, Shrinks,
         rcv' = [rcv EXCEPT ![p] = half], half.pending = <<>>, half.remaining = <<>>,
         UNCHANGED <<up, saved>>
  PROVE  Delivery!Next
<1>1. Delivery!GiveUp(p)
  BY DEF Delivery!GiveUp, Delivery!OffersMayGo, Shrinks, TypeInv, TypeOK
<1> QED
  BY <1>1 DEF Delivery!Next

\* Every expected file is of an accepted manifest, only the next one is staged, and no
\* request waits meanwhile.  Unlike ManifestHonoured this outlives the channel.
Tidy(half) ==
  /\ half.accepted = <<>> => half.remaining = <<>>
  /\ half.receiver # None =>
       half.remaining # <<>> /\ half.receiver.header = Head(half.remaining)
  /\ half.pending # <<>> => half.accepted = <<>>

AllTidy == \A p \in Peer : Tidy(rcv[p])

LEMMA TidyPreserved ==
  ASSUME TypeInv, AllTidy, NEW p \in Peer, NEW half,
         rcv' = [rcv EXCEPT ![p] = half], Tidy(half)
  PROVE  AllTidy'
BY DEF TypeInv, TypeOK, AllTidy

LEMMA ResetTidy ==
  ASSUME NEW p \in Peer
  PROVE  /\ Tidy(ResetRcv(p)) /\ Tidy(FreshRcv)
         /\ ResetRcv(p).pending = <<>> /\ ResetRcv(p).remaining = <<>>
         /\ FreshRcv.pending = <<>> /\ FreshRcv.remaining = <<>>
BY DEF ResetRcv, FreshRcv, Tidy

\* A file that is delivered is the next one of the contract.
LEMMA DeliverStep ==
  ASSUME TypeInv, NEW p \in Peer, NEW half, NEW file \in Receiver, Shrinks,
         rcv' = [rcv EXCEPT ![p] = half], half.pending = rcv[p].pending,
         rcv[p].remaining # <<>>, file.header = Head(rcv[p].remaining),
         \/ half.remaining = Tail(rcv[p].remaining)
         \/ ~up /\ half.remaining = rcv[p].remaining,
         saved' = [saved EXCEPT ![p] = Append(saved[p], file)], UNCHANGED up
  PROVE  Delivery!Next
<1> DEFINE headers(files) == [i \in DOMAIN files |-> files[i].header]
<1>1. saved \in [Peer -> Seq(Receiver)] /\ rcv \in [Peer -> Incoming]
  BY DEF TypeInv, TypeOK
<1>2. headers(Append(saved[p], file)) = Append(headers(saved[p]), file.header)
  <2> DEFINE files == saved[p]
             more == Append(files, file)
  <2>1. /\ files \in Seq(Receiver) /\ Len(files) \in Nat /\ DOMAIN files = 1..Len(files)
        /\ more \in Seq(Receiver) /\ Len(more) = Len(files) + 1 /\ DOMAIN more = 1..Len(more)
        /\ \A i \in 1..Len(files) : more[i] = files[i]
        /\ more[Len(files) + 1] = file
    BY <1>1, AppendProperties, LenProperties
  <2> HIDE DEF files, more
  <2>0. \A list \in Seq(Receiver) : \A i \in 1..Len(list) : list[i].header \in FileHeader
    <3> SUFFICES ASSUME NEW list \in Seq(Receiver), NEW i \in 1..Len(list)
                 PROVE list[i].header \in FileHeader
      OBVIOUS
    <3>1. list[i] \in Receiver
      BY ElementOfSeq
    <3> QED
      BY <3>1 DEF Receiver
  <2>2. \A i \in DOMAIN files : files[i].header \in FileHeader
    BY <2>0, <2>1
  <2>3. headers(files) \in Seq(FileHeader) /\ Len(headers(files)) = Len(files)
    BY <2>1, <2>2
  <2>4. \A i \in DOMAIN more : more[i].header \in FileHeader
    BY <2>0, <2>1
  <2>5. headers(more) \in Seq(FileHeader) /\ Len(headers(more)) = Len(more)
    BY <2>1, <2>4
  <2>6. file.header \in FileHeader
    BY DEF Receiver
  <2>7. /\ Append(headers(files), file.header) \in Seq(FileHeader)
        /\ Len(Append(headers(files), file.header)) = Len(files) + 1
        /\ \A i \in 1..Len(files) : Append(headers(files), file.header)[i] = files[i].header
        /\ Append(headers(files), file.header)[Len(files) + 1] = file.header
    BY <2>1, <2>3, <2>6, AppendProperties
  <2>8. \A i \in 1..Len(more) : headers(more)[i] = Append(headers(files), file.header)[i]
    BY <2>1, <2>7
  <2>9. headers(more) = Append(headers(files), file.header)
    <3> DEFINE a == headers(more)
               b == Append(headers(files), file.header)
    <3>1. a \in Seq(FileHeader) /\ b \in Seq(FileHeader) /\ Len(a) = Len(b)
          /\ \A i \in 1..Len(a) : a[i] = b[i]
      BY <2>1, <2>5, <2>7, <2>8
    <3> HIDE DEF a, b
    <3>2. a = b
      BY <3>1, SeqEqual
    <3> QED
      BY <3>2 DEF a, b
  <2> QED
    BY <2>9 DEF files, more
<1>3. Delivered' = [Delivered EXCEPT ![p] = Append(@, Head(Contract[p]))]
  <2>1. Delivered = [q \in Peer |-> headers(saved[q])]
        /\ Delivered' = [q \in Peer |-> headers(saved'[q])]
    BY DEF Delivered
  <2>2. Head(Contract[p]) = file.header
    BY DEF Contract
  <2> HIDE DEF headers
  <2> QED
    BY <1>1, <1>2, <2>1, <2>2
<1>4. /\ Asked' = Asked
      /\ \/ Contract' = [Contract EXCEPT ![p] = Tail(@)]
         \/ ~up /\ Contract' = Contract
  BY <1>1 DEF Asked, Contract
<1>5. Delivery!OffersMayGo
  BY DEF Delivery!OffersMayGo, Shrinks
<1>6. Contract[p] # <<>>
  BY DEF Contract
<1>7. Delivery!Deliver(p)
  BY <1>3, <1>4, <1>5, <1>6 DEF Delivery!Deliver, Delivered, Asked, Contract
<1> QED
  BY <1>7 DEF Delivery!Next

-----------------------------------------------------------------------------
(* The steps of the sending half offer nothing and deliver nothing.        *)

LEMMA ChunksReply ==
  ASSUME NEW name \in File, NEW first \in Nat, NEW last \in Nat,
         NEW grown \in BOOLEAN, first <= last + 1
  PROVE  ChunksOf(name, first, last, grown) \in Seq(Reply)
<1> DEFINE chunks == ChunksOf(name, first, last, grown)
<1>1. chunks \in Seq(Message) /\ Len(chunks) \in Nat /\ DOMAIN chunks = 1..Len(chunks)
  BY ChunksType, LenProperties
<1>2. \A i \in 1..Len(chunks) : chunks[i] \in Message
  BY <1>1, ElementOfSeq
<1>3. \A i \in DOMAIN chunks : chunks[i].type = "Chunk"
  BY DEF ChunksOf
<1> HIDE DEF chunks
<1>4. \A i \in 1..Len(chunks) : chunks[i] \in Reply
  BY <1>1, <1>2, <1>3 DEF Reply
<1>5. chunks = [i \in 1..Len(chunks) |-> chunks[i]]
  BY <1>1
<1>6. chunks \in Seq(Reply)
  BY <1>1, <1>4, <1>5
<1> QED
  BY <1>6 DEF chunks

LEMMA PutPartitionIdles ==
  ASSUME TypeInv, TypeInv', AllTidy, NEW p \in Peer, net[p] # <<>>,
         NEW s \in Sender, s.chunker \in Chunker, NEW act, NEW header \in Seq(Reply),
         NEW pushed, NEW last \in s.chunker.offset..PartitionEnd(s.chunker), NEW grown \in BOOLEAN,
         PutPartition(p, s, act, header, pushed, last, grown)
  PROVE  Delivery!Next /\ AllTidy'
<1> DEFINE c == s.chunker
           read == Reading(c, last)
           chunks == ChunksOf(c.name, c.offset + 1, last, grown)
           pause == IF read.offset < c.size THEN <<[type |-> "Partition"]>> ELSE <<>>
<1>1. /\ c.name \in File /\ c.offset \in Nat /\ c.offset <= last /\ last \in Nat
  BY PartitionEndType DEF Chunker
<1>2. chunks \in Seq(Reply)
  <2>1. c.offset + 1 \in Nat /\ c.offset + 1 <= last + 1
    BY <1>1
  <2> HIDE DEF c
  <2> QED
    BY <1>1, <2>1, ChunksReply
<1>3. pause \in Seq(Reply)
  BY ReplyConstructors
<1>4. header \o chunks \o pause \in Seq(Reply)
  BY <1>2, <1>3, ConcatProperties
<1>5. Exchange(p, header \o chunks \o pause) /\ UNCHANGED <<rcv, up, saved>>
  BY DEF PutPartition
<1> HIDE DEF chunks, pause
<1>6. Shrinks
  BY <1>4, <1>5, ExchangeShrinks
<1> QED
  BY <1>5, <1>6, IdleStep DEF AllTidy

LEMMA FailResets ==
  ASSUME TypeInv, TypeInv', AllTidy, NEW p \in Peer, net[p] # <<>>,
         NEW frames \in Seq(Reply), NEW pushed, Fail(p, frames, pushed)
  PROVE  Delivery!Next /\ AllTidy'
<1>1. /\ rcv' = [rcv EXCEPT ![p] = ResetRcv(p)] /\ UNCHANGED <<up, saved>>
      /\ Exchange(p, frames)
  BY DEF Fail
<1>2. Shrinks
  BY <1>1, ExchangeShrinks
<1> QED
  BY <1>1, <1>2, ResetTidy, TidyPreserved, ResetStep

LEMMA NextFileStep ==
  ASSUME TypeInv, TypeInv', AllTidy, NEW p \in Peer, net[p] # <<>>,
         NEW s \in Sender, s.queue # <<>>, NEW act, NEW pushed, NextFile(p, s, act, pushed)
  PROVE  Delivery!Next /\ AllTidy'
<1> DEFINE name == Head(s.queue)
           chunker(size) == [name |-> name, size |-> size, offset |-> 0]
           open(size) == [s EXCEPT !.queue = Tail(@), !.sentIn = 0,
                                   !.chunker = chunker(size)]
           header(size) ==
             <<[type |-> "Header", header |-> [name |-> name, size |-> size]]>>
<1>1. name \in File /\ Tail(s.queue) \in Seq(File)
  BY HeadTailProperties DEF Sender
<1>2. Size[name] \in Nat
  BY <1>1, SizeAssumption
<1>3. \A size \in Nat : /\ chunker(size) \in Chunker
                        /\ open(size) \in Sender
                        /\ open(size).chunker = chunker(size)
                        /\ chunker(size).offset = 0
  <2> TAKE size \in Nat
  <2>1. chunker(size) \in Chunker /\ chunker(size).offset = 0
    BY <1>1 DEF Chunker
  <2> HIDE DEF chunker
  <2> QED
    BY <1>1, <2>1 DEF Sender
<1>4. \A size \in Nat : header(size) \in Seq(Reply)
  BY <1>1, ReplyConstructors DEF FileHeader
<1>5. \A size \in Nat : PartitionEnd(open(size).chunker) \in Nat
  BY <1>3, PartitionEndType
<1>6. CASE \E size \in Nat : \E last \in 0..PartitionEnd(open(size).chunker), grown \in BOOLEAN :
             PutPartition(p, open(size), act, header(size), pushed, last, grown)
  <2> PICK size \in Nat : \E last \in 0..PartitionEnd(open(size).chunker), grown \in BOOLEAN :
             PutPartition(p, open(size), act, header(size), pushed, last, grown)
    BY <1>6
  <2> PICK last \in 0..PartitionEnd(open(size).chunker), grown \in BOOLEAN :
             PutPartition(p, open(size), act, header(size), pushed, last, grown)
    OBVIOUS
  <2> HIDE DEF open, header, chunker
  <2> QED
    BY <1>3, <1>4, PutPartitionIdles
<1>7. CASE Fail(p, <<>>, pushed) \/ Fail(p, header(Size[name]), pushed)
  <2>1. <<>> \in Seq(Reply) /\ header(Size[name]) \in Seq(Reply)
    BY <1>2, <1>4
  <2> HIDE DEF header
  <2> QED
    BY <1>7, <2>1, FailResets
<1>8. \/ \E size \in Nat : \E last \in 0..PartitionEnd(open(size).chunker), grown \in BOOLEAN :
             PutPartition(p, open(size), act, header(size), pushed, last, grown)
      \/ Fail(p, <<>>, pushed) \/ Fail(p, header(Size[name]), pushed)
  <2>1. \A size \in 0..(Size[name] + 1) \ {Size[name]} : size \in Nat
    BY <1>2
  <2>2. \A size \in Nat :
          /\ PartitionEnd(open(size).chunker) \in 0..PartitionEnd(open(size).chunker)
          /\ \A last \in 0..(PartitionEnd(open(size).chunker) - 1) :
               last \in 0..PartitionEnd(open(size).chunker)
    <3>1. \A n \in Nat : n \in 0..n /\ \A last \in 0..(n - 1) : last \in 0..n
      OBVIOUS
    <3> HIDE DEF open
    <3> QED
      BY <1>5, <3>1, Zenon
  <2> QED
    BY <1>2, <2>1, <2>2, Zenon DEF NextFile
<1> QED
  BY <1>6, <1>7, <1>8

LEMMA SendingStep ==
  ASSUME TypeInv, TypeInv', AllTidy, NEW p \in Peer,
         RcvAccepted(p) \/ RcvPartitionReceived(p) \/ RcvFileTransferComplete(p)
  PROVE  Delivery!Next /\ AllTidy'
<1>1. snd[p] \in Sender /\ net[p] # <<>> /\ <<>> \in Seq(Reply)
  <2>1. snd[p] \in Sender
    BY DEF TypeInv, TypeOK
  <2>2. net[p] # <<>>
    BY Zenon DEF RcvAccepted, RcvPartitionReceived, RcvFileTransferComplete, Arrives
  <2> QED
    BY <2>1, <2>2, ReplyConstructors
<1>2. ASSUME Exchange(p, <<>>), UNCHANGED <<rcv, up, saved>>
      PROVE  Delivery!Next /\ AllTidy'
  BY <1>1, <1>2, ExchangeShrinks, IdleStep DEF AllTidy
<1>3. CASE RcvAccepted(p)
  <2> DEFINE half == [snd[p] EXCEPT !.queue = snd[p].requested, !.requested = <<>>,
                                    !.sentBefore = 0, !.filesSent = 0]
             pushed == <<[kind |-> "SendProgress", whole |-> FALSE]>>
  <2>1. snd[p].requested # <<>>
    BY <1>3 DEF RcvAccepted, TypeInv, AwaitsWithFiles
  <2>2. half \in Sender /\ half.queue # <<>>
    <3>1. <<>> \in Seq(File)
      OBVIOUS
    <3> QED
      BY <1>1, <2>1, <3>1 DEF Sender
  <2>3. NextFile(p, half, "Sending", pushed)
    BY <1>3 DEF RcvAccepted
  <2> HIDE DEF half, pushed
  <2> QED
    BY <1>1, <2>2, <2>3, NextFileStep
<1>4. CASE RcvPartitionReceived(p)
  <2> DEFINE c == snd[p].chunker
  <2>1. CASE c = None
    <3>1. Exchange(p, <<>>) /\ UNCHANGED <<rcv, up, saved>>
      BY <1>4, <2>1, Zenon DEF RcvPartitionReceived
    <3> QED
      BY <1>2, <3>1
  <2>2. CASE c # None
    <3>1. c \in Chunker
      BY <1>1, <2>2 DEF Sender
    <3>2. PartitionEnd(c) \in Nat /\ c.offset \in Nat /\ c.offset <= PartitionEnd(c)
      BY <3>1, PartitionEndType DEF Chunker
    <3>3. /\ PartitionEnd(c) \in c.offset..PartitionEnd(c)
          /\ \A last \in c.offset..(PartitionEnd(c) - 1) : last \in c.offset..PartitionEnd(c)
      BY <3>2
    <3>4. \/ \E last \in c.offset..PartitionEnd(c), grown \in BOOLEAN :
               PutPartition(p, snd[p], activity[p], <<>>, <<>>, last, grown)
          \/ Fail(p, <<>>, <<>>)
      BY <1>4, <2>2, <3>3, Zenon DEF RcvPartitionReceived
    <3> QED
      BY <1>1, <3>1, <3>4, PutPartitionIdles, FailResets
  <2> QED
    BY <2>1, <2>2
<1>5. CASE RcvFileTransferComplete(p)
  <2> DEFINE counted == [snd[p] EXCEPT !.sentBefore = @ + snd[p].sentIn, !.sentIn = 0,
                                       !.filesSent = @ + 1, !.chunker = None]
  <2>1. counted \in Sender /\ counted.queue = snd[p].queue
    <3>1. snd[p].sentBefore + snd[p].sentIn \in Nat /\ snd[p].filesSent + 1 \in Nat
      BY <1>1 DEF Sender
    <3> QED
      BY <1>1, <3>1 DEF Sender
  <2>2. \/ snd[p].queue # <<>> /\ NextFile(p, counted, activity[p], <<>>)
        \/ Exchange(p, <<>>) /\ UNCHANGED <<rcv, up, saved>>
    BY <1>5, Zenon DEF RcvFileTransferComplete
  <2> HIDE DEF counted
  <2> QED
    BY <1>1, <1>2, <2>1, <2>2, NextFileStep
<1> QED
  BY <1>3, <1>4, <1>5

-----------------------------------------------------------------------------
(* The receiving half asks, accepts and delivers.                          *)

LEMMA SendFilesStep ==
  ASSUME TypeInv, TypeInv', AllTidy, NEW p \in Peer, SendFiles(p)
  PROVE  Delivery!Next /\ AllTidy'
<1>1. PICK batch \in Batches : \E manifest \in ManifestsOf(batch) :
        Write(p, <<[type |-> "Request", manifest |-> manifest]>>)
  BY DEF SendFiles
<1>2. PICK manifest \in ManifestsOf(batch) :
        Write(p, <<[type |-> "Request", manifest |-> manifest]>>)
  BY <1>1
<1>3. manifest \in Manifest
  BY BatchAssumption, ManifestsOfType
<1>4. PICK q \in Peer : q = Other(p) /\ q # p /\ \A o \in Peer : o = p \/ o = q
  BY TwoPeers
<1>5. PICK frames : frames = Written(<<[type |-> "Request", manifest |-> manifest]>>)
  OBVIOUS
<1>6. frames \in Seq(Message) /\ \A i \in 1..Len(frames) : frames[i].manifest = manifest
  <2>1. [type |-> "Request", manifest |-> manifest] \in Message
    BY <1>3, MessageConstructors
  <2> QED
    BY <1>5, <2>1 DEF Written
<1>7. net'[p] = net[p] /\ net'[q] = net[q] \o frames
  BY <1>2, <1>4, <1>5 DEF Write, TypeInv, TypeOK
<1>8. OfferedTo(p)' \subseteq OfferedTo(p)
  BY <1>7 DEF OfferedTo
<1>9. OfferedTo(q)' \ OfferedTo(q) \subseteq Manifest
  <2> SUFFICES ASSUME NEW m \in OfferedTo(q)', m \notin OfferedTo(q) PROVE m \in Manifest
    OBVIOUS
  <2>1. PICK i \in 1..Len(net'[q]) : net'[q][i].type = "Request" /\ m = net'[q][i].manifest
    BY NetTypes DEF OfferedTo
  <2>2. net'[q][i] \in Message
    BY NetTypes, ElementOfSeq
  <2> QED
    BY <2>1, <2>2, MessageFields
<1>10. UNCHANGED <<rcv, up, saved>>
  BY DEF SendFiles
<1>11. Delivery!Offer(q)
  BY <1>4, <1>8, <1>9, <1>10 DEF Delivery!Offer
<1> QED
  BY <1>10, <1>11 DEF Delivery!Next, AllTidy

LEMMA SimpleStep ==
  ASSUME TypeInv, TypeInv', AllTidy, NEW p \in Peer,
         \/ RcvStaleResponse(p) \/ RcvDeclined(p) \/ RcvProgress(p)
         \/ RcvIgnoredChunk(p) \/ RcvPartition(p)
  PROVE  Delivery!Next /\ AllTidy'
<1>1. net[p] # <<>> /\ UNCHANGED <<rcv, up, saved>>
  BY Zenon DEF RcvStaleResponse, RcvDeclined, RcvProgress, RcvIgnoredChunk, RcvPartition,
     Arrives
<1>2. Exchange(p, <<>>) \/ Exchange(p, <<[type |-> "PartitionReceived"]>>)
  BY Zenon DEF RcvStaleResponse, RcvDeclined, RcvProgress, RcvIgnoredChunk, RcvPartition
<1>3. Shrinks
  BY <1>1, <1>2, ReplyConstructors, ExchangeShrinks
<1> QED
  BY <1>1, <1>3, IdleStep DEF AllTidy

\* An incoming half whose pending request and expected files stay as they are.
LEMMA KeepStep ==
  ASSUME TypeInv, AllTidy, NEW p \in Peer, NEW half, Shrinks, Tidy(half),
         rcv' = [rcv EXCEPT ![p] = half], half.pending = rcv[p].pending,
         half.remaining = rcv[p].remaining, UNCHANGED <<up, saved>>
  PROVE  Delivery!Next /\ AllTidy'
<1>1. Asked' = Asked /\ Contract' = Contract /\ Delivered' = Delivered
  BY DEF Asked, Contract, Delivered, TypeInv, TypeOK
<1>2. Delivery!Offer(p)
  BY <1>1 DEF Delivery!Offer, Shrinks, Asked, Contract, Delivered
<1> QED
  BY <1>2, TidyPreserved DEF Delivery!Next

\* An answer takes the pending request and makes it the contract if it is accepted.
LEMMA RespondedFields ==
  ASSUME NEW half \in Incoming, NEW request \in Manifest,
         NEW accepted \in BOOLEAN, NEW written \in BOOLEAN, Tidy(half),
         half.accepted = <<>>
  PROVE  /\ Tidy(Responded(half, request, accepted, written))
         /\ Responded(half, request, accepted, written).pending = <<>>
         /\ \/ Responded(half, request, accepted, written).remaining = half.remaining
            \/ /\ accepted
               /\ Responded(half, request, accepted, written).remaining = request
<1>1. half.remaining = <<>> /\ half.receiver = None
  BY DEF Tidy
<1>2. CASE accepted /\ written
  BY <1>1, <1>2 DEF Responded, Tidy, Incoming
<1>3. CASE ~(accepted /\ written)
  BY <1>1, <1>3 DEF Responded, Tidy, Incoming
<1> QED
  BY <1>2, <1>3

LEMMA RespondStep ==
  ASSUME TypeInv, TypeInv', AllTidy, NEW p \in Peer, NEW accepted \in BOOLEAN,
         Respond(p, accepted)
  PROVE  Delivery!Next /\ AllTidy'
<1>1. PICK written \in BOOLEAN :
        rcv' = [rcv EXCEPT ![p] = Responded(rcv[p], rcv[p].pending, accepted, written)]
  BY DEF Respond, WriteOutcomes
<1>2. /\ rcv[p].pending # <<>> /\ UNCHANGED <<up, saved>>
      /\ Write(p, <<Response(accepted)>>)
  BY DEF Respond
<1>3. Shrinks
  BY <1>2, ReplyConstructors, WriteShrinks DEF Response
<1>4. /\ rcv[p] \in Incoming /\ rcv[p].pending \in Manifest /\ Tidy(rcv[p])
      /\ rcv \in [Peer -> Incoming]
  BY DEF TypeInv, TypeOK, Incoming, AllTidy
<1>5. rcv[p].accepted = <<>> /\ rcv[p].remaining = <<>>
  BY <1>2, <1>4 DEF Tidy
<1>6. PICK half : /\ rcv' = [rcv EXCEPT ![p] = half] /\ Tidy(half) /\ half.pending = <<>>
                  /\ half.remaining \in {<<>>, rcv[p].pending}
  <2>1. PICK h : h = Responded(rcv[p], rcv[p].pending, accepted, written)
    OBVIOUS
  <2>2. Tidy(h) /\ h.pending = <<>> /\ h.remaining \in {rcv[p].remaining, rcv[p].pending}
    BY <1>4, <1>5, <2>1, RespondedFields
  <2>3. rcv' = [rcv EXCEPT ![p] = h]
    BY <1>1, <2>1
  <2> QED
    BY <1>5, <2>2, <2>3
<1>7. /\ Asked' = [Asked EXCEPT ![p] = <<>>]
      /\ Contract' = [Contract EXCEPT ![p] = half.remaining]
      /\ Contract[p] = <<>> /\ Asked[p] = rcv[p].pending
  BY <1>4, <1>5, <1>6 DEF Asked, Contract
<1>8. Delivery!OffersMayGo
  BY <1>3 DEF Delivery!OffersMayGo, Shrinks
<1>9. CASE half.remaining = <<>>
  <2>1. Contract' = [Contract EXCEPT ![p] = <<>>]
    BY <1>7, <1>9
  <2>2. Delivery!GiveUp(p)
    BY <1>2, <1>7, <1>8, <2>1 DEF Delivery!GiveUp, Asked, Contract
  <2> QED
    BY <1>4, <1>6, <2>2, TidyPreserved DEF Delivery!Next
<1>10. CASE half.remaining = rcv[p].pending
  <2>1. Delivery!Accept(p)
    BY <1>2, <1>7, <1>8, <1>10 DEF Delivery!Accept, Asked, Contract
  <2> QED
    BY <1>4, <1>6, <2>1, TidyPreserved DEF Delivery!Next
<1> QED
  BY <1>6, <1>9, <1>10

LEMMA RequestOffered ==
  ASSUME TypeInv, NEW p \in Peer, Arrives(p, "Request")
  PROVE  /\ net[p] # <<>> /\ Head(net[p]).manifest \in Manifest
         /\ Head(net[p]).manifest \in OfferedTo(p)
<1>1. net[p] \in Seq(Message) /\ net[p] # <<>> /\ Head(net[p]).manifest \in Manifest
      /\ Head(net[p]).type = "Request"
  BY HeadMessage, MessageFields DEF TypeInv, TypeOK
<1>2. 1 \in DOMAIN net[p] /\ Head(net[p]) = net[p][1]
  BY <1>1
<1> QED
  BY <1>1, <1>2 DEF OfferedTo

LEMMA RcvRequestStep ==
  ASSUME TypeInv, TypeInv', AllTidy, NEW p \in Peer, RcvRequest(p)
  PROVE  Delivery!Next /\ AllTidy'
<1>1. PICK request \in Manifest : request = Head(net[p]).manifest
                                  /\ request \in OfferedTo(p) /\ net[p] # <<>>
  BY RequestOffered DEF RcvRequest
<1>2. Exchange(p, <<>>) \/ \E accepted \in BOOLEAN : Exchange(p, <<Response(accepted)>>)
  BY Zenon DEF RcvRequest
<1>3. Shrinks
  BY <1>1, <1>2, ReplyConstructors, ExchangeShrinks DEF Response
<1>4. Delivery!OffersMayGo
  BY <1>3 DEF Delivery!OffersMayGo, Shrinks
<1>5. /\ rcv \in [Peer -> Incoming] /\ rcv[p] \in Incoming /\ Tidy(rcv[p])
      /\ UNCHANGED <<up, saved>>
  BY DEF RcvRequest, TypeInv, TypeOK, AllTidy
<1>6. CASE UNCHANGED rcv
  BY <1>3, <1>5, <1>6, IdleStep DEF AllTidy
<1>7. CASE /\ rcv[p].pending = <<>> /\ rcv[p].accepted = <<>>
           /\ rcv' = [rcv EXCEPT ![p].pending = request]
  <2> DEFINE half == [rcv[p] EXCEPT !.pending = request]
  <2>1. Tidy(half) /\ half.pending = request /\ half.remaining = rcv[p].remaining
    BY <1>5, <1>7 DEF Tidy, Incoming
  <2>2. rcv' = [rcv EXCEPT ![p] = half] /\ rcv[p].remaining = <<>>
    BY <1>5, <1>7 DEF Tidy
  <2> HIDE DEF half
  <2>3. Asked' = [Asked EXCEPT ![p] = request] /\ Contract' = Contract
        /\ Asked[p] = <<>> /\ Contract[p] = <<>>
    BY <1>5, <1>7, <2>1, <2>2 DEF Asked, Contract
  <2>4. Delivery!Ask(p)
    BY <1>1, <1>4, <1>5, <2>3 DEF Delivery!Ask, Asked, Contract
  <2> QED
    BY <2>1, <2>2, <2>4, TidyPreserved DEF Delivery!Next
<1>8. ASSUME rcv[p].pending = <<>>, rcv[p].accepted = <<>>, p \in AutoAccept,
             NEW written \in BOOLEAN,
             rcv' = [rcv EXCEPT ![p] = Responded(rcv[p], request, TRUE, written)]
      PROVE  Delivery!Next /\ AllTidy'
  <2>1. PICK half : half = Responded(rcv[p], request, TRUE, written)
    OBVIOUS
  <2>2. Tidy(half) /\ half.pending = <<>> /\ half.remaining \in {rcv[p].remaining, request}
    BY <1>5, <1>8, <2>1, RespondedFields
  <2>3. rcv' = [rcv EXCEPT ![p] = half]
    BY <1>8, <2>1
  <2>4. CASE half.remaining = rcv[p].remaining
    BY <1>3, <1>5, <1>8, <2>2, <2>3, <2>4, KeepStep
  <2>5. CASE half.remaining = request
    <3>1. Asked' = [Asked EXCEPT ![p] = <<>>] /\ Asked[p] = <<>>
      BY <1>5, <1>8, <2>2, <2>3 DEF Asked
    <3>2. Contract' = [Contract EXCEPT ![p] = request] /\ Contract[p] = <<>>
      BY <1>5, <1>8, <2>3, <2>5 DEF Contract, Tidy
    <3>3. Delivery!Accept(p)
      BY <1>1, <1>4, <1>5, <1>8, <3>1, <3>2 DEF Delivery!Accept, Asked, Contract
    <3> QED
      BY <2>2, <2>3, <3>3, TidyPreserved DEF Delivery!Next
  <2> QED
    BY <2>2, <2>4, <2>5
<1>9. \/ UNCHANGED rcv
      \/ /\ rcv[p].pending = <<>> /\ rcv[p].accepted = <<>>
         /\ rcv' = [rcv EXCEPT ![p].pending = request]
      \/ /\ rcv[p].pending = <<>> /\ rcv[p].accepted = <<>> /\ p \in AutoAccept
         /\ \E written \in BOOLEAN :
              rcv' = [rcv EXCEPT ![p] = Responded(rcv[p], request, TRUE, written)]
  BY <1>1 DEF RcvRequest, WriteOutcomes
<1> QED
  BY <1>6, <1>7, <1>8, <1>9

LEMMA RcvHeaderStep ==
  ASSUME TypeInv, TypeInv', AllTidy, NEW p \in Peer, RcvHeader(p)
  PROVE  Delivery!Next /\ AllTidy'
<1> DEFINE header == Head(net[p]).header
           half == [rcv[p] EXCEPT !.inFile = 0,
                                  !.receiver = [header |-> header, data |-> <<>>, over |-> FALSE]]
<1>1. net[p] # <<>> /\ <<>> \in Seq(Reply)
  BY ReplyConstructors DEF RcvHeader, Arrives
<1>2. \/ Exchange(p, <<>>) /\ UNCHANGED <<rcv, up, saved>>
      \/ Fail(p, <<>>, <<>>)
      \/ /\ rcv[p].accepted # <<>> /\ rcv[p].remaining # <<>>
         /\ header = Head(rcv[p].remaining)
         /\ rcv' = [rcv EXCEPT ![p] = half]
         /\ Exchange(p, <<>>) /\ UNCHANGED <<up, saved>>
  BY DEF RcvHeader
<1>3. rcv[p] \in Incoming /\ Tidy(rcv[p])
  BY DEF TypeInv, TypeOK, AllTidy
<1>4. /\ half.receiver.header = header /\ half.accepted = rcv[p].accepted
      /\ half.remaining = rcv[p].remaining /\ half.pending = rcv[p].pending
  BY <1>3 DEF Incoming
<1> HIDE DEF half
<1>5. ASSUME rcv[p].accepted # <<>>, rcv[p].remaining # <<>>, header = Head(rcv[p].remaining)
      PROVE  Tidy(half)
  BY <1>3, <1>4, <1>5 DEF Tidy
<1>6. Exchange(p, <<>>) => Shrinks
  BY <1>1, ExchangeShrinks
<1>7. CASE Exchange(p, <<>>) /\ UNCHANGED <<rcv, up, saved>>
  BY <1>6, <1>7, IdleStep DEF AllTidy
<1>8. CASE Fail(p, <<>>, <<>>)
  BY <1>1, <1>8, FailResets
<1>9. CASE /\ rcv[p].accepted # <<>> /\ rcv[p].remaining # <<>>
           /\ header = Head(rcv[p].remaining)
           /\ rcv' = [rcv EXCEPT ![p] = half]
           /\ Exchange(p, <<>>) /\ UNCHANGED <<up, saved>>
  BY <1>4, <1>5, <1>6, <1>9, KeepStep
<1> QED
  BY <1>2, <1>7, <1>8, <1>9

\* What appending a chunk leaves alone.
LEMMA ReceivedFields ==
  ASSUME TypeInv, AllTidy, NEW p \in Peer, Arrives(p, "Chunk"), rcv[p].receiver # None
  PROVE  /\ Received(p).half \in Incoming
         /\ Received(p).half.receiver \in Receiver
         /\ Received(p).half.receiver.header = Head(rcv[p].remaining)
         /\ Received(p).half.accepted = rcv[p].accepted
         /\ Received(p).half.remaining = rcv[p].remaining
         /\ Received(p).half.pending = rcv[p].pending
         /\ rcv[p].remaining # <<>> /\ rcv[p].accepted # <<>> /\ rcv[p].pending = <<>>
         /\ Tidy(Received(p).half)
         /\ Received(p).frames \in Seq(Reply)
<1>1. /\ Tidy(rcv[p]) /\ rcv[p] \in Incoming /\ rcv[p].receiver \in Receiver
      /\ Received(p).half \in Incoming /\ Received(p).half.receiver \in Receiver
  BY ReceivedType DEF AllTidy, TypeInv, TypeOK, Incoming
<1> DEFINE receiver == [rcv[p].receiver EXCEPT !.data = Append(@, Head(net[p]).chunk),
                                           !.over = @ \/ Head(net[p]).over]
<1>2. PICK last : Received(p).half =
        [rcv[p] EXCEPT !.receiver = receiver, !.inFile = @ + 1, !.lastProgress = last]
  BY <1>1, Zenon DEF Received
<1>3. receiver.header = rcv[p].receiver.header
  BY <1>1 DEF Receiver
<1> HIDE DEF receiver
<1>4. /\ Received(p).half.receiver = receiver
      /\ Received(p).half.accepted = rcv[p].accepted
      /\ Received(p).half.remaining = rcv[p].remaining
      /\ Received(p).half.pending = rcv[p].pending
  BY <1>1, <1>2 DEF Incoming
<1>5. Received(p).frames \in {<<>>} \union {<<[type |-> "Progress", whole |-> b]>> : b \in BOOLEAN}
  <2> DEFINE done == rcv[p].total + rcv[p].inFile + 1
             size == TotalSize(rcv[p].accepted)
             whole == done >= size
             due == /\ size > 0
                    /\ (done - rcv[p].lastProgress) * ProgressSteps >= size \/ whole
  <2>1. Received(p).frames =
          IF due THEN <<[type |-> "Progress", whole |-> whole]>> ELSE <<>>
    BY Zenon DEF Received
  <2>2. whole \in BOOLEAN
    OBVIOUS
  <2> HIDE DEF due, whole
  <2> QED
    BY <2>1, <2>2
<1>6. Received(p).frames \in Seq(Reply)
  BY <1>5, ReplyConstructors
<1>7. rcv[p].remaining # <<>> /\ rcv[p].accepted # <<>> /\ rcv[p].pending = <<>>
      /\ rcv[p].receiver.header = Head(rcv[p].remaining)
  BY <1>1 DEF Tidy
<1>8. Tidy(Received(p).half)
  BY <1>1, <1>3, <1>4, <1>7 DEF Tidy
<1> QED
  BY <1>1, <1>3, <1>4, <1>6, <1>7, <1>8

\* A file that is done is off the list, and with the last one the contract ends.
LEMMA FinishedFields ==
  ASSUME NEW half \in Incoming, half.receiver \in Receiver, half.remaining # <<>>,
         half.accepted # <<>>, half.pending = <<>>
  PROVE  /\ Tidy(Finished(half))
         /\ Finished(half).receiver = None
         /\ Finished(half).pending = <<>>
         /\ Finished(half).remaining = Tail(half.remaining)
<1> DEFINE header == half.receiver.header
           done == [half EXCEPT !.receiver = None, !.total = @ + header.size, !.inFile = 0,
                                !.received = Append(@, header),
                                !.remaining = IF @ = <<>> THEN @ ELSE Tail(@)]
           over == [done EXCEPT !.accepted = <<>>, !.received = <<>>]
<1>1. Finished(half) = IF IsLastFile(half) THEN over ELSE done
  BY Zenon DEF Finished
<1>2. /\ done.receiver = None /\ done.pending = <<>> /\ done.accepted = half.accepted
      /\ done.remaining = Tail(half.remaining)
      /\ over.receiver = None /\ over.pending = <<>> /\ over.accepted = <<>>
      /\ over.remaining = Tail(half.remaining)
  BY DEF Incoming
<1>3. IsLastFile(half) => Tail(half.remaining) = <<>>
  <2>1. half.remaining \in Seq(FileHeader)
    BY DEF Incoming, Manifest
  <2>2. /\ Tail(half.remaining) \in Seq(FileHeader)
        /\ Len(Tail(half.remaining)) = Len(half.remaining) - 1 /\ Len(half.remaining) \in Nat
    BY <2>1, HeadTailProperties
  <2>3. Len(half.remaining) <= 1 => Len(Tail(half.remaining)) = 0
    <3> DEFINE n == Len(half.remaining)
               m == Len(Tail(half.remaining))
    <3>1. n \in Nat /\ n # 0 /\ m = n - 1
      BY <2>1, <2>2, EmptySeq
    <3>2. n <= 1 => m = 0
      <4> HIDE DEF n, m
      <4> QED
        BY <3>1
    <3> QED
      BY <3>2
  <2> QED
    BY <2>2, <2>3, EmptySeq DEF IsLastFile
<1> HIDE DEF done, over
<1> QED
  BY <1>1, <1>2, <1>3 DEF Tidy

LEMMA RcvLastChunkStep ==
  ASSUME TypeInv, TypeInv', AllTidy, NEW p \in Peer, RcvLastChunk(p)
  PROVE  Delivery!Next /\ AllTidy'
<1>1. Arrives(p, "Chunk") /\ rcv[p].receiver # None /\ net[p] # <<>> /\ UNCHANGED up
  BY Zenon DEF RcvLastChunk, Arrives
<1>2. PICK half : half = Received(p).half
  OBVIOUS
<1>3. PICK frames \in Seq(Reply) : frames = Received(p).frames
  BY <1>1, ReceivedFields
<1>4. /\ half \in Incoming /\ half.receiver \in Receiver
      /\ half.receiver.header = Head(rcv[p].remaining)
      /\ half.remaining = rcv[p].remaining /\ half.pending = rcv[p].pending
      /\ rcv[p].remaining # <<>> /\ half.accepted # <<>> /\ rcv[p].pending = <<>>
      /\ Tidy(half)
  BY <1>1, <1>2, ReceivedFields
<1> DEFINE file == half.receiver
           finished == Finished(half)
           stuck == [finished EXCEPT !.accepted = half.accepted, !.remaining = half.remaining,
                                     !.received = Append(half.received, file.header)]
           complete == <<[type |-> "FileTransferComplete"]>>
<1>5. \/ /\ saved' = [saved EXCEPT ![p] = Append(saved[p], file)]
         /\ rcv' = [rcv EXCEPT ![p] = finished]
         /\ Exchange(p, frames \o complete)
      \/ /\ rcv' = [rcv EXCEPT ![p] = half] /\ Exchange(p, <<>>) /\ UNCHANGED saved
      \/ /\ ~up
         /\ saved' = [saved EXCEPT ![p] = Append(saved[p], file)]
         /\ rcv' = [rcv EXCEPT ![p] = stuck]
         /\ Exchange(p, <<>>)
  BY <1>2, <1>3, Zenon DEF RcvLastChunk
<1>6. file \in Receiver /\ file.header = Head(rcv[p].remaining)
  BY <1>4 DEF Receiver
<1>7. Exchange(p, <<>>) \/ Exchange(p, frames \o complete) => Shrinks
  <2>1. frames \o complete \in Seq(Reply) /\ <<>> \in Seq(Reply)
    BY ReplyConstructors, ConcatProperties
  <2> QED
    BY <1>1, <2>1, ExchangeShrinks
<1>8. /\ Tidy(finished) /\ finished.receiver = None /\ finished.pending = <<>>
      /\ finished.remaining = Tail(rcv[p].remaining)
      /\ finished \in Incoming
  BY <1>4, FinishedFields, FinishedType
<1>9. /\ stuck.receiver = None /\ stuck.pending = <<>> /\ stuck.accepted = half.accepted
      /\ stuck.remaining = half.remaining
  <2> HIDE DEF finished
  <2> QED
    BY <1>8 DEF Incoming
<1>10. Tidy(stuck)
  <2> HIDE DEF stuck
  <2> QED
    BY <1>4, <1>9 DEF Tidy
<1> HIDE DEF file, finished, stuck
<1>11. CASE /\ saved' = [saved EXCEPT ![p] = Append(saved[p], file)]
            /\ rcv' = [rcv EXCEPT ![p] = finished]
            /\ Exchange(p, frames \o complete)
  BY <1>1, <1>4, <1>6, <1>7, <1>8, <1>11, DeliverStep, TidyPreserved
<1>12. CASE rcv' = [rcv EXCEPT ![p] = half] /\ Exchange(p, <<>>) /\ UNCHANGED saved
  BY <1>1, <1>4, <1>7, <1>12, KeepStep
<1>13. CASE /\ ~up
            /\ saved' = [saved EXCEPT ![p] = Append(saved[p], file)]
            /\ rcv' = [rcv EXCEPT ![p] = stuck]
            /\ Exchange(p, <<>>)
  BY <1>1, <1>4, <1>6, <1>7, <1>9, <1>10, <1>13, DeliverStep, TidyPreserved
<1> QED
  BY <1>5, <1>11, <1>12, <1>13

LEMMA RcvChunkStep ==
  ASSUME TypeInv, TypeInv', AllTidy, NEW p \in Peer, RcvChunk(p) \/ RcvChunkFails(p)
  PROVE  Delivery!Next /\ AllTidy'
<1>1. Arrives(p, "Chunk") /\ rcv[p].receiver # None /\ net[p] # <<>>
  BY Zenon DEF RcvChunk, RcvChunkFails, Arrives
<1>2. Received(p).frames \in Seq(Reply) /\ <<>> \in Seq(Reply)
  BY <1>1, ReceivedFields, ReplyConstructors
<1>3. CASE RcvChunk(p)
  <2>1. /\ rcv' = [rcv EXCEPT ![p] = Received(p).half] /\ UNCHANGED <<up, saved>>
        /\ Exchange(p, Received(p).frames)
    BY <1>3 DEF RcvChunk
  <2>2. Shrinks
    BY <1>1, <1>2, <2>1, ExchangeShrinks
  <2>3. PICK half : half = Received(p).half
    OBVIOUS
  <2>4. Tidy(half) /\ half.pending = rcv[p].pending /\ half.remaining = rcv[p].remaining
    BY <1>1, <2>3, ReceivedFields
  <2> QED
    BY <2>1, <2>2, <2>3, <2>4, KeepStep
<1>4. CASE RcvChunkFails(p)
  <2>1. \/ Fail(p, <<>>, <<>>)
        \/ Fail(p, Received(p).frames, Received(p).events)
    BY <1>4, Zenon DEF RcvChunkFails, FramesBeforeSaving
  <2> QED
    BY <1>1, <1>2, <2>1, FailResets
<1> QED
  BY <1>3, <1>4

-----------------------------------------------------------------------------
(* The channel, and every step.                                            *)

LEMMA RcvClosedStep ==
  ASSUME TypeInv, TypeInv', AllTidy, NEW p \in Peer, RcvClosed(p)
  PROVE  Delivery!Next /\ AllTidy'
<1>1. /\ net[p] # <<>> /\ Exchange(p, <<>>) /\ rcv' = [rcv EXCEPT ![p] = ResetRcv(p)]
      /\ UNCHANGED <<up, saved>>
  BY Zenon DEF RcvClosed, Arrives
<1>2. Shrinks
  BY <1>1, ReplyConstructors, ExchangeShrinks
<1> QED
  BY <1>1, <1>2, ResetTidy, TidyPreserved, ResetStep

\* What was written before the loss may be cut short, and nothing is added to it.
LEMMA LinkDropStep ==
  ASSUME TypeInv, TypeInv', AllTidy, LinkDrop
  PROVE  Delivery!Next /\ AllTidy'
<1> DEFINE cut(q, n) == Append(SubSeq(net[q], 1, n), [type |-> "Closed"])
<1>1. PICK p \in Peer : \E here \in 0..Len(net[p]), there \in 0..Len(net[Other(p)]) :
        net' = [net EXCEPT ![p] = cut(p, here), ![Other(p)] = cut(Other(p), there)]
  BY Zenon DEF LinkDrop
<1>2. ASSUME NEW q \in Peer, NEW n \in 0..Len(net[q]), net'[q] = cut(q, n)
      PROVE  OfferedTo(q)' \subseteq OfferedTo(q)
  <2>1. /\ net[q] \in Seq(Message) /\ n \in Nat /\ n <= Len(net[q])
    BY NetTypes
  <2>2. /\ SubSeq(net[q], 1, n) \in Seq(Message) /\ Len(SubSeq(net[q], 1, n)) = n
        /\ \A i \in 1..n : SubSeq(net[q], 1, n)[i] = net[q][i]
    BY <2>1, SubSeqProperties
  <2>3. PICK closed \in Message : closed = [type |-> "Closed"] /\ closed.type = "Closed"
    BY MessageConstructors
  <2>4. /\ Len(net'[q]) = n + 1 /\ net'[q][n + 1] = closed
        /\ \A i \in 1..n : net'[q][i] = net[q][i]
    BY <1>2, <2>1, <2>2, <2>3, AppendProperties
  <2> SUFFICES ASSUME NEW m \in OfferedTo(q)' PROVE m \in OfferedTo(q)
    OBVIOUS
  <2>5. PICK i \in 1..Len(net'[q]) : net'[q][i].type = "Request" /\ m = net'[q][i].manifest
    BY NetTypes DEF OfferedTo
  <2>6. i \in 1..n
    BY <2>1, <2>3, <2>4, <2>5
  <2>7. i \in 1..Len(net[q]) /\ net'[q][i] = net[q][i]
    BY <2>1, <2>4, <2>6
  <2> QED
    BY <2>5, <2>7, NetTypes DEF OfferedTo
<1>3. Shrinks
  <2>1. PICK here \in 0..Len(net[p]) : \E there \in 0..Len(net[Other(p)]) :
          net' = [net EXCEPT ![p] = cut(p, here), ![Other(p)] = cut(Other(p), there)]
    BY <1>1
  <2>2. PICK there \in 0..Len(net[Other(p)]) :
          net' = [net EXCEPT ![p] = cut(p, here), ![Other(p)] = cut(Other(p), there)]
    BY <2>1
  <2> HIDE DEF cut
  <2>3. net'[p] = cut(p, here) /\ net'[Other(p)] = cut(Other(p), there)
    BY <2>2, TwoPeers DEF TypeInv, TypeOK
  <2> QED
    BY <1>2, <2>3, TwoPeers DEF Shrinks
<1>4. up /\ up' = FALSE /\ UNCHANGED <<rcv, saved>>
  BY DEF LinkDrop
<1>5. Delivery!Lose
  BY <1>3, <1>4 DEF Delivery!Lose, Delivery!OffersMayGo, Shrinks
<1> QED
  BY <1>4, <1>5 DEF Delivery!Next, AllTidy

LEMMA RedialStep ==
  ASSUME TypeInv, TypeInv', AllTidy, Redial
  PROVE  Delivery!Next /\ AllTidy'
<1>1. /\ ~up /\ up' = TRUE /\ rcv' = [q \in Peer |-> FreshRcv]
      /\ UNCHANGED <<net, saved>> /\ \A q \in Peer : net[q] = <<>>
  BY DEF Redial
<1>2. \A q \in Peer : net'[q] = <<>>
  BY <1>1
<1>3. Offers' = [q \in Peer |-> {}]
  BY <1>2 DEF Offers, OfferedTo
<1>4. Asked' = [q \in Peer |-> <<>>] /\ Contract' = [q \in Peer |-> <<>>]
      /\ Delivered' = Delivered
  BY <1>1 DEF Asked, Contract, Delivered, FreshRcv
<1>5. Delivery!Reconnect
  BY <1>1, <1>3, <1>4
  DEF Delivery!Reconnect, Offers, Asked, Contract, Delivered
<1>6. AllTidy'
  BY <1>1, ResetTidy DEF AllTidy
<1> QED
  BY <1>5, <1>6 DEF Delivery!Next

LEMMA StepDelivery ==
  TypeInv /\ TypeInv' /\ AllTidy /\ [Next]_vars => [Delivery!Next]_(Delivery!vars) /\ AllTidy'
<1> SUFFICES ASSUME TypeInv, TypeInv', AllTidy, [Next]_vars
             PROVE  [Delivery!Next]_(Delivery!vars) /\ AllTidy'
  OBVIOUS
<1>1. CASE UNCHANGED <<net, rcv, up, saved>>
  BY <1>1 DEF Delivery!vars, OfferedTo, AllTidy, Tidy
<1>2. ASSUME NEW p \in Peer, SendNothing(p)
      PROVE  [Delivery!Next]_(Delivery!vars) /\ AllTidy'
  BY <1>1, <1>2 DEF SendNothing
<1>3. ASSUME NEW p \in Peer, SendFiles(p) \/ \E accepted \in BOOLEAN : Respond(p, accepted)
      PROVE  Delivery!Next /\ AllTidy'
  BY <1>3, SendFilesStep, RespondStep
<1>4. ASSUME NEW p \in Peer, Receive(p)
      PROVE  Delivery!Next /\ AllTidy'
  BY <1>4, SimpleStep, SendingStep, RcvRequestStep, RcvHeaderStep, RcvChunkStep,
     RcvLastChunkStep, RcvClosedStep DEF Receive
<1> QED
  BY <1>1, <1>2, <1>3, <1>4, LinkDropStep, RedialStep DEF Next, vars

LEMMA InitDelivery == Init => Delivery!Init /\ AllTidy
<1> SUFFICES ASSUME Init PROVE Delivery!Init /\ AllTidy
  OBVIOUS
<1>1. \A p \in Peer : rcv[p] = FreshRcv /\ net[p] = <<>> /\ saved[p] = <<>>
  BY DEF Init
<1>2. Offers = [p \in Peer |-> {}] /\ Asked = [p \in Peer |-> <<>>]
      /\ Contract = [p \in Peer |-> <<>>] /\ Delivered = [p \in Peer |-> <<>>]
  BY <1>1 DEF Offers, OfferedTo, Asked, Contract, Delivered, FreshRcv
<1>3. Delivery!Init
  BY <1>2 DEF Init, Delivery!Init, Offers, Asked, Contract, Delivered
<1> QED
  BY <1>1, <1>3, ResetTidy DEF AllTidy

\* The two machines and their channel implement FileDelivery: whatever fails, crosses or
\* is lost, a user is asked only about an offer of the other end, and what reaches the
\* download directory was accepted, comes in the order of its manifest and comes once.
THEOREM TransferImplementsFileDelivery == Spec => ImplementsFileDelivery
<1>1. Spec => []TypeInv
  BY InitTypeInv, StepTypeInv, PTL DEF Spec
<1>2. [](TypeInv) /\ [][Next]_vars /\ AllTidy => [][Delivery!Next]_(Delivery!vars)
  BY StepDelivery, PTL
<1>3. Init => Delivery!Init /\ AllTidy
  BY InitDelivery
<1> QED
  BY <1>1, <1>2, <1>3, PTL DEF Spec, ImplementsFileDelivery, Delivery!Spec

-----------------------------------------------------------------------------
(* Every file saved is intact.  The frames on their way to an end are read *)
(* from the file staged there to the file open at the other end: a header  *)
(* begins a file, and each chunk is the next one of the file that was      *)
(* begun last.                                                             *)

\* A place in the stream of frames: the file begun last, and how many of its chunks have
\* gone by.
Position == [header : FileHeader \union {None}, count : Nat]

\* Reading one frame.
Advances(before, m, after) ==
  /\ m.type = "Header" => after = [header |-> m.header, count |-> 0]
  /\ m.type = "Chunk" =>
       /\ before.header \in FileHeader
       /\ m.chunk = <<before.header.name, before.count + 1>>
       /\ before.count < before.header.size
       /\ after = [header |-> before.header, count |-> before.count + 1]
  /\ m.type \notin {"Header", "Chunk"} => after = before

\* Reading many.
Follows(s, at) ==
  /\ at \in [0..Len(s) -> Position]
  /\ \A i \in 1..Len(s) : Advances(at[i - 1], s[i], at[i])

Leads(s, before, after) == \E at : Follows(s, at) /\ at[0] = before /\ at[Len(s)] = after

\* The first n chunks of a file.
Prefix(header, n) == [i \in 1..n |-> <<header.name, i>>]

\* A staged file holds what has gone by of the file begun last.
Staged(half, before) ==
  half.receiver # None =>
    /\ half.receiver.header = before.header
    /\ half.receiver.data = Prefix(before.header, before.count)

\* An open file was begun last and is read up to what was written, or given up.
Opened(half, after) ==
  half.chunker # None =>
    /\ after.header = [name |-> half.chunker.name, size |-> half.chunker.size]
    /\ half.chunker.offset = after.count \/ half.chunker.offset = half.chunker.size

Fits(s, receiving, isUp, sending) ==
  \E before, after \in Position :
    /\ Leads(s, before, after)
    /\ Staged(receiving, before)
    /\ isUp => Opened(sending, after)

InStep == \A p \in Peer : Fits(net[p], rcv[p], up, snd[Other(p)])

-----------------------------------------------------------------------------
(* Reading frames.                                                         *)

LEMMA EmptyLeads ==
  ASSUME NEW before \in Position
  PROVE  Leads(<<>>, before, before)
<1> DEFINE at == [i \in 0..0 |-> before]
<1>1. Follows(<<>>, at) /\ at[0] = before
  BY DEF Follows
<1> QED
  BY <1>1 DEF Leads

LEMMA AppendLeads ==
  ASSUME NEW s \in Seq(Message), NEW before \in Position, NEW middle \in Position,
         Leads(s, before, middle), NEW m \in Message, NEW after \in Position,
         Advances(middle, m, after)
  PROVE  Leads(Append(s, m), before, after)
<1>1. PICK at : Follows(s, at) /\ at[0] = before /\ at[Len(s)] = middle
  BY DEF Leads
<1>2. PICK n \in Nat : n = Len(s)
  BY LenProperties
<1>3. PICK t \in Seq(Message) : t = Append(s, m)
  BY AppendProperties
<1>4. Len(t) = n + 1 /\ t[n + 1] = m /\ \A i \in 1..n : t[i] = s[i]
  BY <1>2, <1>3, AppendProperties
<1> DEFINE more == [i \in 0..(n + 1) |-> IF i = n + 1 THEN after ELSE at[i]]
<1>5. at \in [0..n -> Position] /\ \A i \in 1..n : Advances(at[i - 1], s[i], at[i])
  BY <1>1, <1>2 DEF Follows
<1>6. more \in [0..(n + 1) -> Position]
  BY <1>5
<1>7. /\ more[0] = before /\ more[n] = middle /\ more[n + 1] = after
      /\ \A i \in 1..n : more[i - 1] = at[i - 1] /\ more[i] = at[i]
  BY <1>1, <1>2
<1> HIDE DEF more
<1>8. ASSUME NEW i \in 1..(n + 1) PROVE Advances(more[i - 1], t[i], more[i])
  <2>1. CASE i = n + 1
    <3>1. i - 1 = n
      BY <2>1
    <3> QED
      BY <1>4, <1>7, <2>1, <3>1
  <2>2. CASE i # n + 1
    <3>1. i \in 1..n
      BY <2>2
    <3> QED
      BY <1>4, <1>5, <1>7, <3>1
  <2> QED
    BY <2>1, <2>2
<1>9. Follows(t, more)
  BY <1>4, <1>6, <1>8 DEF Follows
<1> QED
  BY <1>3, <1>4, <1>7, <1>9 DEF Leads

LEMMA ConcatLeads ==
  ASSUME NEW s \in Seq(Message), NEW t \in Seq(Message), NEW before, NEW middle, NEW after,
         Leads(s, before, middle), Leads(t, middle, after)
  PROVE  Leads(s \o t, before, after)
<1>1. PICK at : Follows(s, at) /\ at[0] = before /\ at[Len(s)] = middle
  BY DEF Leads
<1>2. PICK on : Follows(t, on) /\ on[0] = middle /\ on[Len(t)] = after
  BY DEF Leads
<1>3. PICK n \in Nat : n = Len(s)
  BY LenProperties
<1>4. PICK k \in Nat : k = Len(t)
  BY LenProperties
<1>5. PICK u \in Seq(Message) : u = s \o t
  BY ConcatProperties
<1>6. /\ Len(u) = n + k
      /\ \A i \in 1..(n + k) : u[i] = IF i <= n THEN s[i] ELSE t[i - n]
  BY <1>3, <1>4, <1>5, ConcatProperties
<1>7. /\ at \in [0..n -> Position] /\ \A i \in 1..n : Advances(at[i - 1], s[i], at[i])
      /\ on \in [0..k -> Position] /\ \A i \in 1..k : Advances(on[i - 1], t[i], on[i])
      /\ at[0] = before /\ at[n] = middle /\ on[0] = middle /\ on[k] = after
  BY <1>1, <1>2, <1>3, <1>4 DEF Follows
<1> DEFINE all == [i \in 0..(n + k) |-> IF i <= n THEN at[i] ELSE on[i - n]]
<1>8. all \in [0..(n + k) -> Position]
  <2> SUFFICES ASSUME NEW i \in 0..(n + k)
               PROVE (IF i <= n THEN at[i] ELSE on[i - n]) \in Position
    OBVIOUS
  <2>1. i <= n \/ i - n \in 0..k
    OBVIOUS
  <2> QED
    BY <1>7, <2>1
<1>9. /\ \A i \in 0..n : all[i] = at[i]
      /\ \A i \in 0..k : all[n + i] = on[i]
  <2>1. \A i \in 0..n : all[i] = at[i]
    OBVIOUS
  <2>2. ASSUME NEW i \in 0..k PROVE all[n + i] = on[i]
    <3>1. CASE i = 0
      BY <1>7, <3>1
    <3>2. CASE i # 0
      <4>1. n + i \in 0..(n + k) /\ ~(n + i <= n) /\ (n + i) - n = i
        BY <3>2
      <4> QED
        BY <4>1
    <3> QED
      BY <3>1, <3>2
  <2> QED
    BY <2>1, <2>2
<1> HIDE DEF all
<1>10. ASSUME NEW i \in 1..(n + k) PROVE Advances(all[i - 1], u[i], all[i])
  <2>1. CASE i <= n
    <3>1. i \in 1..n /\ i - 1 \in 0..n /\ i \in 0..n
      BY <2>1
    <3> QED
      BY <1>6, <1>7, <1>9, <2>1, <3>1
  <2>2. CASE i > n
    <3>1. PICK j \in 1..k : j = i - n
      BY <2>2
    <3>2. i = n + j /\ i - 1 = n + (j - 1) /\ j - 1 \in 0..k /\ j \in 0..k
      BY <3>1
    <3>3. all[i - 1] = on[j - 1] /\ all[i] = on[j] /\ u[i] = t[j]
      BY <1>6, <1>9, <2>2, <3>1, <3>2
    <3> QED
      BY <1>7, <3>3
  <2> QED
    BY <2>1, <2>2
<1>11. all[0] = before /\ all[n + k] = after
  BY <1>7, <1>9
<1>12. Follows(u, all)
  BY <1>6, <1>8, <1>10 DEF Follows
<1> QED
  BY <1>5, <1>6, <1>11, <1>12 DEF Leads

LEMMA TailLeads ==
  ASSUME NEW s \in Seq(Message), s # <<>>, NEW before, NEW after, Leads(s, before, after)
  PROVE  \E next \in Position : Advances(before, Head(s), next) /\ Leads(Tail(s), next, after)
<1>1. PICK at : Follows(s, at) /\ at[0] = before /\ at[Len(s)] = after
  BY DEF Leads
<1>2. PICK n \in Nat : n + 1 = Len(s)
  <2>1. Len(s) \in Nat /\ Len(s) # 0
    BY EmptySeq, LenProperties
  <2>2. Len(s) - 1 \in Nat /\ (Len(s) - 1) + 1 = Len(s)
    BY <2>1
  <2> QED
    BY <2>2
<1>3. PICK t \in Seq(Message) : t = Tail(s)
  BY HeadTailProperties
<1>4. Len(t) = n /\ Head(s) = s[1] /\ \A i \in 1..n : t[i] = s[i + 1]
  <2>1. /\ Len(t) = Len(s) - 1 /\ \A i \in 1..Len(t) : t[i] = s[i + 1] /\ Head(s) = s[1]
    BY <1>3, HeadTailProperties
  <2>2. Len(t) = n
    BY <1>2, <2>1
  <2>3. Head(s) = s[1]
    OBVIOUS
  <2> QED
    BY <2>1, <2>2, <2>3
<1>5. at \in [0..(n + 1) -> Position] /\ \A i \in 1..(n + 1) : Advances(at[i - 1], s[i], at[i])
  BY <1>1, <1>2 DEF Follows
<1> DEFINE rest == [i \in 0..n |-> at[i + 1]]
<1>6. rest \in [0..n -> Position]
  BY <1>5
<1>7. ASSUME NEW i \in 1..n PROVE Advances(rest[i - 1], t[i], rest[i])
  <2>1. i + 1 \in 1..(n + 1) /\ (i + 1) - 1 = i /\ i - 1 \in 0..n /\ (i - 1) + 1 = i /\ i \in 0..n
    OBVIOUS
  <2>2. rest[i - 1] = at[i] /\ rest[i] = at[i + 1]
    BY <2>1
  <2>3. Advances(at[(i + 1) - 1], s[i + 1], at[i + 1])
    BY <1>5, <2>1
  <2> HIDE DEF rest
  <2> QED
    BY <1>4, <2>1, <2>2, <2>3
<1>8. rest[0] = at[1] /\ rest[n] = after
  BY <1>1, <1>2
<1> HIDE DEF rest
<1>9. Follows(t, rest)
  BY <1>4, <1>6, <1>7 DEF Follows
<1>10. Leads(t, at[1], after)
  BY <1>4, <1>8, <1>9 DEF Leads
<1>11. Advances(before, Head(s), at[1]) /\ at[1] \in Position
  <2>1. 1 \in 1..(n + 1) /\ 1 - 1 = 0 /\ 1 \in 0..(n + 1)
    OBVIOUS
  <2> QED
    BY <1>1, <1>4, <1>5, <2>1
<1> QED
  BY <1>3, <1>10, <1>11

LEMMA PrefixLeads ==
  ASSUME NEW s \in Seq(Message), NEW n \in 0..Len(s), NEW before, NEW after,
         Leads(s, before, after)
  PROVE  \E middle \in Position : Leads(SubSeq(s, 1, n), before, middle)
<1>1. PICK at : Follows(s, at) /\ at[0] = before
  BY DEF Leads
<1>2. PICK k \in Nat : k = Len(s)
  BY LenProperties
<1>3. n \in Nat /\ n <= k
  BY <1>2
<1>4. PICK t \in Seq(Message) : t = SubSeq(s, 1, n) /\ Len(t) = n /\ \A i \in 1..n : t[i] = s[i]
  <2>1. n <= Len(s)
    BY <1>2, <1>3
  <2>2. /\ SubSeq(s, 1, n) \in Seq(Message) /\ Len(SubSeq(s, 1, n)) = n
        /\ \A i \in 1..n : SubSeq(s, 1, n)[i] = s[i]
    BY <1>3, <2>1, SubSeqProperties
  <2> QED
    BY <2>2
<1>5. at \in [0..k -> Position] /\ \A i \in 1..k : Advances(at[i - 1], s[i], at[i])
  BY <1>1, <1>2 DEF Follows
<1> DEFINE some == [i \in 0..n |-> at[i]]
<1>6. some \in [0..n -> Position] /\ some[0] = before /\ some[n] \in Position
  BY <1>1, <1>3, <1>5
<1>7. ASSUME NEW i \in 1..n PROVE Advances(some[i - 1], t[i], some[i])
  <2>1. i \in 1..k /\ some[i - 1] = at[i - 1] /\ some[i] = at[i]
    BY <1>3
  <2> HIDE DEF some
  <2> QED
    BY <1>4, <1>5, <2>1
<1> HIDE DEF some
<1>8. Follows(t, some)
  BY <1>4, <1>6, <1>7 DEF Follows
<1> QED
  BY <1>4, <1>6, <1>8 DEF Leads

\* Frames that are about no file.
Quiet == {m \in Message : m.type \notin {"Header", "Chunk"}}

LEMMA QuietConstructors ==
  /\ \A m \in Manifest : <<[type |-> "Request", manifest |-> m]>> \in Seq(Quiet)
  /\ \A b \in BOOLEAN : <<[type |-> "Response", accepted |-> b]>> \in Seq(Quiet)
  /\ \A b \in BOOLEAN : <<[type |-> "Progress", whole |-> b]>> \in Seq(Quiet)
  /\ \A t \in {"Partition", "PartitionReceived", "FileTransferComplete", "Closed"} :
       <<[type |-> t]>> \in Seq(Quiet)
  /\ <<>> \in Seq(Quiet)
<1>1. /\ \A m \in Manifest : [type |-> "Request", manifest |-> m] \in Quiet
      /\ \A b \in BOOLEAN : [type |-> "Response", accepted |-> b] \in Quiet
      /\ \A b \in BOOLEAN : [type |-> "Progress", whole |-> b] \in Quiet
      /\ \A t \in {"Partition", "PartitionReceived", "FileTransferComplete", "Closed"} :
           [type |-> t] \in Quiet
  BY MessageConstructors DEF Quiet
<1>2. \A m \in Quiet : <<m>> \in Seq(Quiet)
  OBVIOUS
<1> QED
  BY <1>1, <1>2

LEMMA QuietLeads ==
  ASSUME NEW frames \in Seq(Quiet), NEW before \in Position
  PROVE  frames \in Seq(Message) /\ Leads(frames, before, before)
<1>1. frames \in Seq(Message)
  BY SeqMonotonic DEF Quiet
<1>2. PICK n \in Nat : n = Len(frames)
  BY LenProperties
<1> DEFINE at == [i \in 0..n |-> before]
<1>3. ASSUME NEW i \in 1..n PROVE Advances(at[i - 1], frames[i], at[i])
  <2>1. frames[i] \in Quiet
    BY <1>2, ElementOfSeq
  <2> QED
    BY <2>1 DEF Quiet, Advances
<1>4. at \in [0..n -> Position] /\ at[0] = before /\ at[n] = before
  OBVIOUS
<1> HIDE DEF at
<1>5. Follows(frames, at)
  BY <1>2, <1>3, <1>4 DEF Follows
<1> QED
  BY <1>1, <1>2, <1>4, <1>5 DEF Leads

LEMMA HeaderLeads ==
  ASSUME NEW header \in FileHeader, NEW before \in Position
  PROVE  /\ <<[type |-> "Header", header |-> header]>> \in Seq(Message)
         /\ Leads(<<[type |-> "Header", header |-> header]>>, before,
                  [header |-> header, count |-> 0])
<1>1. PICK m \in Message : m = [type |-> "Header", header |-> header]
  BY MessageConstructors
<1>2. PICK after \in Position : after = [header |-> header, count |-> 0]
  BY DEF Position
<1>3. Advances(before, m, after)
  BY <1>1, <1>2 DEF Advances
<1>4. Append(<<>>, m) = <<m>>
  OBVIOUS
<1>5. Leads(<<m>>, before, after)
  <2>1. <<>> \in Seq(Message) /\ Leads(<<>>, before, before)
    BY EmptyLeads
  <2>2. Leads(Append(<<>>, m), before, after)
    BY <1>3, <2>1, AppendLeads
  <2> QED
    BY <1>4, <2>2
<1> QED
  BY <1>1, <1>2, <1>5

LEMMA ChunksLeads ==
  ASSUME NEW header \in FileHeader, NEW k \in Nat, NEW last \in Nat, NEW grown \in BOOLEAN, k <= last,
         last <= header.size
  PROVE  /\ ChunksOf(header.name, k + 1, last, grown) \in Seq(Message)
         /\ Leads(ChunksOf(header.name, k + 1, last, grown), [header |-> header, count |-> k],
                  [header |-> header, count |-> last])
<1>1. header.name \in File /\ header.size \in Nat
  BY DEF FileHeader
<1>2. ChunksOf(header.name, k + 1, last, grown) \in Seq(Message)
  <2>1. k + 1 \in Nat /\ k + 1 <= last + 1
    OBVIOUS
  <2> QED
    BY <1>1, <2>1, ChunksType
<1>3. PICK n \in Nat : n = last - k
  OBVIOUS
<1>4. PICK s \in Seq(Message) : s = ChunksOf(header.name, k + 1, last, grown)
  BY <1>2
<1>5. /\ Len(s) = n
      /\ \A i \in 1..n : s[i].type = "Chunk" /\ s[i].chunk = <<header.name, k + i>>
  <2>1. last - (k + 1) + 1 = n
    BY <1>3
  <2>2. s = [i \in 1..n |-> [type |-> "Chunk", chunk |-> <<header.name, (k + 1) + i - 1>>,
                              over |-> grown /\ i = n]]
    BY <1>4, <2>1, Zenon DEF ChunksOf
  <2>3. \A i \in 1..n : (k + 1) + i - 1 = k + i
    OBVIOUS
  <2>4. Len(s) \in Nat /\ DOMAIN s = 1..Len(s)
    BY LenProperties
  <2>5. DOMAIN s = 1..n
    BY <2>2, Zenon
  <2>6. Len(s) = n
    <3>1. PICK m \in Nat : m = Len(s) /\ 1..m = 1..n
      BY <2>4, <2>5
    <3>2. m = 0 \/ m \in 1..n
      BY <3>1
    <3>3. n = 0 \/ n \in 1..m
      BY <3>1
    <3> QED
      BY <3>1, <3>2, <3>3
  <2>7. \A i \in 1..n :
          s[i].type = "Chunk" /\ s[i].chunk = <<header.name, (k + 1) + i - 1>>
    <3> TAKE i \in 1..n
    <3>1. s[i] = [type |-> "Chunk", chunk |-> <<header.name, (k + 1) + i - 1>>,
                  over |-> grown /\ i = n]
      BY <2>2, Zenon
    <3> QED
      BY <3>1
  <2>8. ASSUME NEW i \in 1..n
        PROVE  s[i].type = "Chunk" /\ s[i].chunk = <<header.name, k + i>>
    <3>1. s[i].type = "Chunk" /\ s[i].chunk = <<header.name, (k + 1) + i - 1>>
      BY <2>7
    <3>2. (k + 1) + i - 1 = k + i
      BY <2>3
    <3> QED
      BY <3>1, <3>2, Zenon
  <2> QED
    BY <2>6, <2>8
<1> DEFINE at == [i \in 0..n |-> [header |-> header, count |-> k + i]]
<1>6. at \in [0..n -> Position]
  BY DEF Position
<1>7. ASSUME NEW i \in 1..n PROVE Advances(at[i - 1], s[i], at[i])
  <2>1. i - 1 \in 0..n /\ i \in 0..n /\ k + (i - 1) \in Nat
        /\ (k + (i - 1)) + 1 = k + i /\ k + (i - 1) < header.size
    BY <1>1, <1>3
  <2> DEFINE j == k + (i - 1)
  <2>2. at[i - 1] = [header |-> header, count |-> j]
        /\ at[i] = [header |-> header, count |-> j + 1]
        /\ s[i].type = "Chunk" /\ s[i].chunk = <<header.name, j + 1>>
        /\ j < header.size
    BY <1>5, <2>1
  <2> HIDE DEF at, j
  <2> QED
    BY <2>2 DEF Advances
<1>8. at[0] = [header |-> header, count |-> k] /\ at[n] = [header |-> header, count |-> last]
  BY <1>3
<1> HIDE DEF at
<1>9. Follows(s, at)
  BY <1>5, <1>6, <1>7 DEF Follows
<1> QED
  BY <1>4, <1>5, <1>8, <1>9 DEF Leads

-----------------------------------------------------------------------------
(* How a step changes the frames.                                          *)

\* A handler consumes a frame, and what it writes is read on from where the frames on
\* their way to the other end had led.
LEMMA ExchangeInStep ==
  ASSUME TypeInv, InStep, NEW p \in Peer, net[p] # <<>>, NEW frames \in Seq(Message),
         Exchange(p, frames), UNCHANGED up,
         NEW half, rcv' = [rcv EXCEPT ![p] = half],
         NEW sender, snd' = [snd EXCEPT ![p] = sender],
         \A before, after \in Position :
           Staged(rcv[p], before) /\ Advances(before, Head(net[p]), after) =>
             Staged(half, after),
         up => \A middle \in Position : Opened(snd[p], middle) =>
                 \E after \in Position : Leads(frames, middle, after) /\ Opened(sender, after)
  PROVE  InStep'
<1>1. PICK q \in Peer : /\ q = Other(p) /\ q # p /\ Other(q) = p
                        /\ \A o \in Peer : o = p \/ o = q
  BY TwoPeers
<1>2. /\ net \in [Peer -> Seq(Message)] /\ net[p] \in Seq(Message) /\ net[q] \in Seq(Message)
      /\ snd \in [Peer -> Sender] /\ rcv \in [Peer -> Incoming] /\ up \in BOOLEAN
  BY DEF TypeInv, TypeOK
<1>3. net'[p] = Tail(net[p]) /\ net'[q] = net[q] \o Written(frames)
  BY <1>1, <1>2 DEF Exchange
<1>4. /\ rcv'[p] = half /\ rcv'[q] = rcv[q] /\ snd'[p] = sender /\ snd'[q] = snd[q]
      /\ up' = up
  BY <1>1, <1>2
<1>5. Fits(net'[p], half, up, snd[q])
  <2>1. Fits(net[p], rcv[p], up, snd[q])
    BY <1>1 DEF InStep
  <2>2. PICK before \in Position, after \in Position :
          Leads(net[p], before, after) /\ Staged(rcv[p], before) /\ (up => Opened(snd[q], after))
    BY <2>1 DEF Fits
  <2>3. PICK next \in Position :
          Advances(before, Head(net[p]), next) /\ Leads(Tail(net[p]), next, after)
    BY <1>2, <2>2, TailLeads
  <2>4. Staged(half, next)
    BY <2>2, <2>3
  <2> QED
    BY <1>3, <2>2, <2>3, <2>4 DEF Fits
<1>6. Fits(net'[q], rcv[q], up, sender)
  <2>1. Fits(net[q], rcv[q], up, snd[p])
    BY <1>1 DEF InStep
  <2>2. PICK before \in Position, middle \in Position :
          Leads(net[q], before, middle) /\ Staged(rcv[q], before) /\ (up => Opened(snd[p], middle))
    BY <2>1 DEF Fits
  <2>3. PICK after \in Position : Leads(Written(frames), middle, after) /\ (up => Opened(sender, after))
    <3>1. CASE up
      <4>1. Written(frames) = frames
        BY <3>1 DEF Written
      <4> QED
        BY <2>2, <3>1, <4>1
    <3>2. CASE ~up
      <4>1. Written(frames) = <<>>
        BY <3>2 DEF Written
      <4> QED
        BY <3>2, <4>1, EmptyLeads
    <3> QED
      BY <3>1, <3>2
  <2>4. Written(frames) \in Seq(Message)
    BY DEF Written
  <2>5. Leads(net[q] \o Written(frames), before, after)
    BY <1>2, <2>2, <2>3, <2>4, ConcatLeads
  <2> QED
    BY <1>3, <2>2, <2>3, <2>5 DEF Fits
<1> QED
  BY <1>1, <1>4, <1>5, <1>6 DEF InStep

\* A command writes no file, and leaves alone what is staged and what is open.
LEMMA WriteInStep ==
  ASSUME TypeInv, InStep, NEW p \in Peer, NEW frames \in Seq(Quiet), Write(p, frames),
         UNCHANGED up,
         NEW half, rcv' = [rcv EXCEPT ![p] = half], half.receiver = rcv[p].receiver,
         NEW sender, snd' = [snd EXCEPT ![p] = sender], sender.chunker = snd[p].chunker
  PROVE  InStep'
<1>1. PICK q \in Peer : /\ q = Other(p) /\ q # p /\ Other(q) = p
                        /\ \A o \in Peer : o = p \/ o = q
  BY TwoPeers
<1>2. /\ net \in [Peer -> Seq(Message)] /\ net[p] \in Seq(Message) /\ net[q] \in Seq(Message)
      /\ snd \in [Peer -> Sender] /\ rcv \in [Peer -> Incoming] /\ up \in BOOLEAN
  BY DEF TypeInv, TypeOK
<1>3. net'[p] = net[p] /\ net'[q] = net[q] \o Written(frames)
  BY <1>1, <1>2 DEF Write
<1>4. /\ rcv'[p] = half /\ rcv'[q] = rcv[q] /\ snd'[p] = sender /\ snd'[q] = snd[q]
      /\ up' = up
  BY <1>1, <1>2
<1>5. Fits(net'[p], half, up, snd[q])
  BY <1>1, <1>3 DEF InStep, Fits, Staged
<1>6. Fits(net'[q], rcv[q], up, sender)
  <2>1. Fits(net[q], rcv[q], up, snd[p])
    BY <1>1 DEF InStep
  <2>2. PICK before \in Position, after \in Position :
          Leads(net[q], before, after) /\ Staged(rcv[q], before) /\ (up => Opened(snd[p], after))
    BY <2>1 DEF Fits
  <2>3. Written(frames) \in Seq(Quiet)
    BY DEF Written
  <2>4. Written(frames) \in Seq(Message) /\ Leads(Written(frames), after, after)
    BY <2>3, QuietLeads
  <2>5. Leads(net[q] \o Written(frames), before, after)
    BY <1>2, <2>2, <2>4, ConcatLeads
  <2>6. up => Opened(sender, after)
    BY <2>2 DEF Opened
  <2> QED
    BY <1>3, <2>2, <2>5, <2>6 DEF Fits
<1> QED
  BY <1>1, <1>4, <1>5, <1>6 DEF InStep

LEMMA QuietHead ==
  ASSUME NEW m \in Quiet, NEW half, NEW more, more.receiver = half.receiver
  PROVE  \A before, after \in Position :
           Staged(half, before) /\ Advances(before, m, after) => Staged(more, after)
BY DEF Quiet, Advances, Staged

\* Whatever arrives, an end that fails has nothing staged and nothing open.
LEMMA FailInStep ==
  ASSUME TypeInv, InStep, NEW p \in Peer, net[p] # <<>>, NEW frames \in Seq(Message),
         NEW pushed, Fail(p, frames, pushed),
         \A middle \in Position : \E after \in Position : Leads(frames, middle, after)
  PROVE  InStep'
<1>1. PICK half : half = ResetRcv(p)
  OBVIOUS
<1>2. PICK sender : sender = ResetSnd(p)
  OBVIOUS
<1>3. half.receiver = None /\ sender.chunker = None
  BY <1>1, <1>2 DEF ResetRcv, ResetSnd, FreshRcv, FreshSnd
<1>4. /\ Exchange(p, frames) /\ UNCHANGED up
      /\ rcv' = [rcv EXCEPT ![p] = half] /\ snd' = [snd EXCEPT ![p] = sender]
  BY <1>1, <1>2 DEF Fail
<1>5. \A before, after \in Position :
        Staged(rcv[p], before) /\ Advances(before, Head(net[p]), after) => Staged(half, after)
  BY <1>3 DEF Staged
<1>6. \A middle \in Position : \E after \in Position :
        Leads(frames, middle, after) /\ Opened(sender, after)
  BY <1>3 DEF Opened
<1> QED
  BY <1>4, <1>5, <1>6, ExchangeInStep

\* What is written of an open file is read as its next chunks.
LEMMA PartitionLeads ==
  ASSUME NEW c \in Chunker, NEW last \in c.offset..PartitionEnd(c), NEW grown \in BOOLEAN, NEW middle \in Position,
         middle.header = [name |-> c.name, size |-> c.size],
         c.offset = middle.count \/ c.offset = c.size
  PROVE  /\ ChunksOf(c.name, c.offset + 1, last, grown) \in Seq(Message)
         /\ \E after \in Position :
              /\ Leads(ChunksOf(c.name, c.offset + 1, last, grown), middle, after)
              /\ after.header = middle.header
              /\ Reading(c, last).offset = after.count \/ Reading(c, last).offset = c.size
<1>1. /\ c.name \in File /\ c.size \in Nat /\ c.offset \in Nat /\ last \in Nat
      /\ c.offset <= last /\ last <= c.size /\ middle.header \in FileHeader
      /\ Reading(c, last).offset \in {last, c.size}
  <2>1. PartitionEnd(c) \in Nat /\ c.offset <= PartitionEnd(c) /\ PartitionEnd(c) <= c.size
    BY PartitionEndType
  <2>2. c.name \in File /\ c.size \in Nat /\ c.offset \in Nat
    BY DEF Chunker
  <2>3. middle.header \in FileHeader
    BY <2>2 DEF FileHeader
  <2>4. Reading(c, last).offset \in {last, c.size}
    BY DEF Reading, Chunker
  <2> QED
    BY <2>1, <2>2, <2>3, <2>4
<1>2. ChunksOf(c.name, c.offset + 1, last, grown) \in Seq(Message)
  <2>1. c.offset + 1 \in Nat /\ c.offset + 1 <= last + 1
    BY <1>1
  <2> QED
    BY <1>1, <2>1, ChunksType
<1>3. CASE c.offset = middle.count
  <2>1. PICK h \in FileHeader : h = middle.header /\ h.name = c.name /\ h.size = c.size
    BY <1>1
  <2>2. PICK after \in Position : after = [header |-> h, count |-> last]
    BY <1>1 DEF Position
  <2>3. middle = [header |-> h, count |-> c.offset]
    BY <1>3, <2>1 DEF Position
  <2>4. PICK k \in Nat : k = c.offset
    BY <1>1
  <2>5. Leads(ChunksOf(h.name, k + 1, last, grown), [header |-> h, count |-> k],
              [header |-> h, count |-> last])
    BY <1>1, <2>1, <2>4, ChunksLeads
  <2>6. Leads(ChunksOf(c.name, c.offset + 1, last, grown), middle, after)
    BY <2>1, <2>2, <2>3, <2>4, <2>5
  <2>7. after.header = middle.header /\ after.count = last
    BY <2>1, <2>2
  <2> QED
    BY <1>1, <1>2, <2>6, <2>7
<1>4. CASE c.offset # middle.count
  <2>1. last = c.size /\ c.offset = c.size
    BY <1>1, <1>4
  <2>2. last - (c.offset + 1) + 1 = 0
    BY <1>1, <2>1
  <2>3. ChunksOf(c.name, c.offset + 1, last, grown) = <<>>
    <3>1. ChunksOf(c.name, c.offset + 1, last, grown) =
            [i \in 1..0 |-> [type |-> "Chunk", chunk |-> <<c.name, (c.offset + 1) + i - 1>>,
                             over |-> grown /\ i = 0]]
      BY <2>2, Zenon DEF ChunksOf
    <3>2. Len(ChunksOf(c.name, c.offset + 1, last, grown)) = 0
      BY <1>2, <3>1
    <3> QED
      BY <1>2, <3>2, EmptySeq
  <2>4. Reading(c, last).offset = c.size
    BY <1>1, <2>1
  <2> QED
    BY <1>2, <2>3, <2>4, EmptyLeads
<1> QED
  BY <1>3, <1>4

LEMMA PutPartitionInStep ==
  ASSUME TypeInv, InStep, NEW p \in Peer, net[p] # <<>>, Head(net[p]) \in Quiet,
         NEW s \in Sender, s.chunker \in Chunker, NEW act, NEW header \in Seq(Message),
         NEW pushed, NEW last \in s.chunker.offset..PartitionEnd(s.chunker), NEW grown \in BOOLEAN,
         PutPartition(p, s, act, header, pushed, last, grown),
         \A middle \in Position : Opened(snd[p], middle) =>
           \E after \in Position : Leads(header, middle, after) /\ Opened(s, after)
  PROVE  InStep'
<1>1. PICK c \in Chunker : c = s.chunker
  OBVIOUS
<1>2. PICK chunks : chunks = ChunksOf(c.name, c.offset + 1, last, grown)
  OBVIOUS
<1>3. PICK pause \in Seq(Quiet) :
        pause = IF Reading(c, last).offset < c.size THEN <<[type |-> "Partition"]>> ELSE <<>>
  BY QuietConstructors
<1>4. Exchange(p, header \o chunks \o pause) /\ UNCHANGED <<rcv, up>>
  BY <1>1, <1>2, <1>3 DEF PutPartition
<1>5. PICK sender : /\ snd' = [snd EXCEPT ![p] = sender]
                    /\ up => sender.chunker = Reading(c, last)
  <2>1. \E written \in WriteOutcomes :
          \/ /\ written
             /\ \E sent : snd' = [snd EXCEPT ![p] = [s EXCEPT !.chunker = Reading(c, last),
                                                              !.sentIn = sent]]
          \/ ~written /\ \E some : snd' = [snd EXCEPT ![p] = some]
    BY <1>1, Zenon DEF PutPartition
  <2>2. CASE \E some : ~up /\ snd' = [snd EXCEPT ![p] = some]
    BY <2>2
  <2>3. CASE \E sent : snd' = [snd EXCEPT ![p] = [s EXCEPT !.chunker = Reading(c, last),
                                                           !.sentIn = sent]]
    <3>1. PICK sent : snd' = [snd EXCEPT ![p] = [s EXCEPT !.chunker = Reading(c, last),
                                                           !.sentIn = sent]]
      BY <2>3
    <3>2. [s EXCEPT !.chunker = Reading(c, last), !.sentIn = sent].chunker = Reading(c, last)
      BY DEF Sender
    <3> QED
      BY <3>1, <3>2
  <2> QED
    BY <2>1, <2>2, <2>3 DEF WriteOutcomes
<1>6. chunks \in Seq(Message) /\ pause \in Seq(Message)
  <2>1. c.offset \in Nat /\ c.name \in File /\ last \in Nat /\ c.offset <= last
    BY <1>1, PartitionEndType DEF Chunker
  <2>2. c.offset + 1 \in Nat /\ c.offset + 1 <= last + 1
    BY <2>1
  <2>3. pause \in Seq(Message)
    BY <1>3, SeqMonotonic DEF Quiet
  <2> QED
    BY <1>2, <2>1, <2>2, <2>3, ChunksType
<1>7. ASSUME up, NEW middle \in Position, Opened(snd[p], middle)
      PROVE  \E after \in Position :
               Leads(header \o chunks \o pause, middle, after) /\ Opened(sender, after)
  <2>1. PICK begun \in Position : Leads(header, middle, begun) /\ Opened(s, begun)
    BY <1>7
  <2>2. /\ begun.header = [name |-> c.name, size |-> c.size]
        /\ c.offset = begun.count \/ c.offset = c.size
    BY <1>1, <2>1, NoneAssumption DEF Opened, Chunker
  <2>3. PICK after \in Position :
          /\ Leads(chunks, begun, after) /\ after.header = begun.header
          /\ Reading(c, last).offset = after.count \/ Reading(c, last).offset = c.size
    BY <1>1, <1>2, <2>2, PartitionLeads
  <2>4. Leads(header \o chunks, middle, after) /\ header \o chunks \in Seq(Message)
    BY <1>6, <2>1, <2>3, ConcatLeads, ConcatProperties
  <2>5. Leads(pause, after, after)
    BY <1>3, QuietLeads
  <2>6. Leads((header \o chunks) \o pause, middle, after)
    BY <1>6, <2>4, <2>5, ConcatLeads
  <2>7. Reading(c, last).name = c.name /\ Reading(c, last).size = c.size
    BY DEF Reading, Chunker
  <2>8. Opened(sender, after)
    BY <1>5, <1>7, <2>2, <2>3, <2>7 DEF Opened
  <2> QED
    BY <2>6, <2>8
<1>8. rcv' = [rcv EXCEPT ![p] = rcv[p]]
  BY <1>4 DEF TypeInv, TypeOK
<1>9. \A before, after \in Position :
        Staged(rcv[p], before) /\ Advances(before, Head(net[p]), after) => Staged(rcv[p], after)
  BY QuietHead
<1>10. PICK frames \in Seq(Message) : frames = header \o chunks \o pause
  BY <1>6, ConcatProperties
<1>11. Exchange(p, frames) /\ UNCHANGED up
  BY <1>4, <1>10
<1>12. up => \A middle \in Position : Opened(snd[p], middle) =>
         \E after \in Position : Leads(frames, middle, after) /\ Opened(sender, after)
  BY <1>7, <1>10
<1> QED
  BY <1>5, <1>8, <1>9, <1>11, <1>12, ExchangeInStep

LEMMA NextFileInStep ==
  ASSUME TypeInv, InStep, NEW p \in Peer, net[p] # <<>>, Head(net[p]) \in Quiet,
         NEW s \in Sender, s.queue # <<>>, NEW act, NEW pushed, NextFile(p, s, act, pushed)
  PROVE  InStep'
<1> DEFINE name == Head(s.queue)
           chunker(size) == [name |-> name, size |-> size, offset |-> 0]
           open(size) == [s EXCEPT !.queue = Tail(@), !.sentIn = 0,
                                   !.chunker = chunker(size)]
           header(size) ==
             <<[type |-> "Header", header |-> [name |-> name, size |-> size]]>>
<1>1. name \in File /\ Tail(s.queue) \in Seq(File)
  BY HeadTailProperties DEF Sender
<1>2. Size[name] \in Nat
  BY <1>1, SizeAssumption
<1>3. \A size \in Nat : /\ chunker(size) \in Chunker
                        /\ open(size) \in Sender
                        /\ open(size).chunker = chunker(size)
                        /\ chunker(size).offset = 0
  <2> TAKE size \in Nat
  <2>1. chunker(size) \in Chunker /\ chunker(size).offset = 0
    BY <1>1 DEF Chunker
  <2> HIDE DEF chunker
  <2> QED
    BY <1>1, <2>1 DEF Sender
<1>4. ASSUME NEW size \in Nat, NEW middle \in Position
      PROVE  \E after \in Position :
               Leads(header(size), middle, after) /\ Opened(open(size), after)
  <2>1. PICK h \in FileHeader : h = [name |-> name, size |-> size]
    BY <1>1 DEF FileHeader
  <2>2. PICK after \in Position : after = [header |-> h, count |-> 0]
    BY DEF Position
  <2>3. Leads(header(size), middle, after)
    BY <2>1, <2>2, HeaderLeads
  <2>4. open(size).chunker = [name |-> name, size |-> size, offset |-> 0]
    BY <1>3
  <2>5. Opened(open(size), after)
    <3> HIDE DEF open
    <3> QED
      BY <2>1, <2>2, <2>4 DEF Opened
  <2> QED
    BY <2>3, <2>5
<1>5. \A size \in Nat : header(size) \in Seq(Message)
  BY <1>1, MessageConstructors DEF FileHeader
<1>6. \A size \in Nat : PartitionEnd(open(size).chunker) \in Nat
  BY <1>3, PartitionEndType
<1>7. CASE \E size \in Nat : \E last \in 0..PartitionEnd(open(size).chunker), grown \in BOOLEAN :
             PutPartition(p, open(size), act, header(size), pushed, last, grown)
  <2> PICK size \in Nat : \E last \in 0..PartitionEnd(open(size).chunker), grown \in BOOLEAN :
             PutPartition(p, open(size), act, header(size), pushed, last, grown)
    BY <1>7
  <2> PICK last \in 0..PartitionEnd(open(size).chunker), grown \in BOOLEAN :
             PutPartition(p, open(size), act, header(size), pushed, last, grown)
    OBVIOUS
  <2>1. PICK half \in Sender, frames \in Seq(Message) :
          /\ half = open(size) /\ frames = header(size)
          /\ half.chunker \in Chunker /\ half.chunker.offset = 0
    <3> HIDE DEF open, header, chunker
    <3> QED
      BY <1>3, <1>5
  <2>2. last \in half.chunker.offset..PartitionEnd(half.chunker)
    BY <2>1, Zenon
  <2>3. PutPartition(p, half, act, frames, pushed, last, grown)
    BY <2>1, Zenon
  <2>4. \A middle \in Position :
          \E after \in Position : Leads(frames, middle, after) /\ Opened(half, after)
    BY <1>4, <2>1, Zenon
  <2> HIDE DEF open, header, chunker
  <2> QED
    BY <2>1, <2>2, <2>3, <2>4, PutPartitionInStep
<1>8. CASE Fail(p, <<>>, pushed) \/ Fail(p, header(Size[name]), pushed)
  <2>1. /\ <<>> \in Seq(Message) /\ header(Size[name]) \in Seq(Message)
        /\ \A middle \in Position : Leads(<<>>, middle, middle)
    BY <1>2, <1>5, EmptyLeads
  <2> HIDE DEF open, header, chunker
  <2>2. \A middle \in Position : \E after \in Position :
          Leads(header(Size[name]), middle, after)
    BY <1>2, <1>4
  <2> QED
    BY <1>8, <2>1, <2>2, FailInStep
<1>9. \/ \E size \in Nat : \E last \in 0..PartitionEnd(open(size).chunker), grown \in BOOLEAN :
             PutPartition(p, open(size), act, header(size), pushed, last, grown)
      \/ Fail(p, <<>>, pushed) \/ Fail(p, header(Size[name]), pushed)
  <2>1. \A size \in 0..(Size[name] + 1) \ {Size[name]} : size \in Nat
    BY <1>2
  <2>2. \A size \in Nat :
          /\ PartitionEnd(open(size).chunker) \in 0..PartitionEnd(open(size).chunker)
          /\ \A last \in 0..(PartitionEnd(open(size).chunker) - 1) :
               last \in 0..PartitionEnd(open(size).chunker)
    <3>1. \A n \in Nat : n \in 0..n /\ \A last \in 0..(n - 1) : last \in 0..n
      OBVIOUS
    <3> HIDE DEF open
    <3> QED
      BY <1>6, <3>1, Zenon
  <2> QED
    BY <1>2, <2>1, <2>2, Zenon DEF NextFile
<1> QED
  BY <1>7, <1>8, <1>9

-----------------------------------------------------------------------------
(* The steps of the sending half and of the two users.                     *)

LEMMA QuietArrives ==
  ASSUME TypeInv, NEW p \in Peer, NEW type, Arrives(p, type), type \notin {"Header", "Chunk"}
  PROVE  net[p] # <<>> /\ Head(net[p]) \in Quiet
BY HeadMessage DEF Arrives, Quiet, TypeInv, TypeOK

\* A quiet frame is taken, quiet frames are written, and no file is begun or closed.
LEMMA QuietInStep ==
  ASSUME TypeInv, InStep, NEW p \in Peer, net[p] # <<>>, Head(net[p]) \in Quiet,
         NEW frames \in Seq(Quiet), Exchange(p, frames), UNCHANGED up,
         NEW half, rcv' = [rcv EXCEPT ![p] = half], half.receiver = rcv[p].receiver,
         NEW sender, snd' = [snd EXCEPT ![p] = sender],
         sender.chunker \in {snd[p].chunker, None}
  PROVE  InStep'
<1>1. frames \in Seq(Message) /\ \A middle \in Position : Leads(frames, middle, middle)
  BY QuietLeads, EmptyLeads, SeqMonotonic DEF Quiet
<1>2. \A middle \in Position : Opened(snd[p], middle) => Opened(sender, middle)
  BY DEF Opened
<1>3. \A before, after \in Position :
        Staged(rcv[p], before) /\ Advances(before, Head(net[p]), after) => Staged(half, after)
  BY QuietHead
<1> QED
  BY <1>1, <1>2, <1>3, ExchangeInStep

LEMMA SameHalves ==
  ASSUME TypeInv, NEW p \in Peer
  PROVE  /\ UNCHANGED rcv => rcv' = [rcv EXCEPT ![p] = rcv[p]]
         /\ UNCHANGED snd => snd' = [snd EXCEPT ![p] = snd[p]]
BY DEF TypeInv, TypeOK

LEMMA SendingInStep ==
  ASSUME TypeInv, InStep, NEW p \in Peer,
         RcvAccepted(p) \/ RcvPartitionReceived(p) \/ RcvFileTransferComplete(p)
  PROVE  InStep'
<1>1. net[p] # <<>> /\ Head(net[p]) \in Quiet
  BY QuietArrives DEF RcvAccepted, RcvPartitionReceived, RcvFileTransferComplete
<1>2. snd[p] \in Sender /\ <<>> \in Seq(Quiet) /\ <<>> \in Seq(Message)
  BY QuietConstructors DEF TypeInv, TypeOK
<1>3. CASE RcvAccepted(p)
  <2> DEFINE half == [snd[p] EXCEPT !.queue = snd[p].requested, !.requested = <<>>,
                                    !.sentBefore = 0, !.filesSent = 0]
             pushed == <<[kind |-> "SendProgress", whole |-> FALSE]>>
  <2>1. snd[p].requested # <<>>
    BY <1>3 DEF RcvAccepted, TypeInv, AwaitsWithFiles
  <2>2. half \in Sender /\ half.queue # <<>>
    <3>1. <<>> \in Seq(File)
      OBVIOUS
    <3> QED
      BY <1>2, <2>1, <3>1 DEF Sender
  <2>3. NextFile(p, half, "Sending", pushed)
    BY <1>3 DEF RcvAccepted
  <2> HIDE DEF half, pushed
  <2> QED
    BY <1>1, <2>2, <2>3, NextFileInStep
<1>4. CASE RcvPartitionReceived(p)
  <2> DEFINE c == snd[p].chunker
  <2>1. CASE c = None
    <3>1. Exchange(p, <<>>) /\ UNCHANGED <<snd, rcv, up>>
      BY <1>4, <2>1, Zenon DEF RcvPartitionReceived
    <3> QED
      BY <1>1, <1>2, <3>1, SameHalves, QuietInStep
  <2>2. CASE c # None
    <3>1. c \in Chunker
      BY <1>2, <2>2 DEF Sender
    <3>2. PartitionEnd(c) \in Nat /\ c.offset \in Nat /\ c.offset <= PartitionEnd(c)
      BY <3>1, PartitionEndType DEF Chunker
    <3>3. /\ PartitionEnd(c) \in c.offset..PartitionEnd(c)
          /\ \A last \in c.offset..(PartitionEnd(c) - 1) : last \in c.offset..PartitionEnd(c)
      BY <3>2
    <3>4. \/ \E last \in c.offset..PartitionEnd(c), grown \in BOOLEAN :
               PutPartition(p, snd[p], activity[p], <<>>, <<>>, last, grown)
          \/ Fail(p, <<>>, <<>>)
      BY <1>4, <2>2, <3>3, Zenon DEF RcvPartitionReceived
    <3>5. \A middle \in Position : Leads(<<>>, middle, middle)
      BY EmptyLeads
    <3> QED
      BY <1>1, <1>2, <3>1, <3>4, <3>5, PutPartitionInStep, FailInStep
  <2> QED
    BY <2>1, <2>2
<1>5. CASE RcvFileTransferComplete(p)
  <2> DEFINE counted == [snd[p] EXCEPT !.sentBefore = @ + snd[p].sentIn, !.sentIn = 0,
                                       !.filesSent = @ + 1, !.chunker = None]
             done == [counted EXCEPT !.filesSent = 0]
  <2>1. counted \in Sender /\ counted.queue = snd[p].queue /\ done.chunker = None
    <3>1. snd[p].sentBefore + snd[p].sentIn \in Nat /\ snd[p].filesSent + 1 \in Nat
      BY <1>2 DEF Sender
    <3> QED
      BY <1>2, <3>1 DEF Sender
  <2>2. \/ snd[p].queue # <<>> /\ NextFile(p, counted, activity[p], <<>>)
        \/ /\ Exchange(p, <<>>) /\ UNCHANGED <<rcv, up>>
           /\ snd' = [snd EXCEPT ![p] = done]
    BY <1>5, Zenon DEF RcvFileTransferComplete
  <2> HIDE DEF counted, done
  <2> QED
    BY <1>1, <1>2, <2>1, <2>2, NextFileInStep, SameHalves, QuietInStep
<1> QED
  BY <1>3, <1>4, <1>5

LEMMA UserInStep ==
  ASSUME TypeInv, InStep, NEW p \in Peer,
         SendFiles(p) \/ SendNothing(p) \/ \E accepted \in BOOLEAN : Respond(p, accepted)
  PROVE  InStep' /\ UNCHANGED saved
<1>1. snd[p] \in Sender /\ rcv[p] \in Incoming
  BY DEF TypeInv, TypeOK
<1>2. CASE SendFiles(p)
  <2> DEFINE asking(manifest) ==
               [snd[p] EXCEPT !.requested = Names(manifest), !.offered = manifest]
  <2>1. PICK batch \in Batches : \E manifest \in ManifestsOf(batch) :
          /\ Write(p, <<[type |-> "Request", manifest |-> manifest]>>)
          /\ snd' = [snd EXCEPT ![p] = asking(manifest)]
    BY <1>2 DEF SendFiles
  <2>2. PICK manifest \in ManifestsOf(batch) :
          /\ Write(p, <<[type |-> "Request", manifest |-> manifest]>>)
          /\ snd' = [snd EXCEPT ![p] = asking(manifest)]
    BY <2>1
  <2>3. manifest \in Manifest
    BY BatchAssumption, ManifestsOfType
  <2>4. <<[type |-> "Request", manifest |-> manifest]>> \in Seq(Quiet)
    BY <2>3, QuietConstructors
  <2>5. UNCHANGED <<rcv, up, saved>>
    BY <1>2 DEF SendFiles
  <2>6. asking(manifest).chunker = snd[p].chunker
    BY <1>1 DEF Sender
  <2> HIDE DEF asking
  <2> QED
    BY <2>2, <2>4, <2>5, <2>6, SameHalves, WriteInStep
<1>3. CASE SendNothing(p)
  BY <1>3 DEF SendNothing, InStep, Fits, Staged, Opened
<1>4. ASSUME NEW accepted \in BOOLEAN, Respond(p, accepted)
      PROVE  InStep' /\ UNCHANGED saved
  <2>1. PICK written \in BOOLEAN :
          rcv' = [rcv EXCEPT ![p] = Responded(rcv[p], rcv[p].pending, accepted, written)]
    BY <1>4 DEF Respond, WriteOutcomes
  <2>2. PICK half : half = Responded(rcv[p], rcv[p].pending, accepted, written)
    OBVIOUS
  <2>3. half.receiver = rcv[p].receiver
    BY <1>1, <2>2 DEF Responded, Incoming
  <2>4. <<Response(accepted)>> \in Seq(Quiet) /\ Write(p, <<Response(accepted)>>)
        /\ UNCHANGED <<snd, up, saved>>
    BY <1>4, QuietConstructors DEF Respond, Response
  <2> QED
    BY <2>1, <2>2, <2>3, <2>4, SameHalves, WriteInStep
<1> QED
  BY <1>2, <1>3, <1>4

LEMMA AnsweringInStep ==
  ASSUME TypeInv, InStep, NEW p \in Peer,
         \/ RcvStaleResponse(p) \/ RcvDeclined(p) \/ RcvProgress(p) \/ RcvPartition(p)
         \/ RcvRequest(p) \/ RcvClosed(p)
  PROVE  InStep' /\ UNCHANGED saved
<1>1. net[p] # <<>> /\ Head(net[p]) \in Quiet
  BY QuietArrives
  DEF RcvStaleResponse, RcvDeclined, RcvProgress, RcvPartition, RcvRequest, RcvClosed
<1>2. snd[p] \in Sender /\ rcv[p] \in Incoming
  BY DEF TypeInv, TypeOK
<1>3. ASSUME UNCHANGED <<rcv, snd, up, saved>>,
             Exchange(p, <<>>) \/ Exchange(p, <<[type |-> "PartitionReceived"]>>)
      PROVE  InStep' /\ UNCHANGED saved
  BY <1>1, <1>3, QuietConstructors, SameHalves, QuietInStep
<1>4. CASE RcvStaleResponse(p) \/ RcvProgress(p) \/ RcvPartition(p)
  <2>1. UNCHANGED <<rcv, snd, up, saved>>
    BY <1>4, Zenon DEF RcvStaleResponse, RcvProgress, RcvPartition
  <2>2. Exchange(p, <<>>) \/ Exchange(p, <<[type |-> "PartitionReceived"]>>)
    BY <1>4, Zenon DEF RcvStaleResponse, RcvProgress, RcvPartition
  <2> QED
    BY <1>3, <2>1, <2>2
<1>5. CASE RcvDeclined(p)
  <2> DEFINE half == [snd[p] EXCEPT !.requested = <<>>]
  <2>1. /\ snd' = [snd EXCEPT ![p] = half] /\ half.chunker = snd[p].chunker
        /\ Exchange(p, <<>>) /\ UNCHANGED <<rcv, up, saved>>
    BY <1>2, <1>5 DEF RcvDeclined, Sender
  <2> HIDE DEF half
  <2> QED
    BY <1>1, <2>1, QuietConstructors, SameHalves, QuietInStep
<1>6. CASE RcvClosed(p)
  <2>1. PICK half : half = ResetRcv(p)
    OBVIOUS
  <2>2. PICK sender : sender = ResetSnd(p)
    OBVIOUS
  <2>3. half.receiver = None /\ sender.chunker = None
    BY <2>1, <2>2 DEF ResetRcv, ResetSnd, FreshRcv, FreshSnd
  <2>4. /\ Exchange(p, <<>>) /\ UNCHANGED <<up, saved>>
        /\ rcv' = [rcv EXCEPT ![p] = half] /\ snd' = [snd EXCEPT ![p] = sender]
    BY <1>6, <2>1, <2>2 DEF RcvClosed
  <2>5. \A before, after \in Position : Staged(half, after)
    BY <2>3 DEF Staged
  <2>6. \A middle \in Position : Leads(<<>>, middle, middle) /\ Opened(sender, middle)
    BY <2>3, EmptyLeads DEF Opened
  <2>7. <<>> \in Seq(Message)
    OBVIOUS
  <2> QED
    BY <1>1, <2>4, <2>5, <2>6, <2>7, ExchangeInStep
<1>7. CASE RcvRequest(p)
  <2>1. PICK request : request = Head(net[p]).manifest
    OBVIOUS
  <2>2. UNCHANGED <<snd, up, saved>>
    BY <1>7 DEF RcvRequest
  <2>3. \E b \in BOOLEAN : Exchange(p, <<>>) \/ Exchange(p, <<Response(b)>>)
    BY <1>7, Zenon DEF RcvRequest
  <2>4. PICK frames \in Seq(Quiet) : Exchange(p, frames)
    BY <2>3, QuietConstructors DEF Response
  <2>5. \/ UNCHANGED rcv
        \/ rcv' = [rcv EXCEPT ![p] = [rcv[p] EXCEPT !.pending = request]]
        \/ \E written \in BOOLEAN :
             rcv' = [rcv EXCEPT ![p] = Responded(rcv[p], request, TRUE, written)]
    BY <1>7, <2>1 DEF RcvRequest, WriteOutcomes
  <2>6. PICK half : rcv' = [rcv EXCEPT ![p] = half] /\ half.receiver = rcv[p].receiver
    <3>1. [rcv[p] EXCEPT !.pending = request].receiver = rcv[p].receiver
      BY <1>2 DEF Incoming
    <3>2. \A written \in BOOLEAN :
            Responded(rcv[p], request, TRUE, written).receiver = rcv[p].receiver
      BY <1>2 DEF Responded, Incoming
    <3> QED
      BY <2>5, <3>1, <3>2, SameHalves
  <2> QED
    BY <1>1, <2>2, <2>4, <2>6, SameHalves, QuietInStep
<1> QED
  BY <1>4, <1>5, <1>6, <1>7

-----------------------------------------------------------------------------
(* The steps of the receiving half.                                        *)

LEMMA PrefixProperties ==
  ASSUME NEW header \in FileHeader, NEW n \in Nat
  PROVE  /\ Prefix(header, 0) = <<>>
         /\ Prefix(header, n) \in Seq(Chunk) /\ Len(Prefix(header, n)) = n
         /\ Append(Prefix(header, n), <<header.name, n + 1>>) = Prefix(header, n + 1)
<1>1. header.name \in File
  BY DEF FileHeader
<1>2. \A k \in Nat : Prefix(header, k) \in Seq(Chunk) /\ Len(Prefix(header, k)) = k
  BY <1>1 DEF Prefix, Chunk
<1>3. Prefix(header, 0) = <<>>
  BY <1>2, EmptySeq
<1>4. PICK s \in Seq(Chunk) : s = Prefix(header, n)
  BY <1>2
<1>5. PICK t \in Seq(Chunk) : t = Prefix(header, n + 1)
  BY <1>2
<1>6. Len(s) = n /\ Len(t) = n + 1
  BY <1>2, <1>4, <1>5
<1>7. PICK c \in Chunk : c = <<header.name, n + 1>>
  <2>1. n + 1 \in Nat
    OBVIOUS
  <2> QED
    BY <1>1, <2>1, Zenon DEF Chunk
<1>8. /\ Append(s, c) \in Seq(Chunk) /\ Len(Append(s, c)) = n + 1
      /\ \A i \in 1..n : Append(s, c)[i] = s[i]
      /\ Append(s, c)[n + 1] = c
  BY <1>6, AppendProperties
<1>9. \A i \in 1..(n + 1) : t[i] = <<header.name, i>> /\ (i <= n => s[i] = <<header.name, i>>)
  BY <1>4, <1>5 DEF Prefix
<1>10. \A i \in 1..(n + 1) : Append(s, c)[i] = t[i]
  <2> TAKE i \in 1..(n + 1)
  <2>1. CASE i = n + 1
    BY <1>7, <1>8, <1>9, <2>1
  <2>2. CASE i # n + 1
    <3>1. i \in 1..n /\ i <= n
      BY <2>2
    <3>2. Append(s, c)[i] = s[i]
      BY <1>8, <3>1
    <3>3. s[i] = <<header.name, i>> /\ t[i] = <<header.name, i>>
      BY <1>9, <3>1
    <3> QED
      BY <3>2, <3>3
  <2> QED
    BY <2>1, <2>2
<1>11. Append(s, c) = t
  BY <1>6, <1>8, <1>10, SeqEqual
<1> QED
  BY <1>2, <1>3, <1>4, <1>5, <1>7, <1>11

LEMMA RcvHeaderInStep ==
  ASSUME TypeInv, AllTidy, InStep, NEW p \in Peer, RcvHeader(p)
  PROVE  InStep' /\ UNCHANGED saved
<1> DEFINE header == Head(net[p]).header
           half == [rcv[p] EXCEPT !.inFile = 0,
                                  !.receiver = [header |-> header, data |-> <<>>, over |-> FALSE]]
<1>1. /\ net[p] # <<>> /\ Head(net[p]).type = "Header" /\ header \in FileHeader
      /\ <<>> \in Seq(Message) /\ \A middle \in Position : Leads(<<>>, middle, middle)
  BY HeadMessage, MessageFields, EmptyLeads DEF RcvHeader, Arrives, TypeInv, TypeOK
<1>2. \/ /\ rcv[p].accepted = <<>> \/ rcv[p].remaining = <<>>
         /\ Exchange(p, <<>>) /\ UNCHANGED <<snd, rcv, up, saved>>
      \/ Fail(p, <<>>, <<>>)
      \/ /\ rcv' = [rcv EXCEPT ![p] = half]
         /\ Exchange(p, <<>>) /\ UNCHANGED <<snd, up, saved>>
  BY DEF RcvHeader
<1>3. rcv[p] \in Incoming /\ Tidy(rcv[p])
  BY DEF TypeInv, TypeOK, AllTidy
<1>4. CASE /\ rcv[p].accepted = <<>> \/ rcv[p].remaining = <<>>
           /\ Exchange(p, <<>>) /\ UNCHANGED <<snd, rcv, up, saved>>
  <2>1. \A after \in Position : Staged(rcv[p], after)
    BY <1>3, <1>4 DEF Tidy, Staged
  <2> QED
    BY <1>1, <1>4, <2>1, SameHalves, ExchangeInStep
<1>5. CASE Fail(p, <<>>, <<>>)
  <2>1. InStep'
    BY <1>1, <1>5, FailInStep
  <2> QED
    BY <1>5, <2>1 DEF Fail
<1>6. CASE /\ rcv' = [rcv EXCEPT ![p] = half]
           /\ Exchange(p, <<>>) /\ UNCHANGED <<snd, up, saved>>
  <2>1. half.receiver = [header |-> header, data |-> <<>>, over |-> FALSE]
    BY <1>3 DEF Incoming
  <2>2. \A before, after \in Position : Advances(before, Head(net[p]), after) =>
          after = [header |-> header, count |-> 0]
    BY <1>1 DEF Advances
  <2> HIDE DEF half, header
  <2>3. \A before, after \in Position : Advances(before, Head(net[p]), after) =>
          Staged(half, after)
    BY <1>1, <2>1, <2>2, PrefixProperties DEF Staged
  <2> QED
    BY <1>1, <1>6, <2>3, SameHalves, ExchangeInStep
<1> QED
  BY <1>2, <1>4, <1>5, <1>6

\* A chunk that is appended is the next one of the staged file.
LEMMA ReceivedReads ==
  ASSUME TypeInv, NEW p \in Peer, Arrives(p, "Chunk"), rcv[p].receiver # None
  PROVE  /\ net[p] # <<>> /\ Head(net[p]).type = "Chunk"
         /\ Received(p).half.receiver \in Receiver
         /\ Received(p).frames \in Seq(Quiet)
         /\ \A before, after \in Position :
              Staged(rcv[p], before) /\ Advances(before, Head(net[p]), after) =>
                Staged(Received(p).half, after)
<1>1. /\ net[p] # <<>> /\ Head(net[p]).type = "Chunk"
      /\ rcv[p] \in Incoming /\ rcv[p].receiver \in Receiver
      /\ Received(p).half.receiver \in Receiver
  BY ReceivedType DEF Arrives, TypeInv, TypeOK, Incoming
<1> DEFINE receiver == [rcv[p].receiver EXCEPT !.data = Append(@, Head(net[p]).chunk),
                                           !.over = @ \/ Head(net[p]).over]
<1>2. PICK last : Received(p).half =
        [rcv[p] EXCEPT !.receiver = receiver, !.inFile = @ + 1, !.lastProgress = last]
  BY <1>1, Zenon DEF Received
<1>3. /\ receiver.header = rcv[p].receiver.header
      /\ receiver.data = Append(rcv[p].receiver.data, Head(net[p]).chunk)
  BY <1>1 DEF Receiver
<1> HIDE DEF receiver
<1>4. Received(p).half.receiver = receiver
  BY <1>1, <1>2 DEF Incoming
<1>5. Received(p).frames \in Seq(Quiet)
  <2> DEFINE done == rcv[p].total + rcv[p].inFile + 1
             size == TotalSize(rcv[p].accepted)
             whole == done >= size
             due == /\ size > 0
                    /\ (done - rcv[p].lastProgress) * ProgressSteps >= size \/ whole
  <2>1. Received(p).frames =
          IF due THEN <<[type |-> "Progress", whole |-> whole]>> ELSE <<>>
    BY Zenon DEF Received
  <2>2. whole \in BOOLEAN
    OBVIOUS
  <2> HIDE DEF due, whole
  <2> QED
    BY <2>1, <2>2, QuietConstructors
<1>6. ASSUME NEW before \in Position, NEW after \in Position, Staged(rcv[p], before),
             Advances(before, Head(net[p]), after)
      PROVE  Staged(Received(p).half, after)
  <2>1. /\ before.header \in FileHeader /\ before.count \in Nat
        /\ Head(net[p]).chunk = <<before.header.name, before.count + 1>>
        /\ after = [header |-> before.header, count |-> before.count + 1]
    BY <1>1, <1>6 DEF Advances, Position
  <2>2. /\ rcv[p].receiver.header = before.header
        /\ rcv[p].receiver.data = Prefix(before.header, before.count)
    BY <1>6 DEF Staged
  <2>3. receiver.data = Prefix(before.header, before.count + 1)
    BY <1>3, <2>1, <2>2, PrefixProperties
  <2>4. receiver.header = after.header /\ receiver.data = Prefix(after.header, after.count)
    BY <1>3, <2>1, <2>2, <2>3
  <2> QED
    BY <1>4, <2>4 DEF Staged
<1> QED
  BY <1>1, <1>5, <1>6

LEMMA RcvChunkInStep ==
  ASSUME TypeInv, InStep, NEW p \in Peer,
         RcvIgnoredChunk(p) \/ RcvChunk(p) \/ RcvChunkFails(p)
  PROVE  InStep' /\ UNCHANGED saved
<1>1. <<>> \in Seq(Message) /\ \A middle \in Position : Leads(<<>>, middle, middle)
  BY EmptyLeads
<1>2. CASE RcvIgnoredChunk(p)
  <2>1. /\ net[p] # <<>> /\ rcv[p].receiver = None
        /\ Exchange(p, <<>>) /\ UNCHANGED <<snd, rcv, up, saved>>
    BY <1>2, Zenon DEF RcvIgnoredChunk, Arrives
  <2>2. \A after \in Position : Staged(rcv[p], after)
    BY <2>1 DEF Staged
  <2> QED
    BY <1>1, <2>1, <2>2, SameHalves, ExchangeInStep
<1>3. ASSUME Arrives(p, "Chunk"), rcv[p].receiver # None
      PROVE  /\ net[p] # <<>> /\ Received(p).frames \in Seq(Message)
             /\ \A middle \in Position : Leads(Received(p).frames, middle, middle)
  BY <1>3, ReceivedReads, QuietLeads, EmptyLeads, SeqMonotonic DEF Quiet
<1>4. CASE RcvChunk(p)
  <2>1. /\ Arrives(p, "Chunk") /\ rcv[p].receiver # None
        /\ rcv' = [rcv EXCEPT ![p] = Received(p).half]
        /\ Exchange(p, Received(p).frames) /\ UNCHANGED <<snd, up, saved>>
    BY <1>4 DEF RcvChunk
  <2>2. PICK half : half = Received(p).half
    OBVIOUS
  <2>3. PICK frames \in Seq(Message) : frames = Received(p).frames
    BY <1>3, <2>1
  <2>4. \A middle \in Position : Leads(frames, middle, middle)
    BY <1>3, <2>1, <2>3
  <2>5. \A before, after \in Position :
          Staged(rcv[p], before) /\ Advances(before, Head(net[p]), after) =>
            Staged(half, after)
    BY <2>1, <2>2, ReceivedReads
  <2>6. net[p] # <<>> /\ rcv' = [rcv EXCEPT ![p] = half] /\ Exchange(p, frames)
    BY <1>3, <2>1, <2>2, <2>3
  <2> QED
    BY <2>1, <2>4, <2>5, <2>6, SameHalves, ExchangeInStep
<1>5. CASE RcvChunkFails(p)
  <2>1. /\ Arrives(p, "Chunk") /\ rcv[p].receiver # None
        /\ \/ Fail(p, <<>>, <<>>)
           \/ Fail(p, Received(p).frames, Received(p).events)
    BY <1>5, Zenon DEF RcvChunkFails, FramesBeforeSaving
  <2>2. PICK frames \in Seq(Message) : frames = Received(p).frames
    BY <1>3, <2>1
  <2>3. \A middle \in Position : Leads(frames, middle, middle)
    BY <1>3, <2>1, <2>2
  <2>4. InStep'
    BY <1>1, <1>3, <2>1, <2>2, <2>3, FailInStep
  <2> QED
    BY <2>1, <2>4 DEF Fail
<1> QED
  BY <1>2, <1>4, <1>5

\* A file that is saved has every chunk.
WholeSaved ==
  \A p \in Peer : \A i \in DOMAIN saved[p] :
    saved[p][i].data = WholeFile(saved[p][i].header)

LEMMA SavedPreserved ==
  ASSUME TypeInv, WholeSaved, NEW p \in Peer, NEW file \in Receiver,
         file.data = WholeFile(file.header), saved' = [saved EXCEPT ![p] = Append(saved[p], file)]
  PROVE  WholeSaved'
<1>1. saved \in [Peer -> Seq(Receiver)]
  BY DEF TypeInv, TypeOK
<1> SUFFICES ASSUME NEW q \in Peer, NEW i \in DOMAIN saved'[q]
             PROVE  saved'[q][i].data = WholeFile(saved'[q][i].header)
  BY DEF WholeSaved, WholeFile
<1>2. CASE q = p
  <2>1. PICK files \in Seq(Receiver) : files = saved[p]
    BY <1>1
  <2>2. PICK n \in Nat : n = Len(files) /\ DOMAIN files = 1..n
    BY LenProperties
  <2>3. PICK more \in Seq(Receiver) : more = Append(files, file)
    BY AppendProperties
  <2>4. /\ DOMAIN more = 1..(n + 1) /\ more[n + 1] = file
        /\ \A k \in 1..n : more[k] = files[k]
    BY <2>2, <2>3, AppendProperties, LenProperties
  <2>5. saved'[q] = more
    BY <1>1, <1>2, <2>1, <2>3
  <2>6. \A k \in 1..n : files[k].data = WholeFile(files[k].header)
    BY <2>1, <2>2 DEF WholeSaved
  <2>7. i = n + 1 \/ i \in 1..n
    BY <2>4, <2>5
  <2> QED
    BY <2>4, <2>5, <2>6, <2>7
<1>3. CASE q # p
  <2>1. saved'[q] = saved[q]
    BY <1>1, <1>3
  <2> QED
    BY <2>1 DEF WholeSaved
<1> QED
  BY <1>2, <1>3

LEMMA SavedKept ==
  ASSUME WholeSaved, UNCHANGED saved
  PROVE  WholeSaved'
BY DEF WholeSaved, WholeFile

\* A file is whole when it is complete: no chunk comes after the last one.
LEMMA CompleteIsWhole ==
  ASSUME TypeInv, InStep, NEW p \in Peer, Arrives(p, "Chunk"), rcv[p].receiver # None,
         IsComplete(Received(p).half.receiver)
  PROVE  Received(p).half.receiver.data = WholeFile(Received(p).half.receiver.header)
<1>1. net[p] # <<>> /\ net[p] \in Seq(Message) /\ Head(net[p]).type = "Chunk"
  BY ReceivedReads DEF TypeInv, TypeOK
<1>2. PICK before \in Position, after \in Position :
        Leads(net[p], before, after) /\ Staged(rcv[p], before)
  BY DEF InStep, Fits
<1>3. PICK next \in Position : Advances(before, Head(net[p]), next)
  BY <1>1, <1>2, TailLeads
<1>4. PICK receiver \in Receiver : receiver = Received(p).half.receiver
  BY ReceivedReads
<1>5. /\ next.header \in FileHeader /\ next.count \in Nat /\ next.header.size \in Nat
      /\ next.count <= next.header.size
  <2>1. /\ before.header \in FileHeader /\ before.count \in Nat
        /\ before.count < before.header.size
        /\ next = [header |-> before.header, count |-> before.count + 1]
    BY <1>1, <1>3 DEF Advances, Position
  <2>2. before.header.size \in Nat
    BY <2>1 DEF FileHeader
  <2> QED
    BY <2>1, <2>2
<1>6. receiver.header = next.header /\ receiver.data = Prefix(next.header, next.count)
  <2>1. Staged(Received(p).half, next)
    BY <1>2, <1>3, ReceivedReads
  <2>2. receiver # None
    BY NoneAssumption DEF Receiver, FileHeader, Chunk
  <2> QED
    BY <1>4, <2>1, <2>2 DEF Staged
<1>7. next.count >= next.header.size
  <2>1. Len(Prefix(next.header, next.count)) = next.count
    BY <1>5, PrefixProperties
  <2> QED
    BY <1>4, <1>6, <2>1 DEF IsComplete
<1>8. next.count = next.header.size
  BY <1>5, <1>7
<1> QED
  BY <1>4, <1>6, <1>8 DEF Prefix, WholeFile

LEMMA RcvLastChunkInStep ==
  ASSUME TypeInv, AllTidy, InStep, WholeSaved, NEW p \in Peer, RcvLastChunk(p)
  PROVE  InStep' /\ WholeSaved'
<1>1. /\ Arrives(p, "Chunk") /\ rcv[p].receiver # None /\ UNCHANGED <<snd, up>>
      /\ IsComplete(Received(p).half.receiver)
  BY Zenon DEF RcvLastChunk
<1>2. PICK half : half = Received(p).half
  OBVIOUS
<1>3. PICK frames \in Seq(Quiet) : frames = Received(p).frames
  BY <1>1, ReceivedReads
<1>4. /\ half \in Incoming /\ half.receiver \in Receiver /\ net[p] # <<>>
      /\ half.remaining # <<>> /\ half.accepted # <<>> /\ half.pending = <<>>
      /\ \A before, after \in Position :
           Staged(rcv[p], before) /\ Advances(before, Head(net[p]), after) =>
             Staged(half, after)
  BY <1>1, <1>2, ReceivedFields, ReceivedReads
<1> DEFINE file == half.receiver
           finished == Finished(half)
           stuck == [finished EXCEPT !.accepted = half.accepted, !.remaining = half.remaining,
                                     !.received = Append(half.received, file.header)]
           complete == <<[type |-> "FileTransferComplete"]>>
<1>5. \/ /\ saved' = [saved EXCEPT ![p] = Append(saved[p], file)]
         /\ rcv' = [rcv EXCEPT ![p] = finished]
         /\ Exchange(p, frames \o complete)
      \/ /\ rcv' = [rcv EXCEPT ![p] = half] /\ Exchange(p, <<>>) /\ UNCHANGED saved
      \/ /\ saved' = [saved EXCEPT ![p] = Append(saved[p], file)]
         /\ rcv' = [rcv EXCEPT ![p] = stuck]
         /\ Exchange(p, <<>>)
  BY <1>2, <1>3, Zenon DEF RcvLastChunk
<1>6. file \in Receiver /\ file.data = WholeFile(file.header)
  <2>1. half.receiver.data = WholeFile(half.receiver.header)
    BY <1>1, <1>2, CompleteIsWhole
  <2> QED
    BY <1>4, <2>1 DEF Receiver
<1>7. /\ finished.receiver = None /\ finished \in Incoming
  BY <1>4, FinishedFields, FinishedType
<1>8. stuck.receiver = None
  <2> HIDE DEF finished
  <2> QED
    BY <1>7 DEF Incoming
<1> HIDE DEF file, finished, stuck
<1>9. WholeSaved'
  <2>1. CASE UNCHANGED saved
    BY <2>1, SavedKept
  <2>2. CASE saved' = [saved EXCEPT ![p] = Append(saved[p], file)]
    BY <1>6, <2>2, SavedPreserved
  <2> QED
    BY <1>5, <2>1, <2>2
<1>10. PICK some : /\ rcv' = [rcv EXCEPT ![p] = some]
                   /\ \A before, after \in Position :
                        Staged(rcv[p], before) /\ Advances(before, Head(net[p]), after) =>
                          Staged(some, after)
  <2>1. \A after \in Position : Staged(finished, after) /\ Staged(stuck, after)
    BY <1>7, <1>8 DEF Staged
  <2> QED
    BY <1>4, <1>5, <2>1
<1>11. PICK answer \in Seq(Message) :
         Exchange(p, answer) /\ \A middle \in Position : Leads(answer, middle, middle)
  <2>1. frames \o complete \in Seq(Quiet) /\ <<>> \in Seq(Quiet)
    BY QuietConstructors, ConcatProperties
  <2>2. PICK answer \in Seq(Quiet) : Exchange(p, answer)
    BY <1>5, <2>1
  <2>3. Position # {}
    <3>1. [header |-> None, count |-> 0] \in Position
      BY DEF Position
    <3> QED
      BY <3>1
  <2>4. answer \in Seq(Message) /\ \A middle \in Position : Leads(answer, middle, middle)
    BY <2>3, QuietLeads
  <2> QED
    BY <2>2, <2>4
<1>12. InStep'
  BY <1>1, <1>4, <1>10, <1>11, SameHalves, ExchangeInStep
<1> QED
  BY <1>9, <1>12

-----------------------------------------------------------------------------
(* The channel, and every step.                                            *)

LEMMA LinkDropInStep ==
  ASSUME TypeInv, InStep, LinkDrop
  PROVE  InStep' /\ UNCHANGED saved
<1> DEFINE cut(q, n) == Append(SubSeq(net[q], 1, n), [type |-> "Closed"])
<1>1. PICK p \in Peer : \E here \in 0..Len(net[p]), there \in 0..Len(net[Other(p)]) :
        net' = [net EXCEPT ![p] = cut(p, here), ![Other(p)] = cut(Other(p), there)]
  BY Zenon DEF LinkDrop
<1>2. up' = FALSE /\ UNCHANGED <<snd, rcv, saved>>
  BY DEF LinkDrop
<1>3. ASSUME NEW q \in Peer, NEW n \in 0..Len(net[q]), net'[q] = cut(q, n)
      PROVE  Fits(net[q], rcv[q], up, snd[Other(q)])'
  <2>1. PICK before \in Position, after \in Position :
          Leads(net[q], before, after) /\ Staged(rcv[q], before)
    BY DEF InStep, Fits
  <2>2. net[q] \in Seq(Message) /\ n \in Nat /\ n <= Len(net[q])
    BY DEF TypeInv, TypeOK
  <2>3. PICK s \in Seq(Message) : s = SubSeq(net[q], 1, n)
    <3>1. SubSeq(net[q], 1, n) \in Seq(Message)
      BY <2>2, SubSeqProperties
    <3> QED
      BY <3>1
  <2>4. PICK middle \in Position : Leads(s, before, middle)
    BY <2>1, <2>2, <2>3, PrefixLeads
  <2>5. PICK closed \in Message : closed = [type |-> "Closed"]
    BY MessageConstructors
  <2>6. Advances(middle, closed, middle)
    BY <2>5 DEF Advances
  <2>7. Leads(Append(s, closed), before, middle)
    BY <2>4, <2>6, AppendLeads
  <2>8. net'[q] = Append(s, closed)
    BY <1>3, <2>3, <2>5
  <2> QED
    BY <1>2, <2>1, <2>7, <2>8 DEF Fits
<1>4. PICK here \in 0..Len(net[p]) : \E there \in 0..Len(net[Other(p)]) :
        net' = [net EXCEPT ![p] = cut(p, here), ![Other(p)] = cut(Other(p), there)]
  BY <1>1
<1>5. PICK there \in 0..Len(net[Other(p)]) :
        net' = [net EXCEPT ![p] = cut(p, here), ![Other(p)] = cut(Other(p), there)]
  BY <1>4
<1> HIDE DEF cut
<1>6. net'[p] = cut(p, here) /\ net'[Other(p)] = cut(Other(p), there)
  BY <1>5, TwoPeers DEF TypeInv, TypeOK
<1>7. \A q \in Peer : Fits(net[q], rcv[q], up, snd[Other(q)])'
  BY <1>3, <1>6, TwoPeers
<1> QED
  BY <1>2, <1>7 DEF InStep

\* A new channel, new machines: nothing is on its way, staged or open.
LEMMA FreshFits == Fits(<<>>, FreshRcv, TRUE, FreshSnd)
<1>1. PICK start \in Position : start = [header |-> None, count |-> 0]
  BY DEF Position
<1>2. Leads(<<>>, start, start)
  BY EmptyLeads
<1>3. Staged(FreshRcv, start) /\ Opened(FreshSnd, start)
  BY DEF Staged, Opened, FreshRcv, FreshSnd
<1> QED
  BY <1>2, <1>3 DEF Fits

LEMMA StepSaved ==
  TypeInv /\ AllTidy /\ InStep /\ WholeSaved /\ [Next]_vars => InStep' /\ WholeSaved'
<1> SUFFICES ASSUME TypeInv, AllTidy, InStep, WholeSaved, [Next]_vars
             PROVE  InStep' /\ WholeSaved'
  OBVIOUS
<1>1. ASSUME InStep' /\ UNCHANGED saved PROVE InStep' /\ WholeSaved'
  BY <1>1, SavedKept
<1>2. CASE UNCHANGED vars
  <2>1. InStep' /\ UNCHANGED saved
    BY <1>2 DEF vars, InStep, Fits, Staged, Opened
  <2> QED
    BY <1>1, <2>1
<1>3. ASSUME NEW p \in Peer,
             SendFiles(p) \/ SendNothing(p) \/ \E accepted \in BOOLEAN : Respond(p, accepted)
      PROVE  InStep' /\ WholeSaved'
  BY <1>1, <1>3, UserInStep
<1>4. ASSUME NEW p \in Peer,
             RcvAccepted(p) \/ RcvPartitionReceived(p) \/ RcvFileTransferComplete(p)
      PROVE  InStep' /\ WholeSaved'
  <2>1. InStep'
    BY <1>4, SendingInStep
  <2>2. UNCHANGED saved
    BY <1>4, Zenon
    DEF RcvAccepted, RcvPartitionReceived, RcvFileTransferComplete, NextFile, PutPartition, Fail
  <2> QED
    BY <1>1, <2>1, <2>2
<1>5. ASSUME NEW p \in Peer, Receive(p) PROVE InStep' /\ WholeSaved'
  BY <1>1, <1>4, <1>5, AnsweringInStep, RcvHeaderInStep, RcvChunkInStep, RcvLastChunkInStep
  DEF Receive
<1>6. CASE LinkDrop
  BY <1>1, <1>6, LinkDropInStep
<1>7. CASE Redial
  <2>1. /\ rcv' = [q \in Peer |-> FreshRcv] /\ snd' = [q \in Peer |-> FreshSnd]
        /\ UNCHANGED saved /\ up' = TRUE /\ \A q \in Peer : net'[q] = <<>>
    BY <1>7 DEF Redial
  <2>2. InStep'
    BY <2>1, FreshFits, TwoPeers DEF InStep
  <2> QED
    BY <1>1, <2>1, <2>2
<1> QED
  BY <1>2, <1>3, <1>5, <1>6, <1>7 DEF Next

-----------------------------------------------------------------------------
(* Nothing runs past the size in its header unless a file changed: not the *)
(* frames on their way, nor what is staged or saved.                       *)

Exact == {m \in Message : m.type = "Chunk" => ~m.over}

NoneOver ==
  /\ net \in [Peer -> Seq(Exact)]
  /\ \A p \in Peer : rcv[p].receiver # None => ~rcv[p].receiver.over
  /\ \A p \in Peer : \A i \in DOMAIN saved[p] : ~saved[p][i].over

FaultlessOver == Faultless => NoneOver

\* A fault is counted, and never forgotten.
LEMMA FaultsKnown ==
  ASSUME TypeInv, Faultless'
  PROVE  ~Fault
<1>1. /\ budget \in [requests : 0..MaxRequests, faults : 0..MaxFaults, drops : 0..MaxDrops]
      /\ MaxFaults \in Nat
  BY BoundAssumption DEF TypeInv, TypeOK, BudgetOK
<1> QED
  BY <1>1 DEF Fault, Faultless

LEMMA FaultsOnlyGrow ==
  ASSUME TypeInv, [Next]_vars, Faultless'
  PROVE  Faultless
<1>1. /\ budget \in [requests : 0..MaxRequests, faults : 0..MaxFaults, drops : 0..MaxDrops]
      /\ MaxFaults \in Nat
  BY BoundAssumption DEF TypeInv, TypeOK, BudgetOK
<1>2. \/ NoFault \/ Fault
      \/ budget' = [budget EXCEPT !.requests = @ - 1] \/ budget' = [budget EXCEPT !.drops = @ - 1]
  <2>1. ASSUME NEW p \in Peer, NEW s, NEW act, NEW pushed, NextFile(p, s, act, pushed)
        PROVE  NoFault \/ Fault
    BY <2>1, Zenon DEF NextFile
  <2>2. ASSUME NEW p \in Peer, RcvAccepted(p) \/ RcvFileTransferComplete(p)
        PROVE  NoFault \/ Fault
    BY <2>1, <2>2, Zenon DEF RcvAccepted, RcvFileTransferComplete
  <2>3. ASSUME NEW p \in Peer, Receive(p) PROVE NoFault \/ Fault
    BY <2>2, <2>3, Zenon
    DEF Receive, RcvStaleResponse, RcvDeclined, RcvPartitionReceived, RcvProgress, RcvRequest,
        RcvHeader, RcvPartition, RcvIgnoredChunk, RcvChunk, RcvLastChunk, RcvChunkFails, RcvClosed
  <2>4. ASSUME NEW p \in Peer, \E accepted \in BOOLEAN : Respond(p, accepted) PROVE NoFault
    BY <2>4, Zenon DEF Respond
  <2>5. ASSUME NEW p \in Peer, SendFiles(p) \/ SendNothing(p)
        PROVE  budget' = [budget EXCEPT !.requests = @ - 1]
    BY <2>5 DEF SendFiles, SendNothing
  <2>6. LinkDrop => budget' = [budget EXCEPT !.drops = @ - 1]
    BY DEF LinkDrop
  <2>7. Redial \/ UNCHANGED vars => NoFault
    BY DEF Redial, vars, NoFault
  <2> QED
    BY <2>3, <2>4, <2>5, <2>6, <2>7, Zenon DEF Next
<1> QED
  BY <1>1, <1>2 DEF Fault, NoFault, Faultless

LEMMA QuietExact == \A frames \in Seq(Quiet) : frames \in Seq(Exact)
<1>1. \A m \in Quiet : m \in Exact
  BY DEF Quiet, Exact
<1> QED
  BY <1>1, SeqMonotonic

LEMMA ExchangeExact ==
  ASSUME TypeInv, NoneOver, NEW p \in Peer, net[p] # <<>>, NEW frames \in Seq(Exact),
         Exchange(p, frames), NEW half, rcv' = [rcv EXCEPT ![p] = half],
         half.receiver # None => ~half.receiver.over
  PROVE  /\ net' \in [Peer -> Seq(Exact)]
         /\ \A q \in Peer : rcv'[q].receiver # None => ~rcv'[q].receiver.over
         /\ UNCHANGED saved => NoneOver'
<1>1. net \in [Peer -> Seq(Exact)] /\ rcv \in [Peer -> Incoming]
  BY DEF NoneOver, TypeInv, TypeOK
<1>2. Tail(net[p]) \in Seq(Exact)
  BY <1>1, HeadTailProperties
<1>3. net[Other(p)] \o Written(frames) \in Seq(Exact)
  BY <1>1, OtherPeer DEF Written
<1>4. net' \in [Peer -> Seq(Exact)]
  BY <1>1, <1>2, <1>3, OtherPeer DEF Exchange
<1>5. ASSUME NEW q \in Peer PROVE rcv'[q].receiver # None => ~rcv'[q].receiver.over
  <2>1. rcv'[q] = half \/ rcv'[q] = rcv[q]
    BY <1>1
  <2> QED
    BY <2>1 DEF NoneOver
<1> QED
  BY <1>4, <1>5 DEF NoneOver

LEMMA WriteExact ==
  ASSUME TypeInv, NoneOver, NEW p \in Peer, NEW frames \in Seq(Exact), Write(p, frames),
         NEW half, rcv' = [rcv EXCEPT ![p] = half],
         half.receiver = rcv[p].receiver, UNCHANGED saved
  PROVE  NoneOver'
<1>1. net \in [Peer -> Seq(Exact)] /\ rcv \in [Peer -> Incoming]
  BY DEF NoneOver, TypeInv, TypeOK
<1>2. net[Other(p)] \o Written(frames) \in Seq(Exact)
  BY <1>1, OtherPeer DEF Written
<1>3. net' \in [Peer -> Seq(Exact)]
  BY <1>1, <1>2, OtherPeer DEF Write
<1>4. ASSUME NEW q \in Peer PROVE rcv'[q].receiver = rcv[q].receiver
  BY <1>1
<1> QED
  BY <1>3, <1>4 DEF NoneOver

LEMMA UserExact ==
  ASSUME TypeInv, NoneOver, NEW p \in Peer,
         SendFiles(p) \/ SendNothing(p) \/ \E accepted \in BOOLEAN : Respond(p, accepted)
  PROVE  NoneOver'
<1>1. rcv[p] \in Incoming
  BY DEF TypeInv, TypeOK
<1>2. CASE SendFiles(p)
  <2>1. PICK batch \in Batches : \E manifest \in ManifestsOf(batch) :
          Write(p, <<[type |-> "Request", manifest |-> manifest]>>)
    BY <1>2 DEF SendFiles
  <2>2. PICK manifest \in ManifestsOf(batch) :
          Write(p, <<[type |-> "Request", manifest |-> manifest]>>)
    BY <2>1
  <2>3. <<[type |-> "Request", manifest |-> manifest]>> \in Seq(Exact)
    BY BatchAssumption, ManifestsOfType, QuietConstructors, QuietExact
  <2>4. UNCHANGED <<rcv, saved>>
    BY <1>2 DEF SendFiles
  <2> QED
    BY <2>2, <2>3, <2>4, SameHalves, WriteExact
<1>3. CASE SendNothing(p)
  BY <1>3 DEF SendNothing, NoneOver
<1>4. ASSUME NEW accepted \in BOOLEAN, Respond(p, accepted) PROVE NoneOver'
  <2>1. PICK written \in BOOLEAN :
          rcv' = [rcv EXCEPT ![p] = Responded(rcv[p], rcv[p].pending, accepted, written)]
    BY <1>4 DEF Respond, WriteOutcomes
  <2>2. PICK half : half = Responded(rcv[p], rcv[p].pending, accepted, written)
    OBVIOUS
  <2>3. half.receiver = rcv[p].receiver
    BY <1>1, <2>2 DEF Responded, Incoming
  <2>4. <<Response(accepted)>> \in Seq(Exact) /\ Write(p, <<Response(accepted)>>)
        /\ UNCHANGED saved
    BY <1>4, QuietConstructors, QuietExact DEF Respond, Response
  <2> QED
    BY <2>1, <2>2, <2>3, <2>4, WriteExact
<1> QED
  BY <1>2, <1>3, <1>4

\* A file that does not change is read up to its size.
LEMMA PutPartitionExact ==
  ASSUME TypeInv, NoneOver, NEW p \in Peer, net[p] # <<>>, NEW s, s.chunker \in Chunker,
         NEW act, NEW header \in Seq(Exact), NEW pushed,
         PutPartition(p, s, act, header, pushed, PartitionEnd(s.chunker), FALSE)
  PROVE  NoneOver'
<1>1. PICK c \in Chunker : c = s.chunker
  OBVIOUS
<1>2. PICK last \in Nat : last = PartitionEnd(c) /\ c.offset <= last
  BY PartitionEndType
<1>3. PICK chunks \in Seq(Message) : chunks = ChunksOf(c.name, c.offset + 1, last, FALSE)
  <2>1. c.name \in File /\ c.offset + 1 \in Nat /\ c.offset + 1 <= last + 1
    BY <1>2 DEF Chunker
  <2>2. ChunksOf(c.name, c.offset + 1, last, FALSE) \in Seq(Message)
    BY <2>1, ChunksType
  <2> QED
    BY <2>2
<1>4. chunks \in Seq(Exact)
  <2>1. Len(chunks) \in Nat /\ DOMAIN chunks = 1..Len(chunks)
    BY LenProperties
  <2>2. \A i \in DOMAIN chunks : ~chunks[i].over
    BY <1>3 DEF ChunksOf
  <2>3. \A i \in 1..Len(chunks) : chunks[i] \in Exact
    BY <2>1, <2>2, ElementOfSeq DEF Exact
  <2>4. chunks = [i \in 1..Len(chunks) |-> chunks[i]]
    BY <2>1
  <2> QED
    BY <2>1, <2>3, <2>4
<1>5. PICK pause \in Seq(Exact) :
        pause = IF Reading(c, last).offset < c.size THEN <<[type |-> "Partition"]>> ELSE <<>>
  BY QuietConstructors, QuietExact
<1>6. Exchange(p, header \o chunks \o pause) /\ UNCHANGED <<rcv, saved>>
  BY <1>1, <1>2, <1>3, <1>5 DEF PutPartition
<1>7. header \o chunks \o pause \in Seq(Exact)
  BY <1>4, <1>5, ConcatProperties
<1>8. rcv' = [rcv EXCEPT ![p] = rcv[p]] /\ (rcv[p].receiver # None => ~rcv[p].receiver.over)
  BY <1>6, SameHalves DEF NoneOver
<1> QED
  BY <1>6, <1>7, <1>8, ExchangeExact

LEMMA NextFileExact ==
  ASSUME TypeInv, NoneOver, Faultless', NEW p \in Peer, net[p] # <<>>, NEW s \in Sender,
         s.queue # <<>>, NEW act, NEW pushed, NextFile(p, s, act, pushed)
  PROVE  NoneOver'
<1> DEFINE name == Head(s.queue)
           chunker == [name |-> name, size |-> Size[name], offset |-> 0]
           open == [s EXCEPT !.queue = Tail(@), !.sentIn = 0, !.chunker = chunker]
           frame == [type |-> "Header", header |-> [name |-> name, size |-> Size[name]]]
<1>1. name \in File /\ Size[name] \in Nat
  BY HeadTailProperties, SizeAssumption DEF Sender
<1>2. chunker \in Chunker
  BY <1>1 DEF Chunker
<1>3. open.chunker = chunker
  BY DEF Sender
<1>4. <<frame>> \in Seq(Exact)
  <2>1. frame \in Message /\ frame.type = "Header"
    BY <1>1, MessageConstructors DEF FileHeader
  <2> QED
    BY <2>1 DEF Exact
<1>5. PutPartition(p, open, act, <<frame>>, pushed, PartitionEnd(open.chunker), FALSE)
  <2>1. ~Fault
    BY FaultsKnown DEF NextFile
  <2> QED
    BY <2>1, Zenon DEF NextFile
<1> HIDE DEF open, chunker, frame
<1> QED
  BY <1>2, <1>3, <1>4, <1>5, PutPartitionExact

LEMMA SendingExact ==
  ASSUME TypeInv, NoneOver, Faultless', NEW p \in Peer,
         RcvAccepted(p) \/ RcvPartitionReceived(p) \/ RcvFileTransferComplete(p)
  PROVE  NoneOver'
<1>1. net[p] # <<>> /\ snd[p] \in Sender /\ <<>> \in Seq(Exact)
  <2>1. net[p] # <<>>
    BY Zenon DEF RcvAccepted, RcvPartitionReceived, RcvFileTransferComplete, Arrives
  <2> QED
    BY <2>1 DEF TypeInv, TypeOK
<1>2. ASSUME Exchange(p, <<>>), UNCHANGED <<rcv, saved>> PROVE NoneOver'
  <2>1. rcv' = [rcv EXCEPT ![p] = rcv[p]] /\ (rcv[p].receiver # None => ~rcv[p].receiver.over)
    BY <1>2, SameHalves DEF NoneOver
  <2> QED
    BY <1>1, <1>2, <2>1, ExchangeExact
<1>3. CASE RcvAccepted(p)
  <2> DEFINE half == [snd[p] EXCEPT !.queue = snd[p].requested, !.requested = <<>>,
                                    !.sentBefore = 0, !.filesSent = 0]
             pushed == <<[kind |-> "SendProgress", whole |-> FALSE]>>
  <2>1. snd[p].requested # <<>>
    BY <1>3 DEF RcvAccepted, TypeInv, AwaitsWithFiles
  <2>2. half \in Sender /\ half.queue # <<>>
    <3>1. <<>> \in Seq(File)
      OBVIOUS
    <3> QED
      BY <1>1, <2>1, <3>1 DEF Sender
  <2>3. NextFile(p, half, "Sending", pushed)
    BY <1>3 DEF RcvAccepted
  <2> HIDE DEF half, pushed
  <2> QED
    BY <1>1, <2>2, <2>3, NextFileExact
<1>4. CASE RcvPartitionReceived(p)
  <2>1. CASE snd[p].chunker = None
    <3>1. Exchange(p, <<>>) /\ UNCHANGED <<rcv, saved>>
      BY <1>4, <2>1, Zenon DEF RcvPartitionReceived
    <3> QED
      BY <1>2, <3>1
  <2>2. CASE snd[p].chunker # None
    <3>1. snd[p].chunker \in Chunker
      BY <1>1, <2>2 DEF Sender
    <3>2. ~Fault
      BY <1>4, FaultsKnown DEF RcvPartitionReceived
    <3>3. PutPartition(p, snd[p], activity[p], <<>>, <<>>, PartitionEnd(snd[p].chunker), FALSE)
      BY <1>4, <2>2, <3>2, Zenon DEF RcvPartitionReceived
    <3> QED
      BY <1>1, <3>1, <3>3, PutPartitionExact
  <2> QED
    BY <2>1, <2>2
<1>5. CASE RcvFileTransferComplete(p)
  <2> DEFINE counted == [snd[p] EXCEPT !.sentBefore = @ + snd[p].sentIn, !.sentIn = 0,
                                       !.filesSent = @ + 1, !.chunker = None]
  <2>1. counted \in Sender /\ counted.queue = snd[p].queue
    <3>1. snd[p].sentBefore + snd[p].sentIn \in Nat /\ snd[p].filesSent + 1 \in Nat
      BY <1>1 DEF Sender
    <3> QED
      BY <1>1, <3>1 DEF Sender
  <2>2. \/ snd[p].queue # <<>> /\ NextFile(p, counted, activity[p], <<>>)
        \/ Exchange(p, <<>>) /\ UNCHANGED <<rcv, saved>>
    BY <1>5, Zenon DEF RcvFileTransferComplete
  <2> HIDE DEF counted
  <2> QED
    BY <1>1, <1>2, <2>1, <2>2, NextFileExact
<1> QED
  BY <1>3, <1>4, <1>5

LEMMA AnsweringExact ==
  ASSUME TypeInv, NoneOver, NEW p \in Peer,
         \/ RcvStaleResponse(p) \/ RcvDeclined(p) \/ RcvProgress(p) \/ RcvPartition(p)
         \/ RcvRequest(p) \/ RcvClosed(p) \/ RcvIgnoredChunk(p)
  PROVE  NoneOver'
<1>1. net[p] # <<>> /\ rcv[p] \in Incoming /\ (rcv[p].receiver # None => ~rcv[p].receiver.over)
  <2>1. net[p] # <<>>
    BY Zenon DEF RcvStaleResponse, RcvDeclined, RcvProgress, RcvPartition, RcvRequest,
                 RcvClosed, RcvIgnoredChunk, Arrives
  <2> QED
    BY <2>1 DEF NoneOver, TypeInv, TypeOK
<1>2. PICK frames \in Seq(Quiet) : Exchange(p, frames)
  <2>1. \/ Exchange(p, <<>>) \/ Exchange(p, <<[type |-> "PartitionReceived"]>>)
        \/ \E b \in BOOLEAN : Exchange(p, <<Response(b)>>)
    BY Zenon DEF RcvStaleResponse, RcvDeclined, RcvProgress, RcvPartition, RcvRequest,
                 RcvClosed, RcvIgnoredChunk
  <2> QED
    BY <2>1, QuietConstructors DEF Response
<1>3. PICK half : rcv' = [rcv EXCEPT ![p] = half] /\ half.receiver \in {rcv[p].receiver, None}
  <2>1. CASE RcvClosed(p)
    <3>1. ResetRcv(p).receiver = None
      BY DEF ResetRcv, FreshRcv
    <3> QED
      BY <2>1, <3>1 DEF RcvClosed
  <2>2. CASE RcvRequest(p)
    <3>1. PICK request : request = Head(net[p]).manifest
      OBVIOUS
    <3>2. \/ UNCHANGED rcv
          \/ rcv' = [rcv EXCEPT ![p] = [rcv[p] EXCEPT !.pending = request]]
          \/ \E written \in BOOLEAN :
               rcv' = [rcv EXCEPT ![p] = Responded(rcv[p], request, TRUE, written)]
      BY <2>2, <3>1 DEF RcvRequest, WriteOutcomes
    <3>3. [rcv[p] EXCEPT !.pending = request].receiver = rcv[p].receiver
      BY <1>1 DEF Incoming
    <3>4. \A written \in BOOLEAN :
            Responded(rcv[p], request, TRUE, written).receiver = rcv[p].receiver
      BY <1>1 DEF Responded, Incoming
    <3> QED
      BY <3>2, <3>3, <3>4, SameHalves
  <2>3. CASE UNCHANGED rcv
    BY <2>3, SameHalves
  <2> QED
    BY <2>1, <2>2, <2>3, Zenon
    DEF RcvStaleResponse, RcvDeclined, RcvProgress, RcvPartition, RcvIgnoredChunk
<1>4. UNCHANGED saved
  BY Zenon DEF RcvStaleResponse, RcvDeclined, RcvProgress, RcvPartition, RcvRequest,
               RcvClosed, RcvIgnoredChunk
<1> QED
  BY <1>1, <1>2, <1>3, <1>4, QuietExact, ExchangeExact

LEMMA HeaderExact ==
  ASSUME TypeInv, NoneOver, NEW p \in Peer, RcvHeader(p)
  PROVE  NoneOver'
<1>1. net[p] # <<>> /\ rcv[p] \in Incoming /\ (rcv[p].receiver # None => ~rcv[p].receiver.over)
  BY DEF RcvHeader, Arrives, NoneOver, TypeInv, TypeOK
<1> DEFINE staged == [header |-> Head(net[p]).header, data |-> <<>>, over |-> FALSE]
           half == [rcv[p] EXCEPT !.inFile = 0, !.receiver = staged]
<1>2. Exchange(p, <<>>) /\ UNCHANGED saved
  BY DEF RcvHeader, Fail
<1>3. \/ rcv' = [rcv EXCEPT ![p] = rcv[p]]
      \/ rcv' = [rcv EXCEPT ![p] = ResetRcv(p)]
      \/ rcv' = [rcv EXCEPT ![p] = half]
  BY SameHalves DEF RcvHeader, Fail
<1>4. ResetRcv(p).receiver = None
  BY DEF ResetRcv, FreshRcv
<1>5. ~half.receiver.over
  BY <1>1 DEF Incoming
<1>6. <<>> \in Seq(Exact)
  OBVIOUS
<1> HIDE DEF half
<1> QED
  BY <1>1, <1>2, <1>3, <1>4, <1>5, <1>6, ExchangeExact

LEMMA ChunkExact ==
  ASSUME TypeInv, AllTidy, NoneOver, Faultless', NEW p \in Peer,
         RcvChunk(p) \/ RcvLastChunk(p) \/ RcvChunkFails(p)
  PROVE  NoneOver'
<1>1. Arrives(p, "Chunk") /\ rcv[p].receiver # None /\ ~RcvChunkFails(p)
  BY FaultsKnown DEF RcvChunk, RcvLastChunk, RcvChunkFails
<1>2. /\ net[p] # <<>> /\ rcv[p] \in Incoming /\ rcv[p].receiver \in Receiver
      /\ ~rcv[p].receiver.over /\ ~Head(net[p]).over
  <2>1. net[p] # <<>> /\ net[p] \in Seq(Exact) /\ Head(net[p]).type = "Chunk"
    BY <1>1 DEF Arrives, NoneOver
  <2>2. Head(net[p]) \in Exact
    BY <2>1, HeadTailProperties
  <2> QED
    BY <1>1, <2>1, <2>2 DEF Exact, NoneOver, TypeInv, TypeOK, Incoming
<1> DEFINE receiver == [rcv[p].receiver EXCEPT !.data = Append(@, Head(net[p]).chunk),
                                           !.over = @ \/ Head(net[p]).over]
<1>3. PICK last : Received(p).half =
        [rcv[p] EXCEPT !.receiver = receiver, !.inFile = @ + 1, !.lastProgress = last]
  BY <1>2, Zenon DEF Received
<1>4. ~receiver.over
  BY <1>2 DEF Receiver
<1> HIDE DEF receiver
<1>5. PICK half \in Incoming : half = Received(p).half
  BY <1>1, ReceivedFields
<1>6. half.receiver = receiver /\ ~half.receiver.over /\ half.receiver \in Receiver
      /\ half.remaining # <<>> /\ half.accepted # <<>> /\ half.pending = <<>>
      /\ Tidy(half)
  <2>1. half.receiver = receiver
    BY <1>2, <1>3, <1>5 DEF Incoming
  <2> QED
    BY <1>1, <1>4, <1>5, <2>1, ReceivedFields
<1>7. PICK frames \in Seq(Quiet) : frames = Received(p).frames
  BY <1>1, ReceivedReads
<1> DEFINE finished == Finished(half)
           stuck == [finished EXCEPT !.accepted = half.accepted, !.remaining = half.remaining,
                       !.received = Append(half.received, half.receiver.header)]
           complete == <<[type |-> "FileTransferComplete"]>>
<1>8. /\ \/ rcv' = [rcv EXCEPT ![p] = half]
         \/ rcv' = [rcv EXCEPT ![p] = finished]
         \/ rcv' = [rcv EXCEPT ![p] = stuck]
      /\ \/ Exchange(p, frames) \/ Exchange(p, <<>>) \/ Exchange(p, frames \o complete)
      /\ \/ UNCHANGED saved
         \/ saved' = [saved EXCEPT ![p] = Append(saved[p], half.receiver)]
  BY <1>1, <1>5, <1>7, Zenon DEF RcvChunk, RcvLastChunk
<1>9. finished.receiver = None /\ finished \in Incoming
  BY <1>6, FinishedFields, FinishedType
<1>10. stuck.receiver = None
  <2> HIDE DEF finished
  <2> QED
    BY <1>9 DEF Incoming
<1>11. PICK answer \in Seq(Exact) : Exchange(p, answer)
  <2>1. frames \o complete \in Seq(Quiet) /\ <<>> \in Seq(Quiet)
    BY QuietConstructors, ConcatProperties
  <2> QED
    BY <1>8, <2>1, QuietExact
<1> HIDE DEF finished, stuck
<1>12. PICK some : /\ rcv' = [rcv EXCEPT ![p] = some]
                   /\ some.receiver # None => ~some.receiver.over
  BY <1>6, <1>8, <1>9, <1>10
<1>13. /\ net' \in [Peer -> Seq(Exact)]
       /\ \A q \in Peer : rcv'[q].receiver # None => ~rcv'[q].receiver.over
  BY <1>2, <1>11, <1>12, ExchangeExact
<1>14. \A q \in Peer : \A i \in DOMAIN saved'[q] : ~saved'[q][i].over
  <2>1. CASE UNCHANGED saved
    BY <2>1 DEF NoneOver
  <2>2. CASE saved' = [saved EXCEPT ![p] = Append(saved[p], half.receiver)]
    <3> SUFFICES ASSUME NEW q \in Peer, NEW i \in DOMAIN saved'[q] PROVE ~saved'[q][i].over
      OBVIOUS
    <3>1. saved \in [Peer -> Seq(Receiver)]
      BY DEF TypeInv, TypeOK
    <3>2. PICK files \in Seq(Receiver) : files = saved[p]
      BY <3>1
    <3>3. PICK n \in Nat : n = Len(files) /\ DOMAIN files = 1..n
      BY LenProperties
    <3>4. PICK more \in Seq(Receiver) : more = Append(files, half.receiver)
      BY <1>6, AppendProperties
    <3>5. /\ DOMAIN more = 1..(n + 1) /\ more[n + 1] = half.receiver
          /\ \A k \in 1..n : more[k] = files[k]
      BY <1>6, <3>3, <3>4, AppendProperties, LenProperties
    <3>6. \A k \in 1..n : ~files[k].over
      BY <3>2, <3>3 DEF NoneOver
    <3>7. CASE q = p
      <4>1. saved'[q] = more
        BY <2>2, <3>1, <3>2, <3>4, <3>7
      <4>2. i = n + 1 \/ i \in 1..n
        BY <3>5, <4>1
      <4> QED
        BY <1>6, <3>5, <3>6, <4>1, <4>2
    <3>8. CASE q # p
      <4>1. saved'[q] = saved[q]
        BY <2>2, <3>1, <3>8
      <4> QED
        BY <4>1 DEF NoneOver
    <3> QED
      BY <3>7, <3>8
  <2> QED
    BY <1>8, <2>1, <2>2
<1> QED
  BY <1>13, <1>14 DEF NoneOver

LEMMA LinkDropExact ==
  ASSUME TypeInv, NoneOver, LinkDrop
  PROVE  NoneOver'
<1> DEFINE cut(q, n) == Append(SubSeq(net[q], 1, n), [type |-> "Closed"])
<1>1. PICK p \in Peer : \E here \in 0..Len(net[p]), there \in 0..Len(net[Other(p)]) :
        net' = [net EXCEPT ![p] = cut(p, here), ![Other(p)] = cut(Other(p), there)]
  BY Zenon DEF LinkDrop
<1>2. UNCHANGED <<rcv, saved>>
  BY DEF LinkDrop
<1>3. ASSUME NEW q \in Peer, NEW n \in 0..Len(net[q]) PROVE cut(q, n) \in Seq(Exact)
  <2>1. net[q] \in Seq(Exact) /\ n \in Nat /\ n <= Len(net[q])
    BY DEF NoneOver
  <2>2. SubSeq(net[q], 1, n) \in Seq(Exact)
    BY <2>1, SubSeqProperties
  <2>3. [type |-> "Closed"] \in Exact
    BY MessageConstructors DEF Exact
  <2> QED
    BY <2>2, <2>3, AppendProperties
<1>4. Other(p) \in Peer /\ net \in [Peer -> Seq(Exact)]
  BY OtherPeer DEF NoneOver
<1> HIDE DEF cut
<1>5. net' \in [Peer -> Seq(Exact)]
  BY <1>1, <1>3, <1>4
<1> QED
  BY <1>2, <1>5 DEF NoneOver

LEMMA StepOver == TypeInv /\ AllTidy /\ FaultlessOver /\ [Next]_vars => FaultlessOver'
<1> SUFFICES ASSUME TypeInv, AllTidy, FaultlessOver, [Next]_vars, Faultless'
             PROVE  NoneOver'
  BY DEF FaultlessOver
<1>1. Faultless
  BY FaultsOnlyGrow
<1>2. NoneOver
  BY <1>1 DEF FaultlessOver
<1>3. CASE UNCHANGED vars
  BY <1>2, <1>3 DEF vars, NoneOver
<1>4. ASSUME NEW p \in Peer, Receive(p) PROVE NoneOver'
  BY <1>2, <1>4, SendingExact, AnsweringExact, HeaderExact, ChunkExact DEF Receive
<1>5. CASE Redial
  <2>1. /\ rcv' = [q \in Peer |-> FreshRcv] /\ UNCHANGED <<net, saved>>
    BY <1>5 DEF Redial
  <2>2. FreshRcv.receiver = None
    BY DEF FreshRcv
  <2> QED
    BY <1>2, <2>1, <2>2 DEF NoneOver
<1> QED
  BY <1>2, <1>3, <1>4, <1>5, UserExact, LinkDropExact DEF Next

\* Whatever fails, is reset, is lost or is sent again, a file in the download directory is
\* the file its header names: every chunk of it, once and in order.  Its last chunk runs past
\* the size in the header only if some file changed or could not be read or saved.
THEOREM SavedFilesAreIntact == Spec => []SavedIntact
<1>1. Init => TypeInv /\ AllTidy /\ InStep /\ WholeSaved /\ FaultlessOver
  <2> SUFFICES ASSUME Init PROVE TypeInv /\ AllTidy /\ InStep /\ WholeSaved /\ FaultlessOver
    OBVIOUS
  <2>1. TypeInv /\ AllTidy
    BY InitTypeInv, InitDelivery
  <2>2. InStep
    BY FreshFits, TwoPeers DEF Init, InStep
  <2>3. WholeSaved
    BY DEF Init, WholeSaved
  <2>4. NoneOver
    BY DEF Init, NoneOver, FreshRcv
  <2> QED
    BY <2>1, <2>2, <2>3, <2>4 DEF FaultlessOver
<1>2. TypeInv /\ AllTidy /\ InStep /\ WholeSaved /\ FaultlessOver /\ [Next]_vars =>
        (TypeInv /\ AllTidy /\ InStep /\ WholeSaved /\ FaultlessOver)'
  BY StepTypeInv, StepDelivery, StepSaved, StepOver
<1>3. WholeSaved /\ FaultlessOver => SavedIntact
  <2> SUFFICES ASSUME WholeSaved, FaultlessOver, NEW p \in Peer, NEW i \in DOMAIN saved[p]
               PROVE  /\ saved[p][i].data = WholeFile(saved[p][i].header)
                      /\ saved[p][i].over => ~Faultless
    BY Zenon DEF SavedIntact
  <2> QED
    BY DEF WholeSaved, FaultlessOver, NoneOver
<1> QED
  BY <1>1, <1>2, <1>3, PTL DEF Spec
=============================================================================
