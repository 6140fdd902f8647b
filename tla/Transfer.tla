------------------------------ MODULE Transfer ------------------------------
(***************************************************************************)
(* Two `Transfer` state machines (linux/crates/pairdrop-transfer) joined   *)
(* by one ordered data channel.  Every frame handler, every engine command *)
(* that reaches the machine and the loss of the channel is one action; a   *)
(* handler runs to its end in one step because the engine's select! loop   *)
(* polls one event at a time.                                              *)
(*                                                                         *)
(* Files are counted in chunks: chunk <<f, i>> is the i-th chunk of f, and *)
(* it is `over` if it holds bytes past the size in the header of f.        *)
(***************************************************************************)
EXTENDS Naturals, Sequences, SequencesExt

CONSTANTS
  Peer,           \* the two ends of the channel
  File,           \* names of files
  Size,           \* chunks in each file; 0: missing, empty or a folder
  PartitionSize,  \* CHUNKS_PER_PARTITION, 16 in the code
  ProgressSteps,  \* progress frames per batch at most, 200 (0.005) in the code
  Senders,        \* the ends whose user sends files
  AutoAccept,     \* the ends whose Transfer has auto_accept set
  Batches,        \* what a user may pick to send: sequences of files
  None,           \* no chunker, no receiver
  MaxRequests, MaxFaults, MaxDrops  \* bounds on the environment

ASSUME PeerAssumption ==
  /\ \E p, q \in Peer : p # q /\ Peer = {p, q}
  /\ Senders \subseteq Peer
  /\ AutoAccept \subseteq Peer
ASSUME SizeAssumption == Size \in [File -> Nat]
ASSUME PartitionAssumption == PartitionSize \in Nat \ {0}
ASSUME ProgressAssumption == ProgressSteps \in Nat \ {0}
ASSUME BatchAssumption == Batches \subseteq Seq(File)
ASSUME BoundAssumption ==
  MaxRequests \in Nat /\ MaxFaults \in Nat /\ MaxDrops \in Nat
ASSUME NoneAssumption ==
  /\ None \notin [name : File, size : Nat, offset : Nat]
  /\ None \notin [header : [name : File, size : Nat], data : Seq(File \X Nat),
                 over : BOOLEAN]

VARIABLES
  activity,  \* what each Transfer is doing
  snd,       \* its outgoing half
  rcv,       \* its incoming half
  net,       \* frames on their way to each end, oldest first
  up,        \* the data channel is open
  saved,     \* what each end has moved into its download directory
  busy,      \* PeerView.busy, which disables the row of the other end
  events,    \* the events pushed by the last step
  budget     \* what the environment may still do

vars == <<activity, snd, rcv, net, up, saved, busy, events, budget>>

Other(p) == CHOOSE q \in Peer : q # p

-----------------------------------------------------------------------------
(* Data.                                                                   *)

Activity == {"Idle", "AwaitingResponse", "Sending", "IncomingRequest", "Receiving"}
FileHeader == [name : File, size : Nat]
Manifest == Seq(FileHeader)       \* an empty manifest stands for no request
Chunk == File \X Nat
Chunker == {c \in [name : File, size : Nat, offset : Nat] : c.offset <= c.size}
Receiver == [header : FileHeader, data : Seq(Chunk), over : BOOLEAN]

Message ==
  [type : {"Request"}, manifest : Manifest]
    \union [type : {"Response"}, accepted : BOOLEAN]
    \union [type : {"Header"}, header : FileHeader]
    \union [type : {"Chunk"}, chunk : Chunk, over : BOOLEAN]
    \union [type : {"Progress"}, whole : BOOLEAN]
    \union [type : {"Partition", "PartitionReceived", "FileTransferComplete", "Closed"}]

Event ==
  [kind : {"SendProgress", "ReceiveProgress"}, whole : BOOLEAN]
    \union [kind : {"FilesReceived"}, files : Manifest]
    \union [kind : {"SendingFinished"}, count : Nat]
    \union [kind : {"RequestReceived", "Declined", "Failed"}]

\* The machine of Transfer::new, an outgoing and an incoming half.  `offered`
\* is the manifest of the last request sent; total_outgoing is its size.
FreshSnd == [requested |-> <<>>, queue |-> <<>>, chunker |-> None, offered |-> <<>>,
             sentBefore |-> 0, sentIn |-> 0, filesSent |-> 0]
FreshRcv == [pending |-> <<>>, accepted |-> <<>>, remaining |-> <<>>, receiver |-> None,
             received |-> <<>>, total |-> 0, inFile |-> 0, lastProgress |-> 0]

HeaderOf(f) == [name |-> f, size |-> Size[f]]

\* Mutant of ResetRcv: the staged file outlives the reset.
ResetRcvKeepsReceiver(p) ==
  [FreshRcv EXCEPT !.lastProgress = rcv[p].lastProgress, !.receiver = rcv[p].receiver]

\* Mutant of ResetRcv: the files still expected outlive the reset.
ResetRcvKeepsRemaining(p) ==
  [FreshRcv EXCEPT !.lastProgress = rcv[p].lastProgress, !.remaining = rcv[p].remaining]

\* reset() keeps total_outgoing and last_reported_progress
ResetSnd(p) == [FreshSnd EXCEPT !.offered = snd[p].offered]
ResetRcv(p) == [FreshRcv EXCEPT !.lastProgress = rcv[p].lastProgress]

Names(manifest) == [i \in DOMAIN manifest |-> manifest[i].name]

\* request.total_size, in chunks
TotalSize(manifest) ==
  LET total[i \in 0..Len(manifest)] ==
        IF i = 0 THEN 0 ELSE total[i - 1] + manifest[i].size
  IN  total[Len(manifest)]

\* What a file of this header holds.
WholeFile(header) == [i \in 1..header.size |-> <<header.name, i>>]

\* The frames of a partition; grown: the last one runs past the size in the header.
ChunksOf(name, first, last, grown) ==
  [i \in 1..(last - first + 1) |->
    [type |-> "Chunk", chunk |-> <<name, first + i - 1>>,
     over |-> grown /\ i = last - first + 1]]

-----------------------------------------------------------------------------
(* What every step does besides its own updates.                           *)

\* Mutant of BusyAfter: receiving the last file does not free the row.
BusyAfterReceiving(before, pushed) ==
  IF pushed = <<>> \/ Last(pushed).kind \in {"RequestReceived", "FilesReceived"}
  THEN before
  ELSE /\ Last(pushed).kind \in {"SendProgress", "ReceiveProgress"}
       /\ ~Last(pushed).whole

\* What apply_transfer_events makes of the row: only progress that is short of
\* the whole keeps it busy.
BusyAfter(before, pushed) ==
  IF pushed = <<>> \/ Last(pushed).kind = "RequestReceived"
  THEN before
  ELSE /\ Last(pushed).kind \in {"SendProgress", "ReceiveProgress"}
       /\ ~Last(pushed).whole

Push(p, pushed) ==
  /\ events' = [q \in Peer |-> IF q = p THEN pushed ELSE <<>>]
  /\ busy' = [busy EXCEPT ![p] = BusyAfter(@, pushed)]

\* Frames written to a closed channel go nowhere.
Written(frames) == IF up THEN frames ELSE <<>>

\* A command of the user at p, which writes frames.
Write(p, frames) ==
  net' = [net EXCEPT ![Other(p)] = @ \o Written(frames)]

\* The handler of the frame at the head of net[p], which writes frames.
Exchange(p, frames) ==
  net' = [net EXCEPT ![p] = Tail(@), ![Other(p)] = @ \o Written(frames)]

\* The first write of a handler succeeds on an open channel.  After the channel
\* is lost it may report an error, and the handler returns there.
WriteOutcomes == IF up THEN {TRUE} ELSE BOOLEAN

Arrives(p, type) == net[p] # <<>> /\ Head(net[p]).type = type

NoFault == UNCHANGED budget
Fault == budget.faults > 0 /\ budget' = [budget EXCEPT !.faults = @ - 1]

\* fail(): everything in flight is dropped, at this end only.
Fail(p, frames, pushed) ==
  /\ activity' = [activity EXCEPT ![p] = "Idle"]
  /\ snd' = [snd EXCEPT ![p] = ResetSnd(p)]
  /\ rcv' = [rcv EXCEPT ![p] = ResetRcv(p)]
  /\ Exchange(p, frames)
  /\ Push(p, Append(pushed, [kind |-> "Failed"]))
  /\ UNCHANGED <<up, saved>>

-----------------------------------------------------------------------------
(* Commands of the user.                                                   *)

Init ==
  /\ activity = [p \in Peer |-> "Idle"]
  /\ snd = [p \in Peer |-> FreshSnd]
  /\ rcv = [p \in Peer |-> FreshRcv]
  /\ net = [p \in Peer |-> <<>>]
  /\ up = TRUE
  /\ saved = [p \in Peer |-> <<>>]
  /\ busy = [p \in Peer |-> FALSE]
  /\ events = [p \in Peer |-> <<>>]
  /\ budget = [requests |-> MaxRequests, faults |-> MaxFaults, drops |-> MaxDrops]

\* PeerView.connected: the engine has not handled Closed yet.
Connected(p) == up \/ net[p] # <<>>

Sendable(batch) == {i \in DOMAIN batch : Size[batch[i]] > 0}

\* The manifest send_files builds: what cannot be sent is skipped, the rest is
\* listed in the order it was picked.
ManifestsOf(batch) ==
  UNION { LET picks == {keep \in [1..n -> DOMAIN batch] :
                          /\ {keep[i] : i \in 1..n} = Sendable(batch)
                          /\ \A i, j \in 1..n : i < j => keep[i] < keep[j]}
          IN  {[i \in 1..n |-> HeaderOf(batch[keep[i]])] : keep \in picks}
        : n \in 1..Len(batch) }

\* send_files.  A request the closed channel refuses leaves the same state behind.
SendFiles(p) ==
  /\ p \in Senders /\ Connected(p) /\ budget.requests > 0
  /\ activity[p] = "Idle"
  /\ \E batch \in Batches : \E manifest \in ManifestsOf(batch) :
       /\ snd' = [snd EXCEPT ![p] =
            [@ EXCEPT !.requested = Names(manifest), !.offered = manifest]]
       /\ Write(p, <<[type |-> "Request", manifest |-> manifest]>>)
  /\ activity' = [activity EXCEPT ![p] = "AwaitingResponse"]
  /\ Push(p, <<>>)
  /\ budget' = [budget EXCEPT !.requests = @ - 1]
  /\ UNCHANGED <<rcv, up, saved>>

\* send_files when nothing picked can be sent.
SendNothing(p) ==
  /\ p \in Senders /\ Connected(p) /\ budget.requests > 0
  /\ activity[p] = "Idle"
  /\ \E batch \in Batches : Sendable(batch) = {}
  /\ Push(p, <<[kind |-> "Failed"]>>)
  /\ budget' = [budget EXCEPT !.requests = @ - 1]
  /\ UNCHANGED <<activity, snd, rcv, net, up, saved>>

\* What respond leaves in the incoming half: the pending request is taken before
\* the answer is written, the rest follows only if that worked.
Responded(half, request, accepted, written) ==
  IF accepted /\ written
  THEN [half EXCEPT !.pending = <<>>, !.accepted = request, !.remaining = request,
                    !.received = <<>>, !.total = 0, !.inFile = 0, !.lastProgress = 0]
  ELSE [half EXCEPT !.pending = <<>>]

RespondEvents(accepted, written) ==
  IF accepted /\ written THEN <<[kind |-> "ReceiveProgress", whole |-> FALSE]>> ELSE <<>>

Response(accepted) == [type |-> "Response", accepted |-> accepted]

\* respond(accepted), the user's answer to the request that is pending now.
Respond(p, accepted) ==
  /\ rcv[p].pending # <<>>
  /\ \E written \in WriteOutcomes :
       /\ activity' = [activity EXCEPT ![p] =
            IF ~written THEN @ ELSE IF accepted THEN "Receiving" ELSE "Idle"]
       /\ rcv' = [rcv EXCEPT ![p] = Responded(@, rcv[p].pending, accepted, written)]
       /\ Push(p, RespondEvents(accepted, written))
  /\ Write(p, <<Response(accepted)>>)
  /\ NoFault
  /\ UNCHANGED <<snd, up, saved>>

-----------------------------------------------------------------------------
(* The sender reads a file partition by partition.                         *)

\* Mutants of PartitionEnd: a chunk too many, and no look at the file's end.
PartitionEndLate(c) ==
  IF c.offset + PartitionSize + 1 < c.size THEN c.offset + PartitionSize + 1 ELSE c.size
PartitionEndBlind(c) == c.offset + PartitionSize

\* read_partition stops at the partition threshold or at the end of the file.
PartitionEnd(c) ==
  IF c.offset + PartitionSize < c.size THEN c.offset + PartitionSize ELSE c.size

\* The partition reads the file's last chunk.  next_chunk fills it whatever the size in
\* the header, so of a file that has grown it takes what fits.
ReadsLastChunk(c) == c.offset < c.size /\ PartitionEnd(c) = c.size

\* What read_partition leaves after reading up to chunk `last`: short of the
\* partition's end the file has shrunk, which next_chunk takes for the file's end.
Reading(c, last) ==
  [c EXCEPT !.offset = IF last = PartitionEnd(c) THEN last ELSE c.size]

\* send_next_partition once the chunks up to `last` are read, after the frames of
\* next_file, if it is the caller; s is the outgoing half with the file's chunker.  (The
\* progress counts a chunk that runs over like any other.)
PutPartition(p, s, act, header, pushed, last, grown) ==
  LET c == s.chunker
      read == Reading(c, last)
      chunks == ChunksOf(c.name, c.offset + 1, last, grown)
      pause == IF read.offset < c.size THEN <<[type |-> "Partition"]>> ELSE <<>>
      progress(sent) ==
        IF act = "Sending"
        THEN <<[kind |-> "SendProgress",
                whole |-> s.sentBefore + sent >= TotalSize(s.offered)]>>
        ELSE <<>>
  IN  /\ \E written \in WriteOutcomes :
           IF written
           THEN LET sent == s.sentIn + (last - c.offset)
                IN  /\ snd' = [snd EXCEPT ![p] = [s EXCEPT !.chunker = read, !.sentIn = sent]]
                    /\ Push(p, pushed \o progress(sent))
           ELSE /\ snd' = [snd EXCEPT ![p] =
                     [s EXCEPT !.chunker = IF header = <<>> THEN read ELSE c]]
                /\ Push(p, pushed)
      /\ activity' = [activity EXCEPT ![p] = act]
      /\ Exchange(p, header \o chunks \o pause)
      /\ UNCHANGED <<rcv, up, saved>>

\* next_file, with a queue that is not empty.  Since the request the file may
\* have gone, or have another size; it may shrink or grow while it is read.
NextFile(p, s, act, pushed) ==
  LET name == Head(s.queue)
      open(size) == [s EXCEPT !.queue = Tail(@), !.sentIn = 0,
                       !.chunker = [name |-> name, size |-> size, offset |-> 0]]
      header(size) == <<[type |-> "Header", header |-> [name |-> name, size |-> size]]>>
      put(size, last, grown) ==
        PutPartition(p, open(size), act, header(size), pushed, last, grown)
      end(size) == PartitionEnd(open(size).chunker)
  IN  \/ NoFault /\ put(Size[name], end(Size[name]), FALSE)
      \/ /\ Fault
         /\ \/ \E size \in 0..(Size[name] + 1) \ {Size[name]} : put(size, end(size), FALSE)
            \/ \E last \in 0..(end(Size[name]) - 1) : put(Size[name], last, FALSE)
            \/ ReadsLastChunk(open(Size[name]).chunker) /\ put(Size[name], end(Size[name]), TRUE)
            \/ Fail(p, <<>>, pushed)
            \/ Fail(p, header(Size[name]), pushed)

\* A response nobody waits for is ignored.
RcvStaleResponse(p) ==
  /\ Arrives(p, "Response")
  /\ activity[p] # "AwaitingResponse"
  /\ Exchange(p, <<>>) /\ Push(p, <<>>) /\ NoFault
  /\ UNCHANGED <<activity, snd, rcv, up, saved>>

RcvDeclined(p) ==
  /\ Arrives(p, "Response") /\ ~Head(net[p]).accepted
  /\ activity[p] = "AwaitingResponse"
  /\ activity' = [activity EXCEPT ![p] = "Idle"]
  /\ snd' = [snd EXCEPT ![p].requested = <<>>]
  /\ Exchange(p, <<>>)
  /\ Push(p, <<[kind |-> "Declined"]>>)
  /\ NoFault
  /\ UNCHANGED <<rcv, up, saved>>

\* start_sending
RcvAccepted(p) ==
  /\ Arrives(p, "Response") /\ Head(net[p]).accepted
  /\ activity[p] = "AwaitingResponse"
  /\ NextFile(p, [snd[p] EXCEPT !.queue = snd[p].requested, !.requested = <<>>,
                                !.sentBefore = 0, !.filesSent = 0],
              "Sending", <<[kind |-> "SendProgress", whole |-> FALSE]>>)

\* send_next_partition, which does nothing without a chunker and reads nothing at the
\* file's end
RcvPartitionReceived(p) ==
  /\ Arrives(p, "PartitionReceived")
  /\ LET c == snd[p].chunker IN
     \/ /\ c = None
        /\ Exchange(p, <<>>) /\ Push(p, <<>>) /\ NoFault
        /\ UNCHANGED <<activity, snd, rcv, up, saved>>
     \/ /\ c # None
        /\ \/ NoFault /\ PutPartition(p, snd[p], activity[p], <<>>, <<>>, PartitionEnd(c), FALSE)
           \/ Fault /\ \E last \in c.offset..(PartitionEnd(c) - 1) :
                PutPartition(p, snd[p], activity[p], <<>>, <<>>, last, FALSE)
           \/ /\ ReadsLastChunk(c) /\ Fault
              /\ PutPartition(p, snd[p], activity[p], <<>>, <<>>, PartitionEnd(c), TRUE)
           \/ c.offset < c.size /\ Fault /\ Fail(p, <<>>, <<>>)

RcvProgress(p) ==
  /\ Arrives(p, "Progress")
  /\ Exchange(p, <<>>)
  /\ Push(p, IF activity[p] = "Sending"
             THEN <<[kind |-> "SendProgress", whole |-> Head(net[p]).whole]>> ELSE <<>>)
  /\ NoFault
  /\ UNCHANGED <<activity, snd, rcv, up, saved>>

\* The completion of a file moves on to the next one whatever the machine is doing.
RcvFileTransferComplete(p) ==
  /\ Arrives(p, "FileTransferComplete")
  /\ LET counted == [snd[p] EXCEPT !.sentBefore = @ + snd[p].sentIn, !.sentIn = 0,
                                   !.filesSent = @ + 1, !.chunker = None]
     IN  \/ /\ snd[p].queue # <<>>
            /\ NextFile(p, counted, activity[p], <<>>)
         \/ /\ snd[p].queue = <<>>
            /\ snd' = [snd EXCEPT ![p] = [counted EXCEPT !.filesSent = 0]]
            /\ activity' = [activity EXCEPT ![p] = "Idle"]
            /\ Push(p, <<[kind |-> "SendingFinished", count |-> counted.filesSent]>>)
            /\ Exchange(p, <<>>) /\ NoFault
            /\ UNCHANGED <<rcv, up, saved>>

-----------------------------------------------------------------------------
(* The receiver stages each file and moves it into place when it is whole. *)

RcvRequest(p) ==
  /\ Arrives(p, "Request")
  /\ NoFault
  /\ UNCHANGED <<snd, up, saved>>
  /\ LET request == Head(net[p]).manifest IN
     \/ \* one request at a time
        /\ rcv[p].pending # <<>> \/ rcv[p].accepted # <<>>
        /\ Exchange(p, <<Response(FALSE)>>)
        /\ Push(p, <<>>)
        /\ UNCHANGED <<activity, rcv>>
     \/ \* the user is asked
        /\ rcv[p].pending = <<>> /\ rcv[p].accepted = <<>>
        /\ p \notin AutoAccept
        /\ rcv' = [rcv EXCEPT ![p].pending = request]
        /\ activity' = [activity EXCEPT ![p] = "IncomingRequest"]
        /\ Exchange(p, <<>>)
        /\ Push(p, <<[kind |-> "RequestReceived"]>>)
     \/ \* respond(true) at once
        /\ rcv[p].pending = <<>> /\ rcv[p].accepted = <<>>
        /\ p \in AutoAccept
        /\ Exchange(p, <<Response(TRUE)>>)
        /\ \E written \in WriteOutcomes :
             /\ rcv' = [rcv EXCEPT ![p] = Responded(@, request, TRUE, written)]
             /\ activity' = [activity EXCEPT ![p] =
                  IF written THEN "Receiving" ELSE "IncomingRequest"]
             /\ Push(p, RespondEvents(TRUE, written))

\* begin_incoming_file: the file must be the next one of the manifest.
RcvHeader(p) ==
  /\ Arrives(p, "Header")
  /\ LET header == Head(net[p]).header IN
     \/ /\ rcv[p].accepted = <<>> \/ rcv[p].remaining = <<>>
        /\ Exchange(p, <<>>) /\ Push(p, <<>>) /\ NoFault
        /\ UNCHANGED <<activity, snd, rcv, up, saved>>
     \/ /\ rcv[p].accepted # <<>> /\ rcv[p].remaining # <<>>
        /\ \/ \* not the file that was agreed
              header # Head(rcv[p].remaining) /\ NoFault /\ Fail(p, <<>>, <<>>)
           \/ \* it cannot be staged
              header = Head(rcv[p].remaining) /\ Fault /\ Fail(p, <<>>, <<>>)
           \/ /\ header = Head(rcv[p].remaining)
              /\ rcv' = [rcv EXCEPT ![p].inFile = 0,
                                    ![p].receiver = [header |-> header, data |-> <<>>,
                                                     over |-> FALSE]]
              /\ Exchange(p, <<>>) /\ Push(p, <<>>) /\ NoFault
              /\ UNCHANGED <<activity, snd, up, saved>>

\* append and report_receive_progress, which is silent without an accepted request:
\* the incoming half with one more chunk.
Received(p) ==
  LET half == rcv[p]
      done == half.total + half.inFile + 1
      size == TotalSize(half.accepted)
      whole == done >= size
      due == /\ size > 0
             /\ (done - half.lastProgress) * ProgressSteps >= size \/ whole
  IN  [half |-> [half EXCEPT !.receiver.data = Append(@, Head(net[p]).chunk),
                             !.receiver.over = @ \/ Head(net[p]).over,
                             !.inFile = @ + 1,
                             !.lastProgress = IF due THEN done ELSE @],
       events |-> IF size > 0 THEN <<[kind |-> "ReceiveProgress", whole |-> whole]>>
                  ELSE <<>>,
       frames |-> IF due THEN <<[type |-> "Progress", whole |-> whole]>> ELSE <<>>]

\* Mutants of IsComplete: a chunk too early, and only past the size.
IsCompleteEarly(receiver) == Len(receiver.data) + 1 >= receiver.header.size
IsCompleteLate(receiver) == Len(receiver.data) > receiver.header.size

IsComplete(receiver) == Len(receiver.data) >= receiver.header.size

\* Mutant of IsLastFile: the manifest is looked at before the file is off it.
IsLastFileLate(half) == half.remaining = <<>>

IsLastFile(half) == Len(half.remaining) <= 1

\* finish_incoming_file once the file is in the download directory.
Finished(half) ==
  LET header == half.receiver.header
      done == [half EXCEPT !.receiver = None, !.total = @ + header.size, !.inFile = 0,
                           !.received = Append(@, header),
                           !.remaining = IF @ = <<>> THEN @ ELSE Tail(@)]
  IN  IF IsLastFile(half) THEN [done EXCEPT !.accepted = <<>>, !.received = <<>>] ELSE done

RcvIgnoredChunk(p) ==
  /\ Arrives(p, "Chunk")
  /\ rcv[p].receiver = None
  /\ Exchange(p, <<>>) /\ Push(p, <<>>) /\ NoFault
  /\ UNCHANGED <<activity, snd, rcv, up, saved>>

\* A chunk that does not complete the file.
RcvChunk(p) ==
  /\ Arrives(p, "Chunk")
  /\ rcv[p].receiver # None
  /\ ~IsComplete(Received(p).half.receiver)
  /\ rcv' = [rcv EXCEPT ![p] = Received(p).half]
  /\ Exchange(p, Received(p).frames)
  /\ Push(p, Received(p).events)
  /\ NoFault
  /\ UNCHANGED <<activity, snd, up, saved>>

\* The chunk that completes the file.  The handler writes the progress, saves the
\* file, writes the completion, and then takes the file off the manifest; a failed
\* write ends it at that point.
RcvLastChunk(p) ==
  /\ Arrives(p, "Chunk")
  /\ rcv[p].receiver # None
  /\ IsComplete(Received(p).half.receiver)
  /\ NoFault
  /\ UNCHANGED <<snd, up>>
  /\ LET half == Received(p).half
         finished == Finished(half)
         file == half.receiver
         complete == <<[type |-> "FileTransferComplete"]>>
     IN  \/ /\ saved' = [saved EXCEPT ![p] = Append(@, file)]
            /\ rcv' = [rcv EXCEPT ![p] = finished]
            /\ Exchange(p, Received(p).frames \o complete)
            /\ IF finished.accepted = <<>>
               THEN /\ activity' = [activity EXCEPT ![p] = "Idle"]
                    /\ Push(p, Append(Received(p).events,
                         [kind |-> "FilesReceived",
                          files |-> Append(half.received, file.header)]))
               ELSE /\ activity' = activity
                    /\ Push(p, Received(p).events)
         \/ \* the progress cannot be written: the file stays staged
            /\ ~up /\ Received(p).frames # <<>>
            /\ rcv' = [rcv EXCEPT ![p] = half]
            /\ Exchange(p, <<>>)
            /\ Push(p, Received(p).events)
            /\ UNCHANGED <<activity, saved>>
         \/ \* the completion cannot be written: the file stays on the manifest
            /\ ~up
            /\ saved' = [saved EXCEPT ![p] = Append(@, file)]
            /\ rcv' = [rcv EXCEPT ![p] =
                 [finished EXCEPT !.accepted = half.accepted, !.remaining = half.remaining,
                                  !.received = Append(half.received, file.header)]]
            /\ Exchange(p, <<>>)
            /\ Push(p, Received(p).events)
            /\ UNCHANGED activity

\* Mutant of FramesBeforeSaving: the completion is written before the file is saved.
FramesWithCompletion(p) ==
  Append(Received(p).frames, [type |-> "FileTransferComplete"])

FramesBeforeSaving(p) == Received(p).frames

\* The chunk cannot be appended, or the file not be moved into place.
RcvChunkFails(p) ==
  /\ Arrives(p, "Chunk")
  /\ rcv[p].receiver # None
  /\ Fault
  /\ \/ Fail(p, <<>>, <<>>)
     \/ /\ IsComplete(Received(p).half.receiver)
        /\ Fail(p, FramesBeforeSaving(p), Received(p).events)

\* The sender paused for an acknowledgement, which it gets in every state.
RcvPartition(p) ==
  /\ Arrives(p, "Partition")
  /\ Exchange(p, <<[type |-> "PartitionReceived"]>>)
  /\ Push(p, <<>>) /\ NoFault
  /\ UNCHANGED <<activity, snd, rcv, up, saved>>

-----------------------------------------------------------------------------
(* The channel.                                                            *)

\* The connection is lost: what has not arrived never will, and each end learns
\* of the loss after the frames that have.
LinkDrop ==
  /\ up /\ budget.drops > 0
  /\ up' = FALSE
  /\ \E p \in Peer : \E here \in 0..Len(net[p]), there \in 0..Len(net[Other(p)]) :
       LET cut(q, n) == Append(SubSeq(net[q], 1, n), [type |-> "Closed"])
       IN  net' = [net EXCEPT ![p] = cut(p, here), ![Other(p)] = cut(Other(p), there)]
  /\ events' = [p \in Peer |-> <<>>]
  /\ budget' = [budget EXCEPT !.drops = @ - 1]
  /\ UNCHANGED <<activity, snd, rcv, saved, busy>>

\* RtcEvent::Closed: reset(), and the row loses its progress but not its busy flag.
RcvClosed(p) ==
  /\ Arrives(p, "Closed")
  /\ activity' = [activity EXCEPT ![p] = "Idle"]
  /\ snd' = [snd EXCEPT ![p] = ResetSnd(p)]
  /\ rcv' = [rcv EXCEPT ![p] = ResetRcv(p)]
  /\ Exchange(p, <<>>) /\ Push(p, <<>>) /\ NoFault
  /\ UNCHANGED <<up, saved>>

\* The peers meet again in a room: dial makes a new session and a new Transfer.
Redial ==
  /\ ~up /\ \A p \in Peer : net[p] = <<>>
  /\ up' = TRUE
  /\ activity' = [p \in Peer |-> "Idle"]
  /\ snd' = [p \in Peer |-> FreshSnd]
  /\ rcv' = [p \in Peer |-> FreshRcv]
  /\ busy' = [p \in Peer |-> FALSE]
  /\ events' = [p \in Peer |-> <<>>]
  /\ UNCHANGED <<net, saved, budget>>

-----------------------------------------------------------------------------

Receive(p) ==
  \/ RcvStaleResponse(p) \/ RcvDeclined(p) \/ RcvAccepted(p)
  \/ RcvPartitionReceived(p) \/ RcvProgress(p) \/ RcvFileTransferComplete(p)
  \/ RcvRequest(p) \/ RcvHeader(p) \/ RcvPartition(p)
  \/ RcvIgnoredChunk(p) \/ RcvChunk(p) \/ RcvLastChunk(p) \/ RcvChunkFails(p)
  \/ RcvClosed(p)

Next ==
  \/ \E p \in Peer : \/ SendFiles(p) \/ SendNothing(p)
                     \/ \E accepted \in BOOLEAN : Respond(p, accepted)
                     \/ Receive(p)
  \/ LinkDrop
  \/ Redial

Spec == Init /\ [][Next]_vars

\* The engine's loop keeps polling rtc events; no user is obliged to do anything.
FairSpec == Spec /\ \A p \in Peer : WF_vars(Receive(p))

-----------------------------------------------------------------------------

Sender == [requested : Seq(File), queue : Seq(File), chunker : Chunker \union {None},
           offered : Manifest, sentBefore : Nat, sentIn : Nat, filesSent : Nat]
Incoming == [pending : Manifest, accepted : Manifest, remaining : Manifest,
             receiver : Receiver \union {None}, received : Manifest,
             total : Nat, inFile : Nat, lastProgress : Nat]

TypeOK ==
  /\ activity \in [Peer -> Activity]
  /\ snd \in [Peer -> Sender]
  /\ rcv \in [Peer -> Incoming]
  /\ net \in [Peer -> Seq(Message)]
  /\ up \in BOOLEAN
  /\ saved \in [Peer -> Seq(Receiver)]
  /\ busy \in [Peer -> BOOLEAN]
  /\ events \in [Peer -> Seq(Event)]
  /\ budget \in [requests : 0..MaxRequests, faults : 0..MaxFaults, drops : 0..MaxDrops]

\* No file changed, or failed to be read or saved, so far: a local failure is not told to
\* the peer.
Faultless == budget.faults = MaxFaults

\* A file in the download directory is the file its header names: every chunk of it,
\* once and in order, whatever failed, was reset or was sent again before.  It is longer than
\* its header says only after a local fault, such as a file that grew while it was read.
SavedIntact ==
  \A p \in Peer : \A i \in DOMAIN saved[p] :
    /\ saved[p][i].data = WholeFile(saved[p][i].header)
    /\ saved[p][i].over => ~Faultless

\* An incoming half that keeps to one request: what was saved and what is still
\* expected make up the accepted manifest, only its next file is staged, and no
\* other request is pending meanwhile.
Honours(half) ==
  /\ half.accepted # <<>> => half.received \o half.remaining = half.accepted
  /\ half.receiver # None =>
       /\ half.accepted # <<>> /\ half.remaining # <<>>
       /\ half.receiver.header = Head(half.remaining)
  /\ half.pending # <<>> => half.accepted = <<>>

\* The manifest is a contract ("rejects_a_file_that_was_not_agreed"): while the channel
\* is open every end keeps to it.
ManifestHonoured == up => \A p \in Peer : Honours(rcv[p])

Pushed(p, kind) == {i \in DOMAIN events[p] : events[p][i].kind = kind}

\* "Waits for the sender to finish, which ... happens strictly after the receiver has
\* saved everything": a user told that sending finished has a peer who kept it all.  So it is
\* while one end sends; when both do, nothing ties a completion to the batch it finishes.
FinishedMeansSaved ==
  \A p \in Peer : \A i \in Pushed(p, "SendingFinished") :
    LET there == saved[Other(p)]
        n == Len(snd[p].offered)
    IN  /\ events[p][i].count = n
        /\ n <= Len(there)
        /\ \A k \in 1..n : there[Len(there) - n + k].header = snd[p].offered[k]

\* The partition handshake keeps at most one partition of chunks in flight.
InFlight(p) == Cardinality({i \in DOMAIN net[p] : net[p][i].type = "Chunk"})
OnePartitionInFlight == \A p \in Peer : InFlight(p) <= PartitionSize

\* When nothing is in flight on an open channel, both ends agree on what they wait for.
QuietMeansAgreed ==
  (Faultless /\ up /\ \A p \in Peer : net[p] = <<>>) =>
    \A p \in Peer :
      /\ activity[p] = "AwaitingResponse" <=> activity[Other(p)] = "IncomingRequest"
      /\ activity[p] \in {"Idle", "AwaitingResponse", "IncomingRequest"}

\* An end that sends is never stuck for good: every request is declined, the batch is
\* finished or the channel lost, unless a file fails or the other user does not answer.
RequestConcludes ==
  \A p \in Peer :
    []<>(\/ activity[p] \notin {"AwaitingResponse", "Sending"}
         \/ activity[Other(p)] = "IncomingRequest"
         \/ ~Faultless)

\* An end that accepted a request is not left receiving, unless a file fails.
ReceivingConcludes ==
  \A p \in Peer : activity[p] = "Receiving" ~> (activity[p] = "Idle" \/ ~Faultless)

\* A connected row that is disabled belongs to a machine that is doing something.
BusyRowIsBusy ==
  \A p \in Peer : busy[p] /\ Connected(p) => activity[p] # "Idle"

-----------------------------------------------------------------------------
(* The pair of machines implements FileDelivery.                           *)

\* The manifests of the requests on their way to p.
OfferedTo(p) ==
  {net[p][i].manifest : i \in {j \in DOMAIN net[p] : net[p][j].type = "Request"}}

Delivery == INSTANCE FileDelivery WITH
  Auto <- AutoAccept,
  open <- up,
  offers <- [p \in Peer |-> OfferedTo(p)],
  asked <- [p \in Peer |-> rcv[p].pending],
  contract <- [p \in Peer |-> rcv[p].remaining],
  delivered <- [p \in Peer |-> [i \in DOMAIN saved[p] |-> saved[p][i].header]]

\* Whatever fails, is reset, crosses or is lost, each step of the two machines is a step
\* of FileDelivery: a user is asked only about what the other end offered, and only what
\* was accepted reaches the download directory, in the order of the manifest and once.
ImplementsFileDelivery == Delivery!Spec
=============================================================================
