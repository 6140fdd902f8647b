----------------------------- MODULE CommandLine -----------------------------
(***************************************************************************)
(* The command line (crate pairdrop-cli): one device that joins its rooms, *)
(* calls and answers whoever is there, sends its files to those --to       *)
(* names, and stops when it is interrupted.  It runs a loop of its own     *)
(* over the signaling task, the sessions and the credential store.         *)
(*                                                                         *)
(* The other devices come and go; each stay of one is a life of its own.   *)
(* The frames of a transfer are in Transfer, the task in Signaling.        *)
(***************************************************************************)
EXTENDS Naturals, Sequences

CONSTANTS
  Remote,     \* the other devices
  Room,       \* the room of the public address and those of paired devices
  Ip, None,   \* the former; no session, no peer
  Registered, \* the rooms of the devices paired in earlier runs
  RoomsOf,    \* the rooms each other device is in while it is there
  Wanted,     \* the stays of each device in which its name contains what --to asks for
  MaxLives, \* how often each device comes
  MaxDrops, MaxPairings, \* bounds on the environment
  MaxBacklog \* how many unhandled events it leaves

ASSUME RoomAssumption ==
  /\ Ip \in Room /\ Registered \subseteq Room \ {Ip}
  /\ RoomsOf \in [Remote -> SUBSET Room]
  /\ Wanted \in [Remote -> SUBSET Nat]
  /\ None \notin Remote \union Room
ASSUME BoundAssumption ==
  /\ MaxLives \in [Remote -> Nat \ {0}]
  /\ MaxDrops \in Nat /\ MaxPairings \in Nat /\ MaxBacklog \in Nat \ {0}

VARIABLES
  peers,      \* peers: what is kept of each device
  paired,     \* secret_for_peer: the devices paired in this run
  joined, room, stopping,
  running,    \* main has not returned
  sessions,   \* every session built with each device, oldest first
  link,       \* the signaling task
  up,         \* what was handed to it
  down,       \* its events
  life,       \* which stay of each device this is; 0: it is away
  lives,      \* how often each device has come
  within,     \* server: the rooms this device is in
  batches,    \* how often the files were put on an open channel to each stay of a device
  late,       \* a device was met again before all of the last call with it was over
  budget

main == <<peers, paired, joined, room, stopping, running>>
others == <<life, lives, within>>
vars == <<main, sessions, link, up, down, others, batches, late, budget>>

-----------------------------------------------------------------------------

\* Peer: `wanted` says that the label contains what --to asks for; the first label, which
\* a call gives, does not.
Peer == [session : Nat \ {0}, wanted : BOOLEAN, sent : BOOLEAN, autoAccept : BOOLEAN]

ASSUME NoneAssumption == None \notin Peer

\* RtcEvent; the names are the frame a device announces itself with.
Report == {"LocalDescription", "Open", "Name", "WantedName", "Failed", "Closed"}

\* RtcSession: `remote` is the life whose description it has, `heard` says that life has
\* the session's own, `over` that it was told this device had left.
Session == [caller : BOOLEAN, remote : Nat, heard : BOOLEAN, over : BOOLEAN,
            state : {"new", "open", "failed", "closed"}, reports : Seq(Report)]

Shutdown == [type |-> "Shutdown"]
ClientMessage ==
  [type : {"JoinIpRoom", "RoomSecrets", "Shutdown"}]
    \union [type : {"Signal"}, peer : Remote, session : Nat \ {0}, room : Room]

SignalingEvent ==
  [type : {"WaitingToRetry", "Identity", "Closed"}]
    \union [type : {"Peers"}, room : Room, peers : SUBSET Remote]
    \union [type : {"PeerLeft", "Paired"}, peer : Remote]
    \union [type : {"Signal"}, peer : Remote, life : Nat \ {0}, offer : BOOLEAN]

Init ==
  /\ peers = [r \in Remote |-> None]
  /\ paired = {} /\ joined = FALSE /\ room = Ip /\ stopping = FALSE /\ running = TRUE
  /\ sessions = [r \in Remote |-> <<>>]
  /\ link = "connecting" /\ up = <<>> /\ down = <<>>
  /\ life \in [Remote -> {0, 1}] /\ lives = life
  /\ within = {}
  /\ batches = [r \in Remote |-> [stay \in 1..MaxLives[r] |-> 0]]
  /\ late = FALSE
  /\ budget = [drops |-> MaxDrops, pairings |-> MaxPairings]

Known == {r \in Remote : peers[r] # None}

NewSession(isCaller) ==
  [caller |-> isCaller, remote |-> 0, heard |-> FALSE, over |-> FALSE, state |-> "new",
   reports |-> IF isCaller THEN <<"LocalDescription">> ELSE <<>>]

\* Mutant of NewPeer: the session the list had before.
NewPeerStale(r) ==
  [session |-> Len(sessions[r]), wanted |-> FALSE, sent |-> FALSE, autoAccept |-> TRUE]

NewPeer(r) ==
  [session |-> Len(sessions[r]) + 1, wanted |-> FALSE, sent |-> FALSE, autoAccept |-> TRUE]

\* close(), which the session reports.
ClosedSession(session) ==
  IF session.state = "closed" THEN session
  ELSE [NewSession(FALSE) EXCEPT !.state = "closed",
                                 !.reports = Append(session.reports, "Closed")]

Arrives(type) == running /\ down # <<>> /\ Head(down).type = type
Handled == down' = Tail(down)

-----------------------------------------------------------------------------
(* Events of the signaling task.                                           *)

\* The sessions are forgotten, not closed.
HandleWaitingToRetry ==
  /\ Arrives("WaitingToRetry") /\ Handled
  /\ peers' = [r \in Remote |-> None]
  /\ UNCHANGED <<paired, joined, room, stopping, running, sessions, link, up, others,
                 batches, late, budget>>

\* Closed, or Failed: the loop ends and closes the sessions it knows.
HandleClosed ==
  /\ Arrives("Closed") /\ Handled
  /\ running' = FALSE
  /\ sessions' = [r \in Remote |->
       [n \in DOMAIN sessions[r] |->
          IF r \in Known /\ peers[r].session = n THEN ClosedSession(sessions[r][n])
          ELSE sessions[r][n]]]
  /\ UNCHANGED <<peers, paired, joined, room, stopping, link, up, others, batches, late, budget>>

\* The rooms are joined once in a run.
HandleIdentity ==
  /\ Arrives("Identity") /\ Handled
  /\ joined' = TRUE
  /\ up' = IF joined THEN up
           ELSE up \o <<[type |-> "JoinIpRoom"]>>
                   \o (IF Registered = {} THEN <<>> ELSE <<[type |-> "RoomSecrets"]>>)
  /\ UNCHANGED <<peers, paired, room, stopping, running, sessions, link, others, batches,
                 late, budget>>

\* pair-device-joined: its room is registered, and trust is looked up once it has a name.
HandlePaired ==
  /\ Arrives("Paired") /\ Handled
  /\ paired' = paired \union {Head(down).peer}
  /\ up' = Append(up, [type |-> "RoomSecrets"])
  /\ UNCHANGED <<peers, joined, room, stopping, running, sessions, link, others, batches,
                 late, budget>>

\* dial of each of them: one for which no session can be built is left out.
Dial(asked, isCaller) ==
  \E called \in SUBSET asked :
    /\ sessions' = [r \in Remote |->
         IF r \in called THEN Append(sessions[r], NewSession(isCaller)) ELSE sessions[r]]
    /\ peers' = [r \in Remote |-> IF r \in called THEN NewPeer(r) ELSE peers[r]]

\* Mutant of HandlePeers: those that have a session are called again.
HandlePeersAgain ==
  /\ Arrives("Peers") /\ Handled
  /\ room' = Head(down).room
  /\ Dial(Head(down).peers, TRUE)
  /\ UNCHANGED <<paired, joined, stopping, running, link, up, others, batches, late, budget>>

\* Whoever is there is called; the room is the one all signals go to from now on.
HandlePeers ==
  /\ Arrives("Peers") /\ Handled
  /\ room' = Head(down).room
  /\ Dial(Head(down).peers \ Known, TRUE)
  /\ UNCHANGED <<paired, joined, stopping, running, link, up, others, batches, late, budget>>

HandlePeerLeft ==
  /\ Arrives("PeerLeft") /\ Handled
  /\ LET r == Head(down).peer IN
       /\ sessions' = IF r \in Known
                      THEN [sessions EXCEPT ![r][peers[r].session] = ClosedSession(@)]
                      ELSE sessions
       /\ peers' = [peers EXCEPT ![r] = None]
  /\ UNCHANGED <<paired, joined, room, stopping, running, link, up, others, batches, late,
                 budget>>

\* accept_remote_description of a session that waits for one of its kind; anything else
\* is an error that is only printed.
Accept(session, frame) ==
  IF session.state = "new" /\ session.remote = 0 /\ session.caller = ~frame.offer
  THEN [session EXCEPT !.remote = frame.life, !.heard = ~frame.offer,
                       !.reports = IF frame.offer THEN Append(@, "LocalDescription") ELSE @]
  ELSE session

\* A stranger calls and is answered, unless no session can be built.
HandleSignal ==
  LET frame == Head(down)
      r == frame.peer
  IN
  /\ Arrives("Signal") /\ Handled
  /\ \/ /\ r \in Known
        /\ sessions' = [sessions EXCEPT ![r][peers[r].session] = Accept(@, frame)]
        /\ UNCHANGED peers
     \/ /\ r \notin Known
        /\ sessions' = [sessions EXCEPT ![r] = Append(@, Accept(NewSession(FALSE), frame))]
        /\ peers' = [peers EXCEPT ![r] = NewPeer(r)]
     \/ r \notin Known /\ UNCHANGED <<sessions, peers>>
  /\ UNCHANGED <<paired, joined, room, stopping, running, link, up, others, batches, late,
                 budget>>

HandleSignaling ==
  \/ HandleWaitingToRetry \/ HandleClosed \/ HandleIdentity \/ HandlePaired
  \/ HandlePeers \/ HandlePeerLeft \/ HandleSignal

-----------------------------------------------------------------------------
(* Events of the sessions, which name the device and not the session.      *)

Reports(r, n, report) ==
  /\ running
  /\ sessions[r][n].reports # <<>> /\ Head(sessions[r][n].reports) = report

Taken(r, n) == [sessions EXCEPT ![r][n].reports = Tail(@)]

\* An event of a device that is not in the list.
HandleUnknown(r, n) ==
  /\ running /\ r \notin Known /\ sessions[r][n].reports # <<>>
  /\ sessions' = Taken(r, n)
  /\ UNCHANGED <<main, link, up, down, others, batches, late, budget>>

HandleLocalDescription(r, n) ==
  /\ Reports(r, n, "LocalDescription") /\ r \in Known
  /\ sessions' = Taken(r, n)
  /\ up' = Append(up, [type |-> "Signal", peer |-> r, session |-> n, room |-> room])
  /\ UNCHANGED <<main, link, down, others, batches, late, budget>>

\* Mutant of IsWanted: the files go to anybody.
IsWantedAlways(peer) == TRUE

\* --to is looked for in the label.
IsWanted(peer) == peer.wanted

\* maybe_send: the flag is set before the files are offered, which a channel that is not
\* open refuses.
MaybeSend(r, peer) ==
  LET sends == ~peer.sent /\ IsWanted(peer)
      session == sessions[r][peer.session]
  IN
  /\ peers' = [peers EXCEPT ![r] = IF sends THEN [peer EXCEPT !.sent = TRUE] ELSE peer]
  /\ batches' = IF sends /\ session.state = "open"
                THEN [batches EXCEPT ![r][session.remote] = @ + 1] ELSE batches

HandleOpen(r, n) ==
  /\ Reports(r, n, "Open") /\ r \in Known
  /\ sessions' = Taken(r, n)
  /\ MaybeSend(r, peers[r])
  /\ UNCHANGED <<paired, joined, room, stopping, running, link, up, down, others, late, budget>>

Named(r, name) ==
  [peers[r] EXCEPT !.wanted = name = "WantedName",
                   !.autoAccept = IF r \in paired THEN FALSE ELSE @]

\* Mutant of HandleName: the files are sent when the channel opens or not at all.
HandleNameOnly(r, n) ==
  /\ r \in Known
  /\ \E name \in {"Name", "WantedName"} :
       Reports(r, n, name) /\ peers' = [peers EXCEPT ![r] = Named(r, name)]
  /\ sessions' = Taken(r, n)
  /\ UNCHANGED <<paired, joined, room, stopping, running, link, up, down, others, batches,
                 late, budget>>

\* The name of a device paired in this run has auto_accept looked up, which is not set
\* for a new pairing.
HandleName(r, n) ==
  /\ r \in Known
  /\ \E name \in {"Name", "WantedName"} : Reports(r, n, name) /\ MaybeSend(r, Named(r, name))
  /\ sessions' = Taken(r, n)
  /\ UNCHANGED <<paired, joined, room, stopping, running, link, up, down, others, late, budget>>

\* Failed also closes the session the list has now.
HandleGone(r, n) ==
  /\ r \in Known
  /\ \/ /\ Reports(r, n, "Failed")
        /\ sessions' = [Taken(r, n) EXCEPT ![r][peers[r].session] = ClosedSession(@)]
     \/ /\ Reports(r, n, "Closed")
        /\ sessions' = Taken(r, n)
  /\ peers' = [peers EXCEPT ![r] = None]
  /\ UNCHANGED <<paired, joined, room, stopping, running, link, up, down, others, batches,
                 late, budget>>

HandleRtcEvent ==
  \E r \in Remote : \E n \in DOMAIN sessions[r] :
    \/ HandleUnknown(r, n) \/ HandleLocalDescription(r, n) \/ HandleOpen(r, n)
    \/ HandleName(r, n) \/ HandleGone(r, n)

\* Ctrl-C, or the time is up: once.
Interrupt ==
  /\ running /\ ~stopping
  /\ stopping' = TRUE
  /\ up' = Append(up, Shutdown)
  /\ UNCHANGED <<peers, paired, joined, room, running, sessions, link, down, others,
                 batches, late, budget>>

-----------------------------------------------------------------------------
(* The signaling task.                                                     *)

Spend(kind) == budget[kind] > 0 /\ budget' = [budget EXCEPT ![kind] = @ - 1]

Connect ==
  /\ link = "connecting"
  /\ link' = "connected"
  /\ down' = Append(down, [type |-> "Identity"])
  /\ UNCHANGED <<main, sessions, up, others, batches, late, budget>>

Shared(r) == within \intersect RoomsOf[r] # {}

\* The server tells whoever shared a room with it.
Leave ==
  /\ within' = {}
  /\ sessions' = [r \in Remote |-> [n \in DOMAIN sessions[r] |->
       [sessions[r][n] EXCEPT !.over = @ \/ Shared(r)]]]

\* A connection is lost, or cannot be made, with what had not arrived.
Drop ==
  /\ link \in {"connected", "connecting"} /\ ~late /\ Spend("drops")
  /\ link' = "waiting"
  /\ Leave
  /\ \E n \in 0..Len(down) :
       down' = Append(SubSeq(down, 1, n), [type |-> "WaitingToRetry"])
  /\ UNCHANGED <<main, up, life, lives, batches, late>>

\* Mutant of Retry: Shutdown is thrown away as well.
RetryByAnything ==
  /\ link = "waiting"
  /\ \/ UNCHANGED up
     \/ up # <<>> /\ up' = Tail(up)
  /\ link' = "connecting"
  /\ UNCHANGED <<main, sessions, down, others, batches, late, budget>>

\* The wait ends with its time, or with a message, which is thrown away.
Retry ==
  /\ link = "waiting"
  /\ \/ UNCHANGED up
     \/ up # <<>> /\ Head(up) # Shutdown /\ up' = Tail(up)
  /\ link' = "connecting"
  /\ UNCHANGED <<main, sessions, down, others, batches, late, budget>>

\* Shutdown is read between attempts and on the socket; the task may also give up.
TaskEnds ==
  /\ \/ link \in {"waiting", "connected"} /\ up # <<>> /\ Head(up) = Shutdown /\ UNCHANGED budget
     \/ link = "connecting" /\ ~late /\ Spend("drops")
  /\ link' = "ended"
  /\ Leave
  /\ down' = Append(down, [type |-> "Closed"])
  /\ UNCHANGED <<main, up, life, lives, batches, late>>

-----------------------------------------------------------------------------
(* The server and the other devices.                                       *)

Reads(type) == link = "connected" /\ up # <<>> /\ Head(up).type = type

There(place) == {r \in Remote : life[r] # 0 /\ place \in RoomsOf[r]}

\* Something is still to happen about an earlier call with r.
UnderWay(r) ==
  \/ \E i \in DOMAIN down :
       \/ down[i].type = "WaitingToRetry"
       \/ down[i].type \in {"PeerLeft", "Signal"} /\ down[i].peer = r
       \/ down[i].type = "Peers" /\ r \in down[i].peers
  \/ \E i \in DOMAIN up : up[i].type = "Signal" /\ up[i].peer = r
  \/ \E n \in DOMAIN sessions[r] :
       sessions[r][n].reports # <<>> \/ sessions[r][n].state # "closed"

\* The rooms of the pairings; that of the address is joined by JoinIpRoom alone.
PairedRooms == Registered \union UNION {RoomsOf[r] \ {Ip} : r \in paired}

\* A newcomer is told who is there.
ServerJoins ==
  \/ \E place \in
          (IF Reads("JoinIpRoom") THEN {Ip} ELSE {}) \union
          (IF Reads("RoomSecrets") THEN PairedRooms ELSE {}) :
       /\ place \notin within
       /\ within' = within \union {place}
       /\ down' = Append(down, [type |-> "Peers", room |-> place, peers |-> There(place)])
       /\ late' = (late \/ \E r \in There(place) : ~Shared(r) /\ UnderWay(r))
       /\ UNCHANGED <<main, sessions, link, up, life, lives, batches, budget>>
  \/ /\ \/ Reads("JoinIpRoom") /\ Ip \in within
        \/ Reads("RoomSecrets") /\ PairedRooms \subseteq within
     /\ up' = Tail(up)
     /\ UNCHANGED <<main, sessions, link, down, others, batches, late, budget>>

\* A description reaches a device that is in the room it names; an offer is answered.
ServerRelays ==
  /\ Reads("Signal") /\ up' = Tail(up)
  /\ LET r == Head(up).peer
         n == Head(up).session
         reached == life[r] # 0 /\ Head(up).room \in within \intersect RoomsOf[r]
     IN  \/ /\ reached /\ sessions[r][n].caller
            /\ down' = Append(down, [type |-> "Signal", peer |-> r, life |-> life[r],
                                    offer |-> FALSE])
            /\ UNCHANGED sessions
         \/ /\ reached /\ ~sessions[r][n].caller
            /\ sessions' = [sessions EXCEPT ![r][n].heard =
                              @ \/ sessions[r][n].remote = life[r]]
            /\ UNCHANGED down
         \/ ~reached /\ UNCHANGED <<sessions, down>>
  /\ UNCHANGED <<main, link, others, batches, late, budget>>

\* Bound: no more comes while it stops, lags behind, or after two calls overlapped.
MayDisturb == ~stopping /\ ~late /\ Len(down) < MaxBacklog

\* A device comes, and calls this one if it finds it in a room.
Come(r) ==
  /\ MayDisturb
  /\ life[r] = 0 /\ lives[r] < MaxLives[r]
  /\ life' = [life EXCEPT ![r] = lives[r] + 1]
  /\ lives' = [lives EXCEPT ![r] = @ + 1]
  /\ late' = (late \/ UnderWay(r))
  /\ down' = IF Shared(r) THEN Append(down, [type |-> "Signal", peer |-> r,
                                            life |-> lives[r] + 1, offer |-> TRUE])
             ELSE down
  /\ UNCHANGED <<main, sessions, link, up, within, batches, budget>>

Go(r) ==
  /\ MayDisturb
  /\ life[r] # 0
  /\ life' = [life EXCEPT ![r] = 0]
  /\ down' = IF Shared(r) THEN Append(down, [type |-> "PeerLeft", peer |-> r]) ELSE down
  /\ UNCHANGED <<main, sessions, link, up, lives, within, batches, late, budget>>

\* Two devices that share the room of their address are paired; Pairing has the frames.
Pair(r) ==
  /\ MayDisturb
  /\ life[r] # 0 /\ Ip \in within \intersect RoomsOf[r] /\ r \notin paired
  /\ Spend("pairings")
  /\ down' = Append(down, [type |-> "Paired", peer |-> r])
  /\ UNCHANGED <<main, sessions, link, up, others, batches, late>>

-----------------------------------------------------------------------------
(* The channels.                                                           *)

Becomes(r, n, session) ==
  /\ sessions' = [sessions EXCEPT ![r][n] = session]
  /\ UNCHANGED <<main, link, up, down, others, batches, late, budget>>

\* Both ends have the other's description: the channel opens, and the name is announced.
ChannelOpens(r, n) ==
  /\ sessions[r][n].state = "new" /\ sessions[r][n].heard
  /\ life[r] # 0 /\ sessions[r][n].remote = life[r]
  /\ Becomes(r, n, [sessions[r][n] EXCEPT !.state = "open", !.reports = @ \o
                <<"Open", IF life[r] \in Wanted[r] THEN "WantedName" ELSE "Name">>])

\* The other end has gone, or has been told that this one left.
ChannelEnds(r, n) ==
  /\ sessions[r][n].remote # 0
  /\ sessions[r][n].remote # life[r] \/ sessions[r][n].over
  /\ \/ /\ sessions[r][n].state = "open"
        /\ Becomes(r, n, ClosedSession(sessions[r][n]))
     \/ /\ sessions[r][n].state = "new"
        /\ Becomes(r, n, [NewSession(FALSE) EXCEPT !.state = "failed",
                             !.reports = Append(sessions[r][n].reports, "Failed")])

Channel == \E r \in Remote : \E n \in DOMAIN sessions[r] : ChannelOpens(r, n) \/ ChannelEnds(r, n)

-----------------------------------------------------------------------------

Main == HandleSignaling \/ HandleRtcEvent
Task == Connect \/ Retry \/ TaskEnds
Server == ServerJoins \/ ServerRelays

Environment ==
  \/ Interrupt
  \/ Drop
  \/ \E r \in Remote : Come(r) \/ Go(r) \/ Pair(r)

\* When main returns the process is gone.
Next == running /\ (Main \/ Task \/ Server \/ Channel \/ Environment)

Spec == Init /\ [][Next]_vars

\* select! polls its branches, the runtime the task; the server reads what it is sent.  The
\* handshake has no timeout: nothing says that it ever returns.
FairSpec ==
  /\ Spec
  /\ WF_vars(running /\ HandleSignaling) /\ WF_vars(running /\ HandleRtcEvent)
  /\ WF_vars(running /\ link # "connecting" /\ Task) /\ WF_vars(running /\ Server)

-----------------------------------------------------------------------------

TypeOK ==
  /\ peers \in [Remote -> Peer \union {None}]
  /\ \A r \in Known : peers[r].session \in DOMAIN sessions[r]
  /\ paired \subseteq Remote
  /\ joined \in BOOLEAN /\ room \in Room /\ stopping \in BOOLEAN /\ running \in BOOLEAN
  /\ sessions \in [Remote -> Seq(Session)]
  /\ link \in {"connecting", "connected", "waiting", "ended"}
  /\ up \in Seq(ClientMessage) /\ down \in Seq(SignalingEvent)
  /\ \A r \in Remote : life[r] \in {0, lives[r]} /\ lives[r] \in 0..MaxLives[r]
  /\ within \subseteq Room
  /\ (\A r \in Remote : batches[r] \in [1..MaxLives[r] -> Nat]) /\ late \in BOOLEAN
  /\ budget \in [drops : 0..MaxDrops, pairings : 0..MaxPairings]

Quiet == running /\ down = <<>> /\ \A r \in Remote : \A n \in DOMAIN sessions[r] :
                                      sessions[r][n].reports = <<>>

\* In each stay of a device the files go to it only if --to names it, and once on each
\* connection: the flag that says so is kept as long as the call it was set in.
SentPerConnection ==
  \A r \in Remote : \A stay \in DOMAIN batches[r] :
    /\ batches[r][stay] > 0 => stay \in Wanted[r]
    /\ batches[r][stay] <= 1 + (MaxDrops - budget.drops)

\* The flag never says that a wanted device was sent the files when it was not, and is
\* set once all that was reported is handled.
WantedAreSent ==
  \A r \in Known :
    LET session == sessions[r][peers[r].session] IN
      session.state = "open" /\ session.remote \in Wanted[r] =>
        /\ peers[r].sent => batches[r][session.remote] > 0
        /\ Quiet => peers[r].sent

\* "Called both when the channel opens and when the peer announces its name": the files go
\* to everybody --to names who has an open channel, and to nobody else; in one stay not more
\* often than this device has connections, which is all the code sees to (SentAtMostOnce).
FilesGoWhereWanted == ~late => SentPerConnection /\ WantedAreSent

\* "Set once we've sent to this peer, so a reconnect doesn't send everything twice": the
\* files go to a device at most once, though it leaves and comes back with its identity, or
\* this one's connection to the server is made again.
SentAtMostOnce ==
  ~late => \A r \in Remote : \A stay, other \in DOMAIN batches[r] :
             /\ batches[r][stay] <= 1
             /\ stay # other => 0 \in {batches[r][stay], batches[r][other]}

\* As long as it is in its rooms, an open channel to a device that is there is in the list.
QuietMeansListed ==
  Quiet /\ ~late =>
    \A r \in Remote : \A n \in DOMAIN sessions[r] :
      sessions[r][n].state = "open" /\ sessions[r][n].remote = life[r] /\ ~sessions[r][n].over =>
        r \in Known /\ peers[r].session = n

\* The server accepts the connection and never answers the handshake.
HandshakeHangs == <>[](link = "connecting")

\* Ctrl-C and --quit-after end the program, wherever the task waits but in a handshake that
\* never returns: that has no timeout, and the arm that asks is not polled again.
Stops == (stopping ~> ~running) \/ HandshakeHangs
=============================================================================
