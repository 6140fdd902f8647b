---------------------------- MODULE PairDropClient ----------------------------
(***************************************************************************)
(* The macOS client's hold on the signaling server: `SignalingClient`      *)
(* keeps one socket, `PairDropClient` the list of peers that the server    *)
(* tells it of (shared/PairDropKit).  Everything runs on the main actor,   *)
(* but in pieces: a configuration that is being fetched, a socket that     *)
(* reports, and a retry that is due each come back later as a task of      *)
(* their own, when the client may have moved on.                           *)
(*                                                                         *)
(* The server is not part of the repository.  It greets a socket, lets it  *)
(* into the rooms it asks for, and tells of the devices that are in them.  *)
(***************************************************************************)
EXTENDS Naturals, Sequences

CONSTANTS
  Remote,  \* the other devices
  Room,    \* the room of the public address and those of the pairings
  Limits   \* how often each thing outside the client's control may happen

Kind == {"user", "networkChange", "badConfig", "drop", "move"}

ASSUME LimitsAssumption == Limits \in [Kind -> Nat]

VARIABLES
  clients,   \* every SignalingClient made so far
  signaling, \* PairDropClient.signaling, the index of the current one; 0: none
  rooms,     \* PairDropPeer.rooms of each listed peer; {}: not in the list
  met,       \* the socket under which a peer was put in the list
  sockets,   \* every socket opened so far, and what the server keeps for it
  there,     \* server: the devices in each room
  budget     \* what the environment may still do

vars == <<clients, signaling, rooms, met, sockets, there, budget>>

-----------------------------------------------------------------------------
(* Data.                                                                   *)

\* SignalingClient: `task` is its socket, `fetching` the generations whose configuration
\* is awaited, `armed` the retry that is scheduled, `due` the retries that have come due
\* and wait for the main actor.
Client == [state : {"idle", "connecting", "connected", "waitingToRetry", "failed"},
           generation : Nat, task : Nat, intentionallyClosed : BOOLEAN,
           fetching : SUBSET Nat, armed : BOOLEAN, due : Nat]

Frame == [type : {"DisplayName"}]
           \union [type : {"Peers"}, room : Room, peers : SUBSET Remote]
           \union [type : {"PeerJoined"}, room : Room, peer : Remote]
           \union [type : {"PeerLeft"}, room : Room, peer : Remote, disconnect : BOOLEAN]

\* A socket knows the client and the generation that it was opened for.
Socket == [client : Nat \ {0}, generation : Nat, open : BOOLEAN, inbox : Seq(Frame),
           asked : SUBSET Room, joined : SUBSET Room]

NewClient == [state |-> "idle", generation |-> 0, task |-> 0, intentionallyClosed |-> FALSE,
              fetching |-> {}, armed |-> FALSE, due |-> 0]

NewSocket(i, generation) ==
  [client |-> i, generation |-> generation, open |-> TRUE,
   inbox |-> <<[type |-> "DisplayName"]>>, asked |-> {}, joined |-> {}]

Owner(s) == clients[sockets[s].client]

\* Mutant of IsCurrent: a socket is heard whatever came after it.
IsCurrentAlways(s) == TRUE

IsCurrent(s) == sockets[s].generation = Owner(s).generation

-----------------------------------------------------------------------------
(* What steps share.                                                       *)

Spend(kind) ==
  /\ budget[kind] > 0
  /\ budget' = [budget EXCEPT ![kind] = @ - 1]

\* connect()
Connecting(client) ==
  IF client.task # 0 THEN client
  ELSE [client EXCEPT !.state = "connecting", !.intentionallyClosed = FALSE,
          !.armed = FALSE, !.generation = @ + 1, !.fetching = @ \union {client.generation + 1}]

\* Mutant of Disconnected: the client does not know that it was closed.
DisconnectedUnaware(client) ==
  [client EXCEPT !.state = "idle", !.armed = FALSE, !.generation = @ + 1, !.task = 0]

\* disconnect()
Disconnected(client) ==
  [client EXCEPT !.state = "idle", !.intentionallyClosed = TRUE, !.armed = FALSE,
     !.generation = @ + 1, !.task = 0]

\* reconnectNow()
Reconnecting(client) == Connecting([client EXCEPT !.generation = @ + 1, !.task = 0])

\* The socket is cancelled: it delivers nothing more than what it already handed over.
Cancelled(s) ==
  IF s = 0 THEN sockets
  ELSE [sockets EXCEPT ![s] = [@ EXCEPT !.open = FALSE, !.asked = {}, !.joined = {}]]

NoPeers == rooms' = [e \in Remote |-> {}] /\ UNCHANGED met

-----------------------------------------------------------------------------

Init ==
  /\ clients = <<>> /\ signaling = 0
  /\ rooms = [e \in Remote |-> {}]
  /\ met = [e \in Remote |-> 0]
  /\ sockets = <<>>
  /\ there \in [Room -> SUBSET Remote]
  /\ budget = Limits

-----------------------------------------------------------------------------
(* The user and the network.                                               *)

Start ==
  /\ signaling = 0
  /\ Spend("user")
  /\ clients' = Append(clients, Connecting(NewClient))
  /\ signaling' = Len(clients')
  /\ UNCHANGED <<rooms, met, sockets, there>>

Stop ==
  /\ signaling # 0
  /\ Spend("user")
  /\ NoPeers
  /\ sockets' = Cancelled(clients[signaling].task)
  /\ clients' = [clients EXCEPT ![signaling] = Disconnected(@)]
  /\ signaling' = 0
  /\ UNCHANGED there

\* Another server address, or another policy for certificates.
Restart ==
  /\ signaling # 0
  /\ Spend("user")
  /\ NoPeers
  /\ sockets' = Cancelled(clients[signaling].task)
  /\ clients' = Append([clients EXCEPT ![signaling] = Disconnected(@)], Connecting(NewClient))
  /\ signaling' = Len(clients')
  /\ UNCHANGED there

NetworkChanged ==
  /\ signaling # 0
  /\ Spend("networkChange")
  /\ sockets' = Cancelled(clients[signaling].task)
  /\ clients' = [clients EXCEPT ![signaling] = Reconnecting(@)]
  /\ UNCHANGED <<signaling, rooms, met, there>>

User == Start \/ Stop \/ Restart \/ NetworkChanged

-----------------------------------------------------------------------------
(* The tasks of a SignalingClient.                                         *)

\* Mutant of ConfigFetched: whatever happened meanwhile is not asked for.
ConfigFetchedRegardless(i, generation) ==
  LET client == [clients[i] EXCEPT !.fetching = @ \ {generation}] IN
  /\ generation \in clients[i].fetching
  /\ \/ /\ sockets' = Append(sockets, NewSocket(i, generation))
        /\ clients' = [clients EXCEPT ![i] = [client EXCEPT !.task = Len(sockets')]]
        /\ UNCHANGED budget
     \/ /\ Spend("badConfig")
        /\ clients' = [clients EXCEPT ![i] = [client EXCEPT !.state = "failed"]]
        /\ UNCHANGED sockets
  /\ UNCHANGED <<signaling, rooms, met, there>>

\* The configuration is there, or is known not to be: a socket is opened, unless the
\* client has moved on. An address that makes no URL is given up.
ConfigFetched(i, generation) ==
  LET client == [clients[i] EXCEPT !.fetching = @ \ {generation}]
      stale == generation # client.generation \/ client.intentionallyClosed
  IN
  /\ generation \in clients[i].fetching
  /\ \/ /\ stale
        /\ clients' = [clients EXCEPT ![i] = client]
        /\ UNCHANGED <<sockets, budget>>
     \/ /\ ~stale
        /\ sockets' = Append(sockets, NewSocket(i, generation))
        /\ clients' = [clients EXCEPT ![i] = [client EXCEPT !.task = Len(sockets')]]
        /\ UNCHANGED budget
     \/ /\ ~stale
        /\ Spend("badConfig")
        /\ clients' = [clients EXCEPT ![i] = [client EXCEPT !.state = "failed"]]
        /\ UNCHANGED sockets
  /\ UNCHANGED <<signaling, rooms, met, there>>

\* The delay is over; the retry is handed to the main actor.
RetryIsDue(i) ==
  /\ clients[i].armed
  /\ clients' = [clients EXCEPT ![i] = [clients[i] EXCEPT !.armed = FALSE, !.due = @ + 1]]
  /\ UNCHANGED <<signaling, rooms, met, sockets, there, budget>>

Retry(i) ==
  LET client == [clients[i] EXCEPT !.due = @ - 1] IN
  /\ clients[i].due > 0
  /\ clients' = [clients EXCEPT ![i] =
       IF client.intentionallyClosed THEN client ELSE Connecting(client)]
  /\ UNCHANGED <<signaling, rooms, met, sockets, there, budget>>

\* What a socket reports is not heard once the client has another generation.
IgnoreStale(s) ==
  /\ ~IsCurrent(s) /\ sockets[s].inbox # <<>>
  /\ sockets' = [sockets EXCEPT ![s].inbox = <<>>]
  /\ UNCHANGED <<clients, signaling, rooms, met, there, budget>>

\* Mutant of HandleDrop: nothing is scheduled.
HandleDropForGood(s) ==
  /\ IsCurrent(s) /\ Owner(s).task = s
  /\ ~sockets[s].open /\ sockets[s].inbox = <<>>
  /\ clients' = [clients EXCEPT ![sockets[s].client] =
       [@ EXCEPT !.task = 0, !.state = "waitingToRetry"]]
  /\ NoPeers
  /\ UNCHANGED <<signaling, sockets, there, budget>>

\* The socket failed: a retry is scheduled, and the peers are closed.
HandleDrop(s) ==
  /\ IsCurrent(s) /\ Owner(s).task = s
  /\ ~sockets[s].open /\ sockets[s].inbox = <<>>
  /\ clients' = [clients EXCEPT ![sockets[s].client] =
       [@ EXCEPT !.task = 0, !.state = "waitingToRetry", !.armed = TRUE]]
  /\ NoPeers
  /\ UNCHANGED <<signaling, sockets, there, budget>>

\* Any frame shows that the connection stands.
Handles(s, type) ==
  /\ IsCurrent(s)
  /\ sockets[s].inbox # <<>> /\ Head(sockets[s].inbox).type = type
  /\ clients' = [clients EXCEPT ![sockets[s].client].state = "connected"]
  /\ UNCHANGED <<signaling, there, budget>>

Consumed(s) == [sockets[s] EXCEPT !.inbox = Tail(@)]

\* The rooms of the address and of every pairing are asked for; nothing is sent on a
\* socket that has closed.
HandleDisplayName(s) ==
  /\ Handles(s, "DisplayName")
  /\ sockets' = [sockets EXCEPT ![s] =
       [Consumed(s) EXCEPT !.asked = IF sockets[s].open THEN Room ELSE {}]]
  /\ UNCHANGED <<rooms, met>>

\* createOrRefreshPeer, for each of these
CreateOrRefresh(s, present, room) ==
  /\ rooms' = [e \in Remote |-> IF e \in present THEN rooms[e] \union {room} ELSE rooms[e]]
  /\ met' = [e \in Remote |-> IF e \in present /\ rooms[e] = {} THEN s ELSE met[e]]

HandlePeers(s) ==
  LET frame == Head(sockets[s].inbox) IN
  /\ Handles(s, "Peers")
  /\ sockets' = [sockets EXCEPT ![s] = Consumed(s)]
  /\ CreateOrRefresh(s, frame.peers, frame.room)

HandlePeerJoined(s) ==
  LET frame == Head(sockets[s].inbox) IN
  /\ Handles(s, "PeerJoined")
  /\ sockets' = [sockets EXCEPT ![s] = Consumed(s)]
  /\ CreateOrRefresh(s, {frame.peer}, frame.room)

\* Mutant of Without: a peer goes with the first room it leaves.
WithoutAny(known, room, disconnect) == {}

\* removePeer: a peer stays as long as a room is shared with it, unless it disconnected.
Without(known, room, disconnect) == IF disconnect THEN {} ELSE known \ {room}

HandlePeerLeft(s) ==
  LET frame == Head(sockets[s].inbox) IN
  /\ Handles(s, "PeerLeft")
  /\ sockets' = [sockets EXCEPT ![s] = Consumed(s)]
  /\ rooms' = [rooms EXCEPT ![frame.peer] = Without(@, frame.room, frame.disconnect)]
  /\ UNCHANGED met

SocketTask(s) ==
  \/ IgnoreStale(s) \/ HandleDrop(s)
  \/ HandleDisplayName(s) \/ HandlePeers(s) \/ HandlePeerJoined(s) \/ HandlePeerLeft(s)

Tasks ==
  \/ \E i \in DOMAIN clients :
       \/ RetryIsDue(i) \/ Retry(i)
       \/ \E generation \in clients[i].fetching : ConfigFetched(i, generation)
  \/ \E s \in DOMAIN sockets : SocketTask(s)

-----------------------------------------------------------------------------
(* The server.                                                             *)

\* A socket cannot be opened, or is lost with some of what was on its way.
Drop(s) ==
  /\ sockets[s].open
  /\ Spend("drop")
  /\ \E n \in 0..Len(sockets[s].inbox) :
       sockets' = [sockets EXCEPT ![s] =
         [sockets[s] EXCEPT !.open = FALSE, !.asked = {}, !.joined = {},
                            !.inbox = SubSeq(@, 1, n)]]
  /\ UNCHANGED <<clients, signaling, rooms, met, there>>

Admit(s, room) ==
  /\ room \in sockets[s].asked \ sockets[s].joined
  /\ sockets' = [sockets EXCEPT ![s] = [sockets[s] EXCEPT !.joined = @ \union {room},
       !.inbox = IF there[room] = {} THEN @
                 ELSE Append(@, [type |-> "Peers", room |-> room, peers |-> there[room]])]]
  /\ UNCHANGED <<clients, signaling, rooms, met, there, budget>>

\* Every socket in the room gets this frame.
Tell(room, frame) ==
  sockets' = [s \in DOMAIN sockets |->
    IF room \in sockets[s].joined
    THEN [sockets[s] EXCEPT !.inbox = Append(@, frame)] ELSE sockets[s]]

RemoteEnters(e, room) ==
  /\ e \notin there[room]
  /\ Spend("move")
  /\ there' = [there EXCEPT ![room] = @ \union {e}]
  /\ Tell(room, [type |-> "PeerJoined", room |-> room, peer |-> e])
  /\ UNCHANGED <<clients, signaling, rooms, met>>

\* A device that has only this room left may also be gone for good.
RemoteLeaves(e, room) ==
  /\ e \in there[room]
  /\ Spend("move")
  /\ there' = [there EXCEPT ![room] = @ \ {e}]
  /\ \E disconnect \in {FALSE, \A other \in Room : e \notin there'[other]} :
       Tell(room, [type |-> "PeerLeft", room |-> room, peer |-> e, disconnect |-> disconnect])
  /\ UNCHANGED <<clients, signaling, rooms, met>>

Admissions == \E s \in DOMAIN sockets : \E room \in Room : Admit(s, room)

Server ==
  \/ Admissions
  \/ \E s \in DOMAIN sockets : Drop(s)
  \/ \E e \in Remote : \E room \in Room : RemoteEnters(e, room) \/ RemoteLeaves(e, room)

-----------------------------------------------------------------------------

Next == User \/ Tasks \/ Server

Spec == Init /\ [][Next]_vars

\* The main actor gets to every task, a fetch ends with an answer or its timeout, a delay
\* ends, and the server lets a device into its rooms.
FairSpec == Spec /\ WF_vars(Tasks) /\ WF_vars(Admissions)

-----------------------------------------------------------------------------

TypeOK ==
  /\ clients \in Seq(Client)
  /\ signaling \in 0..Len(clients)
  /\ rooms \in [Remote -> SUBSET Room]
  /\ met \in [Remote -> 0..Len(sockets)]
  /\ sockets \in Seq(Socket)
  /\ \A i \in DOMAIN clients :
       /\ clients[i].task \in 0..Len(sockets)
       /\ clients[i].task # 0 => sockets[clients[i].task].client = i
       /\ i # signaling => clients[i].intentionallyClosed
  /\ \A s \in DOMAIN sockets : sockets[s].client \in DOMAIN clients
  /\ there \in [Room -> SUBSET Remote]
  /\ budget \in [Kind -> Nat]

\* "Guards against acting on callbacks from a socket we already replaced": whatever was
\* fetched, scheduled and cancelled, the server never sees a second connection of this
\* device, nor one of a device that was stopped.
OneConnection ==
  \A s \in DOMAIN sockets : sockets[s].open => signaling # 0 /\ clients[signaling].task = s

\* The network has not changed so far; a change keeps the peers of the socket it drops.
SameNetwork == budget.networkChange = Limits.networkChange

\* "Peers only exist while we share a signalling session with them": a listed peer was met
\* under the present socket, whatever other sockets come back with.
PeersAreOfThisSession ==
  SameNetwork => \A e \in Remote :
    rooms[e] # {} => signaling # 0 /\ met[e] = clients[signaling].task

\* The client has heard all the server has to say.
CaughtUp ==
  /\ signaling # 0 /\ clients[signaling].task # 0
  /\ LET socket == sockets[clients[signaling].task] IN
     socket.open /\ socket.joined = Room /\ socket.inbox = <<>>

\* "Only tear the connection down when we no longer share any room with them": a client
\* that has caught up lists the devices it shares a room with, under these rooms.
ListedWhereShared ==
  CaughtUp /\ SameNetwork =>
    \A e \in Remote : rooms[e] = {room \in Room : e \in there[room]}

\* A client that was started and not stopped ends up connected and in its rooms, unless
\* the address is no good: no drop, retry or change of network leaves it waiting.
EventuallyCaughtUp ==
  <>[](\/ signaling = 0
       \/ clients[signaling].state = "failed"
       \/ clients[signaling].state = "connected" /\ CaughtUp)
=============================================================================
