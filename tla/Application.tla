----------------------------- MODULE Application -----------------------------
(***************************************************************************)
(* The GTK application: the window (crate pairdrop-gtk) and the engine     *)
(* thread (crate pairdrop-client), joined by a queue of commands and a     *)
(* queue of events.  The window draws what the events say and knows        *)
(* nothing else; the engine owns the connection, the sessions and the      *)
(* settings in force.                                                      *)
(*                                                                         *)
(* The sessions are in Engine, the frames of a transfer in Transfer and    *)
(* the signaling task in Signaling: here is what of them the window shows. *)
(***************************************************************************)
EXTENDS Naturals, Sequences, FiniteSets

CONSTANTS
  Peer, None,
  Address,    \* server addresses that can be parsed
  Empty, Unusable, \* none, and one that cannot
  Folder,     \* the other preferences
  Settings,   \* what the preferences may be
  MaxRequests, Limits, \* bounds on what the user, the world and the network do
  MaxBacklog  \* how many events the window may lag behind when they do

ASSUME AddressAssumption ==
  Empty \notin Address /\ Unusable \notin Address /\ Empty # Unusable
ASSUME SettingsAssumption ==
  Settings \subseteq [server : Address \union {Empty, Unusable}, folder : Folder]
Budget == [settings : Nat, requests : 0..MaxRequests, moves : Nat, drops : Nat]
ASSUME BoundAssumption ==
  MaxRequests \in Nat /\ MaxBacklog \in Nat /\ Limits \subseteq Budget

VARIABLES
  rows, banner,     \* what the window shows
  dialogs,          \* the request dialogs that are open
  uiSettings, disk, \* the settings of the window, and the file
  commands, events, \* the queues
  settings, peers, signaling,  \* the engine: settings, peers, has a SignalingHandle
  receiver,         \* the connection whose events it reads
  present,          \* the devices in the room at the server
  channel,          \* the data channel to each device
  reports,          \* rtc_tx: what the sessions with each device reported
  leaving,          \* how many closed sessions with each device may yet report
  crossed,          \* devices whose session was open when a closed one reported its end
  answers,          \* what the user answered to each request
  overlapped,       \* requests made before the last of that device was answered
  complained,       \* the window said that it could not save
  budget

window == <<rows, banner, dialogs, uiSettings, disk, complained>>
engine == <<settings, peers, signaling, receiver>>
closed == <<leaving, crossed>>
world == <<present, channel, reports, closed>>
requests == <<answers, overlapped>>
vars == <<window, commands, events, engine, world, requests, budget>>

-----------------------------------------------------------------------------

Request == 1..MaxRequests

\* PeerView, and what else is kept of a device: the request it waits with, the one that
\* was accepted, and where its files go.
View == [connected : BOOLEAN, busy : BOOLEAN]
PeerState == [view : View, pending : Request \union {0}, receiving : Request \union {0},
              folder : Folder]

Shown == {"NotConfigured", "Connecting", "Connected", "Retrying", "Failed"}
ViewsOf(list) == [p \in Peer |-> IF list[p] = None THEN None ELSE list[p].view]
Known == {p \in Peer : peers[p] # None}

Command ==
  [type : {"Connect"}, settings : Settings]
    \union [type : {"RespondToRequest"}, peer : Peer, accept : BOOLEAN, request : Request]

Event ==
  [type : {"Connection"}, state : Shown]
    \union [type : {"Peers"}, views : [Peer -> View \union {None}]]
    \union [type : {"IncomingRequest"}, peer : Peer, request : Request]

\* SignalingEvent and ServerMessage.
SignalingEvent ==
  [type : {"Connecting", "Connected", "WaitingToRetry", "Failed", "Closed", "Identity"}]
    \union [type : {"Peers"}, peers : SUBSET Peer]
    \union [type : {"PeerJoined", "PeerLeft"}, peer : Peer]

Report ==
  [type : {"Open", "Received", "Closed"}]
    \union [type : {"Request"}, request : Request]

\* connect: a task that reads the settings and has a queue of its own.
Connection ==
  [link : {"connecting", "connected", "waiting", "failed", "ended"}, joined : BOOLEAN,
   inbox : Seq(SignalingEvent)]

ASSUME NoneAssumption == None \notin View /\ None \notin PeerState /\ None \notin Connection

NewConnection ==
  [link |-> "connecting", joined |-> FALSE, inbox |-> <<[type |-> "Connecting"]>>]

ConnectionState(state) == [type |-> "Connection", state |-> state]
PeersEvent(views) == [type |-> "Peers", views |-> views]

\* What start_signaling, and the check before it, say of an address that is not connected to.
Refusal(server) ==
  IF server = Empty THEN <<ConnectionState("NotConfigured")>>
  ELSE IF server = Unusable THEN <<ConnectionState("Failed")>> ELSE <<>>

NoPeers == [p \in Peer |-> None]
NewPeer == [view |-> [connected |-> FALSE, busy |-> FALSE], pending |-> 0, receiving |-> 0,
            folder |-> settings.folder]

Init ==
  /\ settings \in Settings /\ uiSettings = settings /\ disk = settings
  /\ signaling = (settings.server \in Address)
  /\ receiver = IF settings.server \in Address THEN NewConnection ELSE None
  /\ peers = NoPeers
  /\ rows = NoPeers /\ banner = "Connected" /\ dialogs = {}
  /\ commands = <<>> /\ events = Refusal(settings.server)
  /\ present \in SUBSET Peer
  /\ channel = [p \in Peer |-> "none"] /\ reports = [p \in Peer |-> <<>>]
  /\ leaving = [p \in Peer |-> 0] /\ crossed = {}
  /\ answers = [q \in Request |-> "none"] /\ overlapped = {}
  /\ complained = FALSE
  /\ budget \in Limits

-----------------------------------------------------------------------------
(* The window.                                                             *)

Applies(type) == events # <<>> /\ Head(events).type = type
Applied == events' = Tail(events)

\* show_connection: the banner, revealed or not.
ShowConnection ==
  /\ Applies("Connection") /\ Applied
  /\ banner' = Head(events).state
  /\ UNCHANGED <<rows, dialogs, uiSettings, disk, complained, commands, engine, world,
                 requests, budget>>

\* update_peers: what is drawn becomes what the event says.
UpdatePeers ==
  /\ Applies("Peers") /\ Applied
  /\ rows' = Head(events).views
  /\ UNCHANGED <<banner, dialogs, uiSettings, disk, complained, commands, engine, world,
                 requests, budget>>

\* ask_about_request: nothing but an answer closes the dialog.
AskAboutRequest ==
  /\ Applies("IncomingRequest") /\ Applied
  /\ dialogs' = dialogs \union {[peer |-> Head(events).peer, request |-> Head(events).request]}
  /\ UNCHANGED <<rows, banner, uiSettings, disk, complained, commands, engine, world,
                 requests, budget>>

\* The answer names the device and not the request.
Answer(dialog, accept) ==
  /\ dialog \in dialogs
  /\ dialogs' = dialogs \ {dialog}
  /\ answers' = [answers EXCEPT ![dialog.request] = IF accept THEN "yes" ELSE "no"]
  /\ commands' = Append(commands, [type |-> "RespondToRequest", peer |-> dialog.peer,
                                   accept |-> accept, request |-> dialog.request])
  /\ UNCHANGED <<rows, banner, uiSettings, disk, complained, events, engine, world,
                 overlapped, budget>>

Spend(kind) ==
  /\ budget[kind] > 0 /\ Len(events) <= MaxBacklog
  /\ budget' = [budget EXCEPT ![kind] = @ - 1]

\* Closing the preferences applies what changed, saved or not.
ClosePreferences(updated, saved) ==
  /\ updated # uiSettings /\ Spend("settings")
  /\ disk' = IF saved THEN updated ELSE disk
  /\ complained' = ~saved
  /\ uiSettings' = updated
  /\ commands' = Append(commands, [type |-> "Connect", settings |-> updated])
  /\ UNCHANGED <<rows, banner, dialogs, events, engine, world, requests>>

User ==
  \/ \E dialog \in dialogs, accept \in BOOLEAN : Answer(dialog, accept)
  \/ \E updated \in Settings, saved \in BOOLEAN : ClosePreferences(updated, saved)

-----------------------------------------------------------------------------
(* The engine: commands.                                                   *)

Takes(type) == commands # <<>> /\ Head(commands).type = type
Taken == commands' = Tail(commands)

\* close() of the sessions with some devices.  The library says so later, and the task
\* that forwards what a session reports is not the next session's.
CloseSessions(some) ==
  /\ channel' = [p \in Peer |-> IF p \in some THEN "none" ELSE channel[p]]
  /\ leaving' = [p \in Peer |-> IF p \in some THEN leaving[p] + 1 ELSE leaving[p]]

\* Mutant of HandleConnect: the sessions stay when the server does.
HandleConnectSameServer ==
  /\ Takes("Connect") /\ Taken
  /\ LET new == Head(commands).settings IN
       /\ settings' = new
       /\ IF new.server = settings.server
          THEN UNCHANGED <<channel, leaving, peers, signaling, receiver, events>>
          ELSE /\ CloseSessions(Known)
               /\ peers' = NoPeers
               /\ signaling' = (new.server \in Address)
               /\ receiver' = IF new.server \in Address THEN NewConnection ELSE receiver
               /\ events' = Append(events, PeersEvent(NoPeers)) \o Refusal(new.server)
  /\ UNCHANGED <<window, present, reports, crossed, requests, budget>>

\* Everything of the old connection goes, but its receiver stays until there is another.
HandleConnect ==
  /\ Takes("Connect") /\ Taken
  /\ LET new == Head(commands).settings IN
       /\ CloseSessions(Known)
       /\ peers' = NoPeers
       /\ settings' = new
       /\ signaling' = (new.server \in Address)
       /\ receiver' = IF new.server \in Address THEN NewConnection ELSE receiver
       /\ events' = Append(events, PeersEvent(NoPeers)) \o Refusal(new.server)
  /\ UNCHANGED <<window, present, reports, crossed, requests, budget>>

\* Mutant of HandleRespondToRequest: a request whose answer does not get out still waits.
HandleRespondToRequestKeeping ==
  /\ Takes("RespondToRequest") /\ Taken
  /\ LET p == Head(commands).peer
         accept == Head(commands).accept
         waits == p \in Known /\ peers[p].pending # 0
     IN  \/ /\ waits /\ channel[p] # "none"
            /\ peers' = [peers EXCEPT ![p].pending = 0,
                 ![p].receiving = IF accept THEN peers[p].pending ELSE 0,
                 ![p].view.busy = @ \/ accept]
            /\ events' = IF accept THEN Append(events, PeersEvent(ViewsOf(peers'))) ELSE events
         \/ /\ ~(waits /\ channel[p] # "none")
            /\ UNCHANGED <<peers, events>>
  /\ UNCHANGED <<window, settings, signaling, receiver, world, requests, budget>>

\* Transfer.respond, which an answer without a request does not change.  The response may
\* not get out; if it does, accepting makes the row busy.
HandleRespondToRequest ==
  /\ Takes("RespondToRequest") /\ Taken
  /\ LET p == Head(commands).peer
         accept == Head(commands).accept
         waits == p \in Known /\ peers[p].pending # 0
     IN  \/ /\ waits
            /\ \E sent \in BOOLEAN :
                 /\ channel[p] = "open" => sent
                 /\ channel[p] = "none" => ~sent
                 /\ peers' = [peers EXCEPT ![p].pending = 0,
                      ![p].receiving = IF sent /\ accept THEN peers[p].pending ELSE 0,
                      ![p].view.busy = @ \/ (sent /\ accept)]
                 /\ events' = IF sent /\ accept
                              THEN Append(events, PeersEvent(ViewsOf(peers'))) ELSE events
         \/ /\ ~waits
            /\ UNCHANGED <<peers, events>>
  /\ UNCHANGED <<window, settings, signaling, receiver, world, requests, budget>>

-----------------------------------------------------------------------------
(* The engine: events of the connection.                                   *)

Reads(type) == receiver # None /\ receiver.inbox # <<>> /\ Head(receiver.inbox).type = type
Read == receiver' = [receiver EXCEPT !.inbox = Tail(@)]
Frame == Head(receiver.inbox)

\* Mutants of HandleState: the end of the connection is not shown; the devices are kept
\* over a dropped connection.
HandleStateUnlessClosed ==
  \/ /\ \E state \in {"Connecting", "Connected", "Failed"} :
          Reads(state) /\ events' = Append(events, ConnectionState(state))
     /\ Read
     /\ UNCHANGED <<window, commands, settings, peers, signaling, world, requests, budget>>
  \/ /\ Reads("Closed") /\ Read
     /\ UNCHANGED <<window, commands, events, settings, peers, signaling, world, requests,
                    budget>>

HandleStateKeeping ==
  /\ \E state \in {"Connecting", "Connected", "Failed", "Closed", "WaitingToRetry"} :
       /\ Reads(state)
       /\ events' = Append(events, ConnectionState(
                      CASE state = "Closed" -> "NotConfigured"
                        [] state = "WaitingToRetry" -> "Retrying" [] OTHER -> state))
  /\ Read
  /\ UNCHANGED <<window, commands, settings, peers, signaling, world, requests, budget>>

HandleState ==
  \/ /\ \E state \in {"Connecting", "Connected", "Failed", "Closed"} :
          /\ Reads(state)
          /\ events' = Append(events, ConnectionState(
                         IF state = "Closed" THEN "NotConfigured" ELSE state))
     /\ Read
     /\ UNCHANGED <<window, commands, settings, peers, signaling, world, requests, budget>>
  \/ /\ Reads("WaitingToRetry") /\ Read
     /\ CloseSessions(Known)
     /\ peers' = NoPeers
     /\ events' = events \o <<PeersEvent(NoPeers), ConnectionState("Retrying")>>
     /\ UNCHANGED <<window, commands, settings, signaling, present, reports, crossed,
                    requests, budget>>

\* JoinIpRoom: the server tells who is there, and from now on who comes and goes.  One
\* that waits for the next socket is not counted: the Identity of that one repeats it.
HandleIdentity ==
  /\ Reads("Identity")
  /\ receiver' = IF signaling /\ receiver.link = "connected"
                 THEN [receiver EXCEPT !.joined = TRUE,
                         !.inbox = Append(Tail(@), [type |-> "Peers", peers |-> present])]
                 ELSE [receiver EXCEPT !.inbox = Tail(@)]
  /\ UNCHANGED <<window, commands, events, settings, peers, signaling, world, requests, budget>>

\* dial whoever is not known.  (A session that cannot be built is left out.)
Dial(some) ==
  /\ channel' = [p \in Peer |-> IF p \in some \ Known THEN "new" ELSE channel[p]]
  /\ peers' = [p \in Peer |-> IF p \in some \ Known THEN NewPeer ELSE peers[p]]
  /\ crossed' = crossed \ (some \ Known)
  /\ events' = Append(events, PeersEvent(ViewsOf(peers')))

HandlePeers ==
  /\ \/ Reads("Peers") /\ Dial(Frame.peers)
     \/ Reads("PeerJoined") /\ Dial({Frame.peer})
  /\ Read
  /\ UNCHANGED <<window, commands, settings, signaling, present, reports, leaving, requests,
                 budget>>

HandlePeerLeft ==
  /\ Reads("PeerLeft") /\ Read
  /\ CloseSessions(Known \intersect {Frame.peer})
  /\ peers' = [peers EXCEPT ![Frame.peer] = None]
  /\ events' = Append(events, PeersEvent(ViewsOf(peers')))
  /\ UNCHANGED <<window, commands, settings, signaling, present, reports, crossed, requests,
                 budget>>

HandleSignaling == HandleState \/ HandleIdentity \/ HandlePeers \/ HandlePeerLeft

-----------------------------------------------------------------------------
(* The engine: events of the sessions.                                     *)

Reported(p, type) == reports[p] # <<>> /\ Head(reports[p]).type = type

Becomes(p, state, more) ==
  /\ peers' = [peers EXCEPT ![p] = state]
  /\ events' = more \o <<PeersEvent(ViewsOf(peers'))>>

HandleOpen(p) ==
  /\ Reported(p, "Open") /\ p \in Known
  /\ Becomes(p, [peers[p] EXCEPT !.view.connected = TRUE], events)

\* Transfer waits with a request, or receives for one.
Occupied(p) == peers[p].pending # 0 \/ peers[p].receiving # 0

\* Mutant of HandleRequest: whoever was accepted once is not asked about again.
HandleRequestTrusting(p) ==
  /\ Reported(p, "Request") /\ p \in Known /\ ~Occupied(p)
  /\ LET q == Head(reports[p]).request
         trusted == \E earlier \in Request : answers[earlier] = "yes"
     IN  peers' = [peers EXCEPT ![p].pending = IF trusted THEN 0 ELSE q,
                                ![p].receiving = IF trusted THEN q ELSE 0]
  /\ events' = Append(events, [type |-> "IncomingRequest", peer |-> p,
                              request |-> Head(reports[p]).request])

\* RequestReceived: the request waits, the window is asked.  One at a time: another is
\* refused as busy.
HandleRequest(p) ==
  /\ Reported(p, "Request") /\ p \in Known
  /\ \/ /\ ~Occupied(p)
        /\ LET q == Head(reports[p]).request IN
             /\ peers' = [peers EXCEPT ![p].pending = q]
             /\ events' = Append(events, [type |-> "IncomingRequest", peer |-> p, request |-> q])
     \/ Occupied(p) /\ UNCHANGED <<peers, events>>

\* The last chunk: FilesReceived.
HandleReceived(p) ==
  /\ Reported(p, "Received") /\ p \in Known
  /\ Becomes(p, [peers[p] EXCEPT !.receiving = 0, !.view.busy = FALSE], events)

\* Mutant of HandleGone: nothing is published.
HandleGoneSilently(p) ==
  /\ Reported(p, "Closed") /\ p \in Known
  /\ peers' = [peers EXCEPT ![p] = [@ EXCEPT !.pending = 0, !.receiving = 0,
                                             !.view.connected = FALSE]]
  /\ UNCHANGED events

\* Failed and Closed reset the transfer.
HandleGone(p) ==
  /\ Reported(p, "Closed") /\ p \in Known
  /\ Becomes(p, [peers[p] EXCEPT !.pending = 0, !.receiving = 0, !.view.connected = FALSE],
             events)

\* Of a device that is not known any more: only Closed is published.
HandleUnknown(p) ==
  /\ reports[p] # <<>> /\ p \notin Known
  /\ events' = IF Head(reports[p]).type = "Closed"
               THEN Append(events, PeersEvent(ViewsOf(peers))) ELSE events
  /\ UNCHANGED peers

HandleRtc ==
  /\ \E p \in Peer :
       /\ \/ HandleOpen(p) \/ HandleRequest(p) \/ HandleReceived(p)
          \/ HandleGone(p) \/ HandleUnknown(p)
       /\ reports' = [reports EXCEPT ![p] = Tail(@)]
  /\ UNCHANGED <<window, commands, settings, signaling, receiver, present, channel, closed,
                 requests, budget>>

-----------------------------------------------------------------------------
(* The signaling task, the server and the other devices.                   *)

Tells(frame) == Append(receiver.inbox, frame)

\* The server says that this device left, and the other ends close.
Lost == [p \in Peer |-> IF channel[p] = "none" THEN "none" ELSE "lost"]

TaskConnects ==
  /\ receiver # None /\ receiver.link = "connecting"
  /\ receiver' = [link |-> "connected", joined |-> FALSE,
                  inbox |-> receiver.inbox \o <<[type |-> "Connected"], [type |-> "Identity"]>>]
  /\ UNCHANGED <<window, commands, events, settings, peers, signaling, world, requests, budget>>

TaskDrops ==
  /\ receiver # None /\ receiver.link \in {"connecting", "connected"} /\ Spend("drops")
  /\ receiver' = [link |-> "waiting", joined |-> FALSE,
                  inbox |-> Tells([type |-> "WaitingToRetry"])]
  /\ channel' = IF receiver.joined THEN Lost ELSE channel
  /\ UNCHANGED <<window, commands, events, settings, peers, signaling, present, reports, closed,
                 requests>>

TaskRetries ==
  /\ receiver # None /\ receiver.link = "waiting"
  /\ receiver' = [receiver EXCEPT !.link = "connecting", !.inbox = Tells([type |-> "Connecting"])]
  /\ UNCHANGED <<window, commands, events, settings, peers, signaling, world, requests, budget>>

\* The address is no URL, or TLS cannot be set up: the task ends for good.
TaskFails ==
  /\ receiver # None /\ receiver.link = "connecting"
  /\ receiver' = [receiver EXCEPT !.link = "failed", !.inbox = Tells([type |-> "Failed"])]
  /\ UNCHANGED <<window, commands, events, settings, peers, signaling, world, requests, budget>>

\* Without its handle the task reads Shutdown.
TaskEnds ==
  /\ receiver # None /\ ~signaling /\ receiver.link \in {"waiting", "connected"}
  /\ receiver' = [link |-> "ended", joined |-> FALSE, inbox |-> Tells([type |-> "Closed"])]
  /\ channel' = IF receiver.joined THEN Lost ELSE channel
  /\ UNCHANGED <<window, commands, events, settings, peers, signaling, present, reports, closed,
                 requests, budget>>

Joined == receiver # None /\ receiver.joined

Come(p) ==
  /\ p \notin present /\ Spend("moves")
  /\ present' = present \union {p}
  /\ receiver' = IF ~Joined THEN receiver
                 ELSE [receiver EXCEPT !.inbox = Tells([type |-> "PeerJoined", peer |-> p])]
  /\ UNCHANGED <<window, commands, events, settings, peers, signaling, channel, reports, closed,
                 requests>>

Go(p) ==
  /\ p \in present /\ Spend("moves")
  /\ present' = present \ {p}
  /\ channel' = [channel EXCEPT ![p] = IF @ = "none" THEN "none" ELSE "lost"]
  /\ receiver' = IF ~Joined THEN receiver
                 ELSE [receiver EXCEPT !.inbox = Tells([type |-> "PeerLeft", peer |-> p])]
  /\ UNCHANGED <<window, commands, events, settings, peers, signaling, reports, closed,
                 requests>>

Happens(p, state, report) ==
  /\ channel' = [channel EXCEPT ![p] = state]
  /\ reports' = [reports EXCEPT ![p] = Append(@, report)]
  /\ UNCHANGED <<window, commands, events, engine, present>>

\* The descriptions go through the server.
ChannelOpens(p) ==
  /\ channel[p] = "new" /\ signaling /\ Joined
  /\ Happens(p, "open", [type |-> "Open"])
  /\ UNCHANGED <<closed, requests, budget>>

ChannelEnds(p) ==
  /\ channel[p] = "lost"
  /\ Happens(p, "none", [type |-> "Closed"])
  /\ UNCHANGED <<closed, requests, budget>>

\* A closed session reports its end, whatever the next one has reported since.
ClosesLate(p) ==
  /\ leaving[p] > 0 /\ leaving' = [leaving EXCEPT ![p] = @ - 1]
  /\ crossed' = IF channel[p] = "open" THEN crossed \union {p} ELSE crossed
  /\ Happens(p, channel[p], [type |-> "Closed"])
  /\ UNCHANGED <<requests, budget>>

\* An earlier request of p still awaits the user or the engine.
Outstanding(p) ==
  \/ \E dialog \in dialogs : dialog.peer = p
  \/ \E i \in DOMAIN events : events[i].type = "IncomingRequest" /\ events[i].peer = p
  \/ \E i \in DOMAIN commands : commands[i].type = "RespondToRequest" /\ commands[i].peer = p

Queued(p, type) == \E i \in DOMAIN reports[p] : reports[p][i].type = type

\* A device asks, over its session or late over one that was closed.
Asks(p) ==
  /\ channel[p] = "open" \/ leaving[p] > 0
  /\ Spend("requests")
  /\ LET q == 1 + MaxRequests - budget.requests IN
       /\ Happens(p, channel[p], [type |-> "Request", request |-> q])
       /\ overlapped' = IF Outstanding(p) \/ Queued(p, "Request") THEN overlapped \union {q}
                        ELSE overlapped
  /\ UNCHANGED <<closed, answers>>

SendsAll(p) ==
  /\ channel[p] = "open" /\ p \in Known /\ peers[p].receiving # 0 /\ ~Queued(p, "Received")
  /\ Happens(p, "open", [type |-> "Received"])
  /\ UNCHANGED <<closed, requests, budget>>

-----------------------------------------------------------------------------

Ui == ShowConnection \/ UpdatePeers \/ AskAboutRequest
EngineThread == HandleConnect \/ HandleRespondToRequest \/ HandleSignaling \/ HandleRtc
Task == TaskConnects \/ TaskFails \/ TaskRetries \/ TaskEnds
Channels == \E p \in Peer : ChannelOpens(p) \/ ChannelEnds(p)

Environment ==
  \/ User \/ TaskDrops
  \/ \E p \in Peer : Come(p) \/ Go(p) \/ ClosesLate(p) \/ Asks(p) \/ SendsAll(p)

Next == Ui \/ EngineThread \/ Task \/ Channels \/ Environment

Spec == Init /\ [][Next]_vars

\* The GTK main loop awaits the events, select! polls its branches, the runtime the task,
\* whose handshake (TaskConnects) has no timeout and may never be answered.  Of the network,
\* that two devices which exchanged descriptions reach each other.
FairSpec ==
  /\ Spec /\ WF_vars(Ui)
  /\ WF_vars(HandleConnect \/ HandleRespondToRequest) /\ WF_vars(HandleSignaling)
  /\ WF_vars(HandleRtc) /\ WF_vars(TaskRetries \/ TaskEnds) /\ WF_vars(Channels)

-----------------------------------------------------------------------------

TypeOK ==
  /\ rows \in [Peer -> View \union {None}] /\ banner \in Shown
  /\ dialogs \subseteq [peer : Peer, request : Request]
  /\ uiSettings \in Settings /\ disk \in Settings /\ complained \in BOOLEAN
  /\ commands \in Seq(Command) /\ events \in Seq(Event)
  /\ settings \in Settings /\ signaling \in BOOLEAN
  /\ peers \in [Peer -> PeerState \union {None}]
  /\ receiver \in Connection \union {None}
  /\ present \subseteq Peer
  /\ channel \in [Peer -> {"none", "new", "open", "lost"}] /\ reports \in [Peer -> Seq(Report)]
  /\ leaving \in [Peer -> Nat] /\ crossed \subseteq Peer
  /\ answers \in [Request -> {"none", "yes", "no"}] /\ overlapped \subseteq Request
  /\ budget \in Budget

\* "Event::Peers: a whole snapshot": when the window has applied every event, its rows are
\* the peers of the engine, whatever made them change.
RowsCatchUp == events = <<>> => rows = ViewsOf(peers)

Quiet ==
  /\ commands = <<>> /\ events = <<>>
  /\ receiver # None => receiver.inbox = <<>>
  /\ \A p \in Peer : reports[p] = <<>>

\* A request the engine waits with can be answered: its dialog is open or on its way, or
\* an answer is.  (Only a device that has gone leaves a dialog without a request.)
RequestsCanBeAnswered ==
  \A p \in Known : peers[p].pending # 0 =>
    \/ [peer |-> p, request |-> peers[p].pending] \in dialogs
    \/ Outstanding(p)

\* "Incoming transfers prompt before anything touches the disk": files are received for a
\* request only if the user said so in its own dialog.  The exception is a request made
\* while something of an earlier one awaits the user or the engine: the dialog of one may
\* answer the other.
ReceivesWhatWasAccepted ==
  \A p \in Known :
    peers[p].receiving \in Request \ overlapped => answers[peers[p].receiving] = "yes"

\* The engine works with the settings the window shows, or is about to, and so does every
\* transfer; the file has them unless the window complained.
SettingsAreInForce ==
  /\ commands = <<>> => settings = uiSettings
  /\ \A p \in Known : peers[p].folder = settings.folder
  /\ disk = uiSettings \/ complained

\* Once everything is handled the banner tells the state of the connection that is there,
\* and does not promise one when there is none.
BannerIsTrue ==
  Quiet =>
    IF signaling
    THEN banner = CASE receiver.link = "connecting" -> "Connecting"
                    [] receiver.link = "connected" -> "Connected"
                    [] receiver.link = "waiting" -> "Retrying"
                    [] receiver.link = "failed" -> "Failed"
    ELSE receiver = None \/ receiver.link \in {"failed", "ended"} => banner \in {"NotConfigured", "Failed"}

\* When the user and the world leave it alone, the application comes to rest with the
\* settings the window shows, its rows true.  If they name a server it is connected, to the
\* server and to all who are there, unless the connection could not be set up at all or its
\* handshake is never answered.  A device is shown connected unless its session opened before
\* an earlier one reported its end, which is then taken for the end of the new one.
Settles ==
  <>[](/\ settings = uiSettings /\ rows = ViewsOf(peers)
       /\ signaling => \/ receiver.link \in {"connecting", "failed"}
                       \/ /\ receiver.link = "connected"
                          /\ \A p \in present :
                               p \in Known /\ (peers[p].view.connected \/ p \in crossed))

\* "Tear the old connection down first, or peers linger under stale sessions": without a
\* server there are no devices.
NoneLinger == Quiet /\ ~signaling => Known = {}
=============================================================================
