-------------------------- MODULE Application_proofs --------------------------
(***************************************************************************)
(* Proofs about Application, for any devices, addresses and folders and    *)
(* whatever bounds are put on the user and the world.                      *)
(***************************************************************************)
EXTENDS Application, SequenceTheorems, TLAPS

-----------------------------------------------------------------------------
(* Queues. `Silent`: nothing of a kind is in the queue. `EndsWith`: the    *)
(* last of that kind is one of these.                                      *)

Silent(q, S) == \A i \in DOMAIN q : q[i] \notin S

EndsWith(q, S, X) == \E i \in DOMAIN q : q[i] \in X /\ \A j \in DOMAIN q : j > i => q[j] \notin S

LEMMA HeadAndTail ==
  ASSUME NEW T, NEW q \in Seq(T), q # <<>>
  PROVE  /\ Head(q) \in T /\ Tail(q) \in Seq(T)
         /\ Len(q) \in Nat \ {0} /\ Len(Tail(q)) = Len(q) - 1
         /\ Head(q) = q[1]
         /\ \A i \in DOMAIN Tail(q) : i + 1 \in DOMAIN q /\ Tail(q)[i] = q[i + 1]
         /\ \A i \in DOMAIN q : i = 1 \/ (i - 1 \in DOMAIN Tail(q) /\ Tail(q)[i - 1] = q[i])
OBVIOUS

LEMMA Appended ==
  ASSUME NEW T, NEW q \in Seq(T), NEW x \in T
  PROVE  /\ Append(q, x) \in Seq(T) /\ Len(q) \in Nat
         /\ DOMAIN q = 1..Len(q) /\ DOMAIN Append(q, x) = 1..(Len(q) + 1)
         /\ Append(q, x)[Len(q) + 1] = x
         /\ \A i \in DOMAIN q : Append(q, x)[i] = q[i]
OBVIOUS

LEMMA Concats ==
  ASSUME NEW T, NEW q \in Seq(T), NEW x \in T, NEW y \in T
  PROVE  /\ q \o <<>> = q /\ q \o <<x>> = Append(q, x)
         /\ q \o <<x, y>> = Append(Append(q, x), y)
OBVIOUS

LEMMA Short ==
  ASSUME NEW T, NEW x \in T
  PROVE  <<x>> \in Seq(T) /\ <<>> \in Seq(T)
OBVIOUS

LEMMA EmptyQueue ==
  ASSUME NEW S, NEW X
  PROVE  Silent(<<>>, S) /\ ~EndsWith(<<>>, S, X)
BY DEF Silent, EndsWith

LEMMA QueueAppend ==
  ASSUME NEW T, NEW q \in Seq(T), NEW x \in T, NEW S, NEW X
  PROVE  /\ x \notin S /\ Silent(q, S) => Silent(Append(q, x), S)
         /\ x \notin S /\ EndsWith(q, S, X) => EndsWith(Append(q, x), S, X)
         /\ x \in X => EndsWith(Append(q, x), S, X)
<1> DEFINE longer == Append(q, x)
<1>1. /\ Len(q) \in Nat /\ DOMAIN q = 1..Len(q) /\ DOMAIN longer = 1..(Len(q) + 1)
      /\ longer[Len(q) + 1] = x /\ \A i \in DOMAIN q : longer[i] = q[i]
  BY Appended
<1> HIDE DEF longer
<1>2. x \notin S /\ Silent(q, S) => Silent(longer, S)
  BY <1>1 DEF Silent
<1>3. ASSUME x \notin S, EndsWith(q, S, X)
      PROVE  EndsWith(longer, S, X)
  <2>1. PICK i \in DOMAIN q : q[i] \in X /\ \A j \in DOMAIN q : j > i => q[j] \notin S
    BY <1>3 DEF EndsWith
  <2>2. i \in DOMAIN longer /\ longer[i] \in X
    BY <1>1, <2>1
  <2>3. \A j \in DOMAIN longer : j > i => longer[j] \notin S
    BY <1>1, <1>3, <2>1
  <2> QED
    BY <2>2, <2>3 DEF EndsWith
<1>4. ASSUME x \in X
      PROVE  EndsWith(longer, S, X)
  <2>1. Len(q) + 1 \in DOMAIN longer /\ \A j \in DOMAIN longer : ~(j > Len(q) + 1)
    BY <1>1
  <2> QED
    BY <1>1, <1>4, <2>1 DEF EndsWith
<1> QED
  BY <1>2, <1>3, <1>4 DEF longer

LEMMA QueueTail ==
  ASSUME NEW T, NEW q \in Seq(T), q # <<>>, NEW S, NEW X
  PROVE  /\ Silent(q, S) => Silent(Tail(q), S)
         /\ EndsWith(q, S, X) =>
              EndsWith(Tail(q), S, X) \/ (Head(q) \in X /\ Silent(Tail(q), S))
<1> DEFINE rest == Tail(q)
<1>1. /\ Len(q) \in Nat \ {0} /\ Head(q) = q[1] /\ DOMAIN q = 1..Len(q)
      /\ \A i \in DOMAIN rest : i + 1 \in DOMAIN q /\ rest[i] = q[i + 1]
      /\ \A i \in DOMAIN q : i = 1 \/ (i - 1 \in DOMAIN rest /\ rest[i - 1] = q[i])
      /\ DOMAIN rest \subseteq Nat \ {0}
  BY HeadAndTail
<1> HIDE DEF rest
<1>2. Silent(q, S) => Silent(rest, S)
  BY <1>1 DEF Silent
<1>3. ASSUME EndsWith(q, S, X)
      PROVE  EndsWith(rest, S, X) \/ (Head(q) \in X /\ Silent(rest, S))
  <2>1. PICK i \in DOMAIN q : q[i] \in X /\ \A j \in DOMAIN q : j > i => q[j] \notin S
    BY <1>3 DEF EndsWith
  <2>2. i \in Nat
    BY <1>1
  <2>3. CASE i = 1
    BY <1>1, <2>1, <2>3 DEF Silent
  <2>4. CASE i # 1
    <3>1. i - 1 \in DOMAIN rest /\ rest[i - 1] \in X
      BY <1>1, <2>1, <2>4
    <3>2. ASSUME NEW j \in DOMAIN rest, j > i - 1
          PROVE  rest[j] \notin S
      <4>1. j + 1 \in DOMAIN q /\ rest[j] = q[j + 1] /\ j \in Nat
        BY <1>1
      <4>2. j + 1 > i
        BY <2>2, <3>2, <4>1
      <4> QED
        BY <2>1, <4>1, <4>2
    <3> QED
      BY <3>1, <3>2 DEF EndsWith
  <2> QED
    BY <2>3, <2>4
<1> QED
  BY <1>2, <1>3 DEF rest

-----------------------------------------------------------------------------
(* Types.                                                                  *)

List == [Peer -> PeerState \union {None}]

\* HandleState, one case at a time.
HandleStateShown(state) ==
  /\ Reads(state) /\ Read
  /\ events' = Append(events, ConnectionState(IF state = "Closed" THEN "NotConfigured" ELSE state))
  /\ UNCHANGED <<window, commands, settings, peers, signaling, world, requests, budget>>

HandleWaitingToRetry ==
  /\ Reads("WaitingToRetry") /\ Read
  /\ CloseSessions(Known)
  /\ peers' = NoPeers
  /\ events' = events \o <<PeersEvent(NoPeers), ConnectionState("Retrying")>>
  /\ UNCHANGED <<window, commands, settings, signaling, present, reports, crossed, requests,
                    budget>>

LEMMA HandleStateCases ==
  HandleState => \/ \E state \in {"Connecting", "Connected", "Failed", "Closed"} : HandleStateShown(state)
                 \/ HandleWaitingToRetry
BY DEF HandleState, HandleStateShown, HandleWaitingToRetry

\* HandleRtc: a request that is taken, and what changes no device.
HandleNewRequest(p) ==
  /\ Reported(p, "Request") /\ p \in Known
  /\ peers' = [peers EXCEPT ![p].pending = Head(reports[p]).request]
  /\ events' = Append(events, [type |-> "IncomingRequest", peer |-> p,
                              request |-> Head(reports[p]).request])

HandleIgnored(p) ==
  /\ reports[p] # <<>> /\ UNCHANGED peers
  /\ events' \in {events, Append(events, PeersEvent(ViewsOf(peers)))}

LEMMA HandleRtcCases ==
  ASSUME NEW p \in Peer
  PROVE  /\ HandleRequest(p) => HandleNewRequest(p) \/ HandleIgnored(p)
         /\ HandleUnknown(p) => HandleIgnored(p)
BY DEF HandleRequest, HandleUnknown, HandleNewRequest, HandleIgnored, Reported

\* The two steps that change the type-laden records, in the words of whole records.
Responded(p, accept, sent) ==
  [peers[p] EXCEPT !.pending = 0,
     !.receiving = IF sent /\ accept THEN peers[p].pending ELSE 0,
     !.view = [peers[p].view EXCEPT !.busy = peers[p].view.busy \/ (sent /\ accept)]]

LEMMA EventTypes ==
  /\ \A state \in Shown : ConnectionState(state) \in Event
  /\ \A views \in [Peer -> View \union {None}] : PeersEvent(views) \in Event
  /\ \A p \in Peer, q \in Request : [type |-> "IncomingRequest", peer |-> p, request |-> q] \in Event
BY DEF Event, ConnectionState, PeersEvent

LEMMA EventFields ==
  ASSUME NEW event \in Event
  PROVE  /\ event.type \in {"Connection", "Peers", "IncomingRequest"}
         /\ event.type = "Connection" => event.state \in Shown /\ event = ConnectionState(event.state)
         /\ event.type = "Peers" =>
              event.views \in [Peer -> View \union {None}] /\ event = PeersEvent(event.views)
         /\ event.type = "IncomingRequest" => event.peer \in Peer /\ event.request \in Request
BY DEF Event, ConnectionState, PeersEvent

LEMMA CommandTypes ==
  /\ \A new \in Settings : [type |-> "Connect", settings |-> new] \in Command
  /\ \A p \in Peer, accept \in BOOLEAN, q \in Request :
       [type |-> "RespondToRequest", peer |-> p, accept |-> accept, request |-> q] \in Command
BY DEF Command

LEMMA CommandFields ==
  ASSUME NEW command \in Command
  PROVE  /\ command.type \in {"Connect", "RespondToRequest"}
         /\ command.type = "Connect" =>
              /\ command.settings \in Settings
              /\ command = [type |-> "Connect", settings |-> command.settings]
         /\ command.type = "RespondToRequest" =>
              command.peer \in Peer /\ command.accept \in BOOLEAN /\ command.request \in Request
BY DEF Command

LEMMA SignalingTypes ==
  /\ \A type \in {"Connecting", "Connected", "WaitingToRetry", "Failed", "Closed", "Identity"} :
       [type |-> type] \in SignalingEvent
  /\ \A some \in SUBSET Peer : [type |-> "Peers", peers |-> some] \in SignalingEvent
  /\ \A p \in Peer : /\ [type |-> "PeerJoined", peer |-> p] \in SignalingEvent
                     /\ [type |-> "PeerLeft", peer |-> p] \in SignalingEvent
BY DEF SignalingEvent

LEMMA SignalingFields ==
  ASSUME NEW frame \in SignalingEvent
  PROVE  /\ frame.type = "Peers" => frame.peers \subseteq Peer
         /\ frame.type \in {"PeerJoined", "PeerLeft"} => frame.peer \in Peer
         /\ frame.type \in {"Connecting", "Connected", "WaitingToRetry", "Failed", "Closed"} =>
              frame = [type |-> frame.type]
BY DEF SignalingEvent

LEMMA ReportTypes ==
  /\ \A type \in {"Open", "Received", "Closed"} : [type |-> type] \in Report
  /\ \A q \in Request : [type |-> "Request", request |-> q] \in Report
BY DEF Report

LEMMA ReportFields ==
  ASSUME NEW report \in Report, report.type = "Request"
  PROVE  report.request \in Request
BY DEF Report

LEMMA ViewsType ==
  ASSUME NEW list \in List
  PROVE  /\ ViewsOf(list) \in [Peer -> View \union {None}]
         /\ \A p \in Peer : list[p] # None => list[p] \in PeerState /\ list[p].view \in View
<1>1. \A p \in Peer : list[p] # None => list[p] \in PeerState
  BY DEF List
<1>2. \A p \in Peer : list[p] # None => list[p].view \in View
  BY <1>1 DEF PeerState
<1> QED
  BY <1>1, <1>2 DEF ViewsOf

LEMMA RespondedType ==
  ASSUME NEW p, peers[p] \in PeerState, NEW accept \in BOOLEAN, NEW sent \in BOOLEAN
  PROVE  LET new == Responded(p, accept, sent) IN
           /\ new.pending = 0 /\ new.folder = peers[p].folder
           /\ new.receiving = IF sent /\ accept THEN peers[p].pending ELSE 0
           /\ ~(sent /\ accept) => new.view = peers[p].view
<1> DEFINE busy == peers[p].view.busy \/ (sent /\ accept)
           view == [peers[p].view EXCEPT !.busy = busy]
<1>1. ~(sent /\ accept) => view = peers[p].view
  BY DEF PeerState, View
<1> HIDE DEF view
<1>2. Responded(p, accept, sent) =
        [peers[p] EXCEPT !.pending = 0,
           !.receiving = IF sent /\ accept THEN peers[p].pending ELSE 0, !.view = view]
  BY DEF Responded, view
<1> QED
  BY <1>1, <1>2 DEF PeerState

LEMMA NoPeersType ==
  NoPeers \in List /\ ViewsOf(NoPeers) = NoPeers /\ NoPeers \in [Peer -> View \union {None}]
BY DEF NoPeers, List, ViewsOf

LEMMA ListUpdated ==
  ASSUME NEW list \in List, NEW p \in Peer, NEW state \in PeerState \union {None}
  PROVE  /\ [list EXCEPT ![p] = state] \in List
         /\ \A o \in Peer : [list EXCEPT ![p] = state][o] = IF o = p THEN state ELSE list[o]
BY DEF List

\* A change that the window cannot see.
LEMMA SameViews ==
  ASSUME NEW list \in List, NEW p \in Peer, list[p] # None, NEW state \in PeerState,
         state.view = list[p].view
  PROVE  ViewsOf([list EXCEPT ![p] = state]) = ViewsOf(list)
<1> DEFINE new == [list EXCEPT ![p] = state]
<1>1. \A o \in Peer : new[o] = IF o = p THEN state ELSE list[o]
  BY DEF List
<1>2. state # None
  BY NoneAssumption
<1> HIDE DEF new
<1>3. \A o \in Peer : (new[o] = None <=> list[o] = None) /\ (list[o] # None => new[o].view = list[o].view)
  BY <1>1, <1>2
<1> QED
  BY <1>3 DEF ViewsOf, new

LEMMA NewPeerType ==
  ASSUME settings \in Settings
  PROVE  /\ NewPeer \in PeerState /\ NewPeer.pending = 0 /\ NewPeer.receiving = 0
         /\ NewPeer.folder = settings.folder
<1>1. settings.folder \in Folder
  BY SettingsAssumption
<1>2. [connected |-> FALSE, busy |-> FALSE] \in View
  BY DEF View
<1> QED
  BY <1>1, <1>2 DEF NewPeer, PeerState

LEMMA NewConnectionType ==
  /\ NewConnection \in Connection /\ NewConnection.link = "connecting"
  /\ NewConnection.inbox = <<[type |-> "Connecting"]>>
<1>1. <<[type |-> "Connecting"]>> \in Seq(SignalingEvent)
  BY SignalingTypes, Short, Zenon
<1> QED
  BY <1>1 DEF NewConnection, Connection

LEMMA RefusalType ==
  ASSUME NEW server
  PROVE  /\ Refusal(server) \in Seq(Event)
         /\ \/ Refusal(server) = <<>>
            \/ Refusal(server) = <<ConnectionState("NotConfigured")>>
            \/ Refusal(server) = <<ConnectionState("Failed")>>
         /\ server \in {Empty, Unusable} => Refusal(server) # <<>>
         /\ server \in Address => Refusal(server) = <<>>
<1> DEFINE none == <<ConnectionState("NotConfigured")>>
           failed == <<ConnectionState("Failed")>>
<1>0. ConnectionState("NotConfigured") \in Event /\ ConnectionState("Failed") \in Event
  BY EventTypes DEF Shown
<1>1. none \in Seq(Event) /\ failed \in Seq(Event) /\ <<>> \in Seq(Event)
  BY <1>0, Short, Zenon
<1>2. none # <<>> /\ failed # <<>>
  OBVIOUS
<1>3. Refusal(server) = IF server = Empty THEN none ELSE IF server = Unusable THEN failed ELSE <<>>
  BY DEF Refusal
<1> HIDE DEF none, failed
<1>4. Refusal(server) \in {none, failed, <<>>}
  BY <1>3
<1>5. server \in {Empty, Unusable} => Refusal(server) # <<>>
  BY <1>2, <1>3
<1>6. server \in Address => Refusal(server) = <<>>
  BY <1>3, AddressAssumption
<1> QED
  BY <1>1, <1>4, <1>5, <1>6 DEF none, failed

LEMMA SpendType ==
  ASSUME TypeOK, NEW kind \in {"settings", "requests", "moves", "drops"}, Spend(kind)
  PROVE  /\ budget' \in Budget
         /\ kind # "requests" => budget'.requests = budget.requests
         /\ kind = "requests" => budget.requests > 0 /\ budget'.requests = budget.requests - 1
<1>1. budget \in [settings : Nat, requests : 0..MaxRequests, moves : Nat, drops : Nat]
  BY DEF TypeOK, Budget
<1>2. budget[kind] > 0 /\ budget' = [budget EXCEPT ![kind] = budget[kind] - 1]
  BY DEF Spend
<1>3. CASE kind = "settings"
  BY <1>1, <1>2, <1>3, BoundAssumption DEF Budget
<1>4. CASE kind = "requests"
  BY <1>1, <1>2, <1>4, BoundAssumption DEF Budget
<1>5. CASE kind = "moves"
  BY <1>1, <1>2, <1>5, BoundAssumption DEF Budget
<1>6. CASE kind = "drops"
  BY <1>1, <1>2, <1>6, BoundAssumption DEF Budget
<1> QED
  BY <1>3, <1>4, <1>5, <1>6

LEMMA CloseSessionsType ==
  ASSUME TypeOK, NEW some, CloseSessions(some)
  PROVE  /\ channel' \in [Peer -> {"none", "new", "open", "lost"}]
         /\ leaving' \in [Peer -> Nat]
BY DEF TypeOK, CloseSessions

LEMMA ReadsType ==
  ASSUME TypeOK, NEW type, Reads(type)
  PROVE  /\ receiver \in Connection /\ receiver # None
         /\ receiver.inbox \in Seq(SignalingEvent) /\ receiver.inbox # <<>>
         /\ Frame \in SignalingEvent /\ Frame.type = type
         /\ Tail(receiver.inbox) \in Seq(SignalingEvent)
         /\ Read => /\ receiver' \in Connection /\ receiver'.link = receiver.link
                    /\ receiver'.inbox = Tail(receiver.inbox)
<1>1. receiver \in Connection /\ receiver # None /\ receiver.inbox # <<>> /\ Frame.type = type
  BY DEF TypeOK, Reads, Frame
<1>2. receiver.inbox \in Seq(SignalingEvent)
  BY <1>1 DEF Connection
<1>3. Frame \in SignalingEvent /\ Tail(receiver.inbox) \in Seq(SignalingEvent)
  BY <1>1, <1>2, HeadAndTail DEF Frame
<1> DEFINE rest == Tail(receiver.inbox)
<1> HIDE DEF rest
<1>4. rest \in Seq(SignalingEvent) => /\ [receiver EXCEPT !.inbox = rest] \in Connection
                                      /\ [receiver EXCEPT !.inbox = rest].link = receiver.link
                                      /\ [receiver EXCEPT !.inbox = rest].inbox = rest
  BY <1>1 DEF Connection
<1>5. Read => receiver' = [receiver EXCEPT !.inbox = rest]
  BY DEF Read, rest
<1> QED
  BY <1>1, <1>2, <1>3, <1>4, <1>5 DEF rest

\* What the task or the server adds to the queue of a connection.
LEMMA TellsType ==
  ASSUME TypeOK, receiver # None, NEW frame \in SignalingEvent
  PROVE  receiver \in Connection /\ receiver.inbox \in Seq(SignalingEvent)
         /\ Tells(frame) \in Seq(SignalingEvent)
<1>1. receiver \in Connection
  BY DEF TypeOK
<1>2. receiver.inbox \in Seq(SignalingEvent)
  BY <1>1 DEF Connection
<1> QED
  BY <1>1, <1>2, Appended DEF Tells

-----------------------------------------------------------------------------
(* Every action keeps the types.                                           *)

LEMMA UiTypes ==
  ASSUME TypeOK, Ui
  PROVE  TypeOK'
<1> DEFINE event == Head(events)
<1>1. events # <<>> /\ events' = Tail(events)
  BY DEF Ui, ShowConnection, UpdatePeers, AskAboutRequest, Applies, Applied
<1>2. event \in Event /\ events' \in Seq(Event)
  BY <1>1, HeadAndTail DEF TypeOK
<1>3. CASE ShowConnection
  <2>1. event.type = "Connection" /\ banner' = event.state
    BY <1>3 DEF ShowConnection, Applies
  <2>2. banner' \in Shown
    BY <1>2, <2>1, EventFields
  <2> QED
    BY <1>2, <1>3, <2>2 DEF ShowConnection, TypeOK, engine, world, closed, requests
<1>4. CASE UpdatePeers
  <2>1. event.type = "Peers" /\ rows' = event.views
    BY <1>4 DEF UpdatePeers, Applies
  <2>2. rows' \in [Peer -> View \union {None}]
    BY <1>2, <2>1, EventFields
  <2> QED
    BY <1>2, <1>4, <2>2 DEF UpdatePeers, TypeOK, engine, world, closed, requests
<1>5. CASE AskAboutRequest
  <2>1. /\ event.type = "IncomingRequest"
        /\ dialogs' = dialogs \union {[peer |-> event.peer, request |-> event.request]}
    BY <1>5 DEF AskAboutRequest, Applies
  <2>2. dialogs' \subseteq [peer : Peer, request : Request]
    BY <1>2, <2>1, EventFields DEF TypeOK
  <2> QED
    BY <1>2, <1>5, <2>2 DEF AskAboutRequest, TypeOK, engine, world, closed, requests
<1> QED
  BY <1>3, <1>4, <1>5 DEF Ui

LEMMA UserTypes ==
  ASSUME TypeOK, User
  PROVE  TypeOK'
<1>1. ASSUME NEW dialog \in dialogs, NEW accept \in BOOLEAN, Answer(dialog, accept)
      PROVE  TypeOK'
  <2> DEFINE command == [type |-> "RespondToRequest", peer |-> dialog.peer,
                         accept |-> accept, request |-> dialog.request]
  <2>1. dialog.peer \in Peer /\ dialog.request \in Request
    BY DEF TypeOK
  <2>2. command \in Command
    BY <2>1, CommandTypes
  <2>3. /\ dialogs' = dialogs \ {dialog}
        /\ answers' = [answers EXCEPT ![dialog.request] = IF accept THEN "yes" ELSE "no"]
        /\ commands' = Append(commands, command)
        /\ UNCHANGED <<rows, banner, uiSettings, disk, complained, events, engine, world,
                       overlapped, budget>>
    BY <1>1 DEF Answer
  <2> HIDE DEF command
  <2>4. commands' \in Seq(Command)
    BY <2>2, <2>3, Appended DEF TypeOK
  <2>5. /\ dialogs' \subseteq [peer : Peer, request : Request]
        /\ answers' \in [Request -> {"none", "yes", "no"}]
    BY <2>3 DEF TypeOK
  <2> QED
    BY <2>3, <2>4, <2>5 DEF TypeOK, engine, world, closed
<1>2. ASSUME NEW updated \in Settings, NEW saved \in BOOLEAN, ClosePreferences(updated, saved)
      PROVE  TypeOK'
  <2> DEFINE command == [type |-> "Connect", settings |-> updated]
  <2>1. command \in Command
    BY CommandTypes
  <2>2. /\ disk' \in {updated, disk} /\ complained' = ~saved /\ uiSettings' = updated
        /\ commands' = Append(commands, command)
        /\ UNCHANGED <<rows, banner, dialogs, events, engine, world, requests>>
    BY <1>2 DEF ClosePreferences
  <2> HIDE DEF command
  <2>3. commands' \in Seq(Command)
    BY <2>1, <2>2, Appended DEF TypeOK
  <2>4. budget' \in Budget
    BY <1>2, SpendType DEF ClosePreferences
  <2> QED
    BY <2>2, <2>3, <2>4 DEF TypeOK, engine, world, closed, requests
<1> QED
  BY <1>1, <1>2 DEF User

LEMMA HandleConnectTypes ==
  ASSUME TypeOK, HandleConnect
  PROVE  TypeOK'
<1> DEFINE new == Head(commands).settings
<1>1. commands # <<>> /\ Head(commands).type = "Connect" /\ commands' = Tail(commands)
  BY DEF HandleConnect, Takes, Taken
<1>2. Head(commands) \in Command /\ commands' \in Seq(Command)
  BY <1>1, HeadAndTail DEF TypeOK
<1>3. new \in Settings
  BY <1>1, <1>2, CommandFields
<1>4. /\ CloseSessions(Known)
      /\ peers' = NoPeers
      /\ settings' = new
      /\ signaling' = (new.server \in Address)
      /\ receiver' = IF new.server \in Address THEN NewConnection ELSE receiver
      /\ events' = Append(events, PeersEvent(NoPeers)) \o Refusal(new.server)
      /\ UNCHANGED <<window, present, reports, crossed, requests, budget>>
  BY DEF HandleConnect
<1> HIDE DEF new
<1>5. Append(events, PeersEvent(NoPeers)) \in Seq(Event)
  BY EventTypes, NoPeersType, Appended DEF TypeOK
<1>6. Refusal(new.server) \in Seq(Event)
  BY RefusalType
<1>7. events' \in Seq(Event)
  BY <1>4, <1>5, <1>6
<1>8. receiver' \in Connection \union {None} /\ peers' \in [Peer -> PeerState \union {None}]
  BY <1>4, NewConnectionType, NoPeersType DEF TypeOK, List
<1>9. /\ channel' \in [Peer -> {"none", "new", "open", "lost"}]
      /\ leaving' \in [Peer -> Nat]
  BY <1>4, CloseSessionsType
<1>10. settings' \in Settings /\ signaling' \in BOOLEAN
  BY <1>3, <1>4
<1> QED
  BY <1>2, <1>4, <1>7, <1>8, <1>9, <1>10 DEF TypeOK, window, requests

\* What an answer does, in the words of whole records.
LEMMA RespondedTo ==
  ASSUME TypeOK, HandleRespondToRequest
  PROVE  LET p == Head(commands).peer
             accept == Head(commands).accept
         IN  /\ commands # <<>> /\ commands' = Tail(commands) /\ commands' \in Seq(Command)
             /\ Head(commands) \in Command /\ Head(commands).type = "RespondToRequest"
             /\ p \in Peer /\ accept \in BOOLEAN
             /\ \/ UNCHANGED <<peers, events>> /\ (peers[p] = None \/ peers[p].pending = 0)
                \/ /\ peers[p] \in PeerState /\ peers[p] # None
                   /\ \E sent \in BOOLEAN :
                        /\ Responded(p, accept, sent) \in PeerState
                        /\ peers' = [peers EXCEPT ![p] = Responded(p, accept, sent)]
                        /\ events' = IF sent /\ accept
                                     THEN Append(events, PeersEvent(ViewsOf(peers'))) ELSE events
<1> DEFINE p == Head(commands).peer
           accept == Head(commands).accept
<1>1. commands # <<>> /\ Head(commands).type = "RespondToRequest" /\ commands' = Tail(commands)
  BY DEF HandleRespondToRequest, Takes, Taken
<1>2. Head(commands) \in Command /\ commands' \in Seq(Command)
  BY <1>1, HeadAndTail DEF TypeOK
<1>3. p \in Peer /\ accept \in BOOLEAN
  BY <1>1, <1>2, CommandFields
<1>4. \/ UNCHANGED <<peers, events>> /\ ~(p \in Known /\ peers[p].pending # 0)
      \/ /\ p \in Known /\ peers[p].pending # 0
         /\ \E sent \in BOOLEAN :
              /\ peers' = [peers EXCEPT ![p].pending = 0,
                   ![p].receiving = IF sent /\ accept THEN peers[p].pending ELSE 0,
                   ![p].view.busy = peers[p].view.busy \/ (sent /\ accept)]
              /\ events' = IF sent /\ accept
                           THEN Append(events, PeersEvent(ViewsOf(peers'))) ELSE events
  BY DEF HandleRespondToRequest
<1> HIDE DEF p, accept
<1>5. CASE UNCHANGED <<peers, events>> /\ ~(p \in Known /\ peers[p].pending # 0)
  BY <1>1, <1>2, <1>3, <1>5 DEF Known, p, accept
<1>6. ASSUME p \in Known, NEW sent \in BOOLEAN,
             peers' = [peers EXCEPT ![p].pending = 0,
               ![p].receiving = IF sent /\ accept THEN peers[p].pending ELSE 0,
               ![p].view.busy = peers[p].view.busy \/ (sent /\ accept)]
      PROVE  /\ peers[p] \in PeerState /\ peers[p] # None
             /\ Responded(p, accept, sent) \in PeerState
             /\ peers' = [peers EXCEPT ![p] = Responded(p, accept, sent)]
  <2>1. peers[p] \in PeerState /\ peers[p] # None
    BY <1>3, <1>6 DEF TypeOK, Known
  <2>2. peers[p].view \in View /\ peers[p].pending \in Request \union {0}
    BY <2>1 DEF PeerState
  <2> DEFINE busy == peers[p].view.busy \/ (sent /\ accept)
             view == [peers[p].view EXCEPT !.busy = busy]
             receiving == IF sent /\ accept THEN peers[p].pending ELSE 0
             state == [peers[p] EXCEPT !.pending = 0, !.receiving = receiving, !.view = view]
  <2>3. view \in View /\ receiving \in Request \union {0}
    BY <1>3, <2>2 DEF View
  <2>4. peers' = [peers EXCEPT ![p].pending = 0, ![p].receiving = receiving, ![p].view.busy = busy]
    BY <1>6
  <2>5. Responded(p, accept, sent) = state
    BY DEF Responded
  <2> HIDE DEF busy, receiving
  <2>7. peers' = [peers EXCEPT ![p] = state]
    BY <1>3, <2>1, <2>4 DEF TypeOK, PeerState, View
  <2> HIDE DEF view
  <2>6. Responded(p, accept, sent) \in PeerState
    BY <2>1, <2>3, <2>5 DEF PeerState
  <2> QED
    BY <2>1, <2>5, <2>6, <2>7
<1> QED
  BY <1>1, <1>2, <1>3, <1>4, <1>5, <1>6, Zenon DEF p, accept

LEMMA HandleRespondTypes ==
  ASSUME TypeOK, HandleRespondToRequest
  PROVE  TypeOK'
<1> DEFINE p == Head(commands).peer
           accept == Head(commands).accept
<1>1. /\ commands' \in Seq(Command) /\ p \in Peer /\ accept \in BOOLEAN
      /\ \/ UNCHANGED <<peers, events>>
         \/ \E sent \in BOOLEAN :
              /\ Responded(p, accept, sent) \in PeerState
              /\ peers' = [peers EXCEPT ![p] = Responded(p, accept, sent)]
              /\ events' = IF sent /\ accept
                           THEN Append(events, PeersEvent(ViewsOf(peers'))) ELSE events
  BY RespondedTo
<1> HIDE DEF p, accept
<1>2. UNCHANGED <<window, settings, signaling, receiver, world, requests, budget>>
  BY DEF HandleRespondToRequest
<1>3. peers \in List /\ events \in Seq(Event)
  BY DEF TypeOK, List
<1>4. peers' \in List /\ events' \in Seq(Event)
  <2>1. CASE UNCHANGED <<peers, events>>
    BY <1>3, <2>1
  <2>2. ASSUME NEW sent \in BOOLEAN,
               Responded(p, accept, sent) \in PeerState,
               peers' = [peers EXCEPT ![p] = Responded(p, accept, sent)],
               events' = IF sent /\ accept
                         THEN Append(events, PeersEvent(ViewsOf(peers'))) ELSE events
        PROVE  peers' \in List /\ events' \in Seq(Event)
    <3>1. peers' \in List
      BY <1>1, <1>3, <2>2, ListUpdated
    <3>2. PeersEvent(ViewsOf(peers')) \in Event
      BY <3>1, ViewsType, EventTypes
    <3>3. Append(events, PeersEvent(ViewsOf(peers'))) \in Seq(Event)
      BY <1>3, <3>2, Appended
    <3> QED
      BY <1>3, <2>2, <3>1, <3>3
  <2> QED
    BY <1>1, <2>1, <2>2
<1> QED
  BY <1>1, <1>2, <1>4 DEF TypeOK, List, window, world, closed, requests

LEMMA DialTypes ==
  ASSUME TypeOK, NEW some \in SUBSET Peer, Dial(some)
  PROVE  /\ channel' \in [Peer -> {"none", "new", "open", "lost"}]
         /\ crossed' \subseteq Peer
         /\ peers' \in List /\ PeersEvent(ViewsOf(peers')) \in Event
         /\ events' \in Seq(Event) /\ events' = Append(events, PeersEvent(ViewsOf(peers')))
<1>1. /\ channel' = [p \in Peer |-> IF p \in some \ Known THEN "new" ELSE channel[p]]
      /\ peers' = [p \in Peer |-> IF p \in some \ Known THEN NewPeer ELSE peers[p]]
      /\ events' = Append(events, PeersEvent(ViewsOf(peers')))
  BY DEF Dial
<1>2. channel' \in [Peer -> {"none", "new", "open", "lost"}] /\ crossed' \subseteq Peer
  BY <1>1 DEF TypeOK, Dial
<1>3. peers' \in List
  BY <1>1, NewPeerType DEF TypeOK, List
<1>4. PeersEvent(ViewsOf(peers')) \in Event
  BY <1>3, ViewsType, EventTypes
<1> QED
  BY <1>1, <1>2, <1>3, <1>4, Appended DEF TypeOK

LEMMA HandleStateTypes ==
  ASSUME TypeOK, HandleState
  PROVE  TypeOK'
<1>1. ASSUME NEW state \in {"Connecting", "Connected", "Failed", "Closed"}, HandleStateShown(state)
      PROVE  TypeOK'
  <2> DEFINE event == ConnectionState(IF state = "Closed" THEN "NotConfigured" ELSE state)
  <2>1. /\ Reads(state) /\ Read /\ events' = Append(events, event)
        /\ UNCHANGED <<window, commands, settings, peers, signaling, world, requests, budget>>
    BY <1>1 DEF HandleStateShown
  <2>2. event \in Event
    BY EventTypes DEF Shown
  <2> HIDE DEF event
  <2>3. events' \in Seq(Event)
    BY <2>1, <2>2, Appended DEF TypeOK
  <2>4. receiver' \in Connection
    BY <2>1, ReadsType
  <2> QED
    BY <2>1, <2>3, <2>4 DEF TypeOK, window, world, closed, requests
<1>2. CASE HandleWaitingToRetry
  <2> DEFINE event == ConnectionState("Retrying")
  <2>1. /\ Reads("WaitingToRetry") /\ Read /\ CloseSessions(Known) /\ peers' = NoPeers
        /\ events' = events \o <<PeersEvent(NoPeers), event>>
        /\ UNCHANGED <<window, commands, settings, signaling, present, reports, crossed, requests,
                    budget>>
    BY <1>2 DEF HandleWaitingToRetry
  <2>2. event \in Event /\ PeersEvent(NoPeers) \in Event
    BY EventTypes, NoPeersType DEF Shown
  <2> HIDE DEF event
  <2>3. events' \in Seq(Event)
    BY <2>1, <2>2, Appended, Concats DEF TypeOK
  <2>4. receiver' \in Connection
    BY <2>1, ReadsType
  <2>5. /\ channel' \in [Peer -> {"none", "new", "open", "lost"}]
        /\ leaving' \in [Peer -> Nat]
    BY <2>1, CloseSessionsType
  <2> QED
    BY <2>1, <2>3, <2>4, <2>5, NoPeersType DEF TypeOK, List, window, requests
<1> QED
  BY <1>1, <1>2, HandleStateCases

LEMMA HandleIdentityTypes ==
  ASSUME TypeOK, HandleIdentity
  PROVE  TypeOK'
<1> DEFINE rest == Tail(receiver.inbox)
           told == Append(rest, [type |-> "Peers", peers |-> present])
<1>1. Reads("Identity")
  BY DEF HandleIdentity
<1>2. receiver \in Connection /\ rest \in Seq(SignalingEvent)
  BY <1>1, ReadsType
<1>3. [type |-> "Peers", peers |-> present] \in SignalingEvent
  BY SignalingTypes DEF TypeOK
<1>4. told \in Seq(SignalingEvent)
  BY <1>2, <1>3, Appended
<1>5. /\ receiver' = IF signaling /\ receiver.link = "connected"
                     THEN [receiver EXCEPT !.joined = TRUE, !.inbox = told]
                     ELSE [receiver EXCEPT !.inbox = rest]
      /\ UNCHANGED <<window, commands, events, settings, peers, signaling, world, requests, budget>>
  BY DEF HandleIdentity
<1> HIDE DEF rest, told
<1>6. receiver' \in Connection
  BY <1>2, <1>4, <1>5 DEF Connection
<1> QED
  BY <1>5, <1>6 DEF TypeOK, window, world, closed, requests

LEMMA HandlePeersTypes ==
  ASSUME TypeOK, HandlePeers
  PROVE  TypeOK'
<1>1. \E some \in SUBSET Peer : Dial(some)
  <2>1. CASE Reads("Peers") /\ Dial(Frame.peers)
    BY <2>1, ReadsType, SignalingFields
  <2>2. CASE Reads("PeerJoined") /\ Dial({Frame.peer})
    <3>1. {Frame.peer} \in SUBSET Peer
      BY <2>2, ReadsType, SignalingFields
    <3> QED
      BY <2>2, <3>1
  <2> QED
    BY <2>1, <2>2 DEF HandlePeers
<1>2. /\ channel' \in [Peer -> {"none", "new", "open", "lost"}]
      /\ crossed' \subseteq Peer /\ peers' \in List /\ events' \in Seq(Event)
  BY <1>1, DialTypes
<1>3. receiver' \in Connection
  <2>1. Read /\ \E type : Reads(type)
    BY DEF HandlePeers
  <2> QED
    BY <2>1, ReadsType
<1>4. UNCHANGED <<window, commands, settings, signaling, present, reports, leaving, requests,
                 budget>>
  BY DEF HandlePeers
<1> QED
  BY <1>2, <1>3, <1>4 DEF TypeOK, List, window, requests

LEMMA HandlePeerLeftTypes ==
  ASSUME TypeOK, HandlePeerLeft
  PROVE  TypeOK'
<1>1. /\ Reads("PeerLeft") /\ Read /\ CloseSessions(Known \intersect {Frame.peer})
      /\ peers' = [peers EXCEPT ![Frame.peer] = None]
      /\ events' = Append(events, PeersEvent(ViewsOf(peers')))
      /\ UNCHANGED <<window, commands, settings, signaling, present, reports, crossed, requests,
                    budget>>
  BY DEF HandlePeerLeft
<1>2. receiver' \in Connection /\ Frame.peer \in Peer
  BY <1>1, ReadsType, SignalingFields
<1>3. peers' \in List
  BY <1>1, <1>2, ListUpdated DEF TypeOK, List
<1>4. PeersEvent(ViewsOf(peers')) \in Event
  BY <1>3, ViewsType, EventTypes
<1>5. events' \in Seq(Event)
  BY <1>1, <1>4, Appended DEF TypeOK
<1>6. /\ channel' \in [Peer -> {"none", "new", "open", "lost"}]
      /\ leaving' \in [Peer -> Nat]
  BY <1>1, CloseSessionsType
<1> QED
  BY <1>1, <1>2, <1>3, <1>5, <1>6 DEF TypeOK, List, window, requests

\* What a report does to the device it is of: the event that follows, if any, publishes
\* what becomes of it.
Publishes == events' = Append(events, PeersEvent(ViewsOf(peers')))

LEMMA RtcCases ==
  ASSUME TypeOK, HandleRtc
  PROVE  /\ UNCHANGED <<window, commands, settings, signaling, receiver, present, channel,
                        closed, requests, budget>>
         /\ \E p \in Peer :
              /\ reports[p] # <<>> /\ reports' = [reports EXCEPT ![p] = Tail(reports[p])]
              /\ Head(reports[p]) \in Report /\ Tail(reports[p]) \in Seq(Report)
              /\ \/ HandleOpen(p) \/ HandleNewRequest(p) \/ HandleReceived(p)
                 \/ HandleGone(p) \/ HandleIgnored(p)
<1>1. PICK p \in Peer :
        /\ \/ HandleOpen(p) \/ HandleNewRequest(p) \/ HandleReceived(p)
           \/ HandleGone(p) \/ HandleIgnored(p)
        /\ reports' = [reports EXCEPT ![p] = Tail(reports[p])]
  BY HandleRtcCases DEF HandleRtc
<1>2. reports[p] # <<>>
  BY <1>1 DEF HandleOpen, HandleNewRequest, HandleReceived, HandleGone, HandleIgnored, Reported
<1>3. Head(reports[p]) \in Report /\ Tail(reports[p]) \in Seq(Report)
  BY <1>2, HeadAndTail DEF TypeOK
<1>4. UNCHANGED <<window, commands, settings, signaling, receiver, present, channel,
                  closed, requests, budget>>
  BY DEF HandleRtc
<1> QED
  BY <1>1, <1>2, <1>3, <1>4

LEMMA RtcPeer ==
  ASSUME TypeOK, NEW p \in Peer,
         HandleOpen(p) \/ HandleNewRequest(p) \/ HandleReceived(p) \/ HandleGone(p),
         Head(reports[p]) \in Report
  PROVE  /\ p \in Known /\ peers[p] \in PeerState
         /\ \E state \in PeerState :
              /\ peers' = [peers EXCEPT ![p] = state]
              /\ state.folder = peers[p].folder
              /\ state.receiving \in {0, peers[p].receiving}
              /\ \/ HandleNewRequest(p) /\ state.view = peers[p].view
                    /\ state.pending = Head(reports[p]).request
                    /\ state.receiving = peers[p].receiving
                    /\ Head(reports[p]).type = "Request"
                    /\ Head(reports[p]).request \in Request
                    /\ events' = Append(events, [type |-> "IncomingRequest", peer |-> p,
                                                 request |-> Head(reports[p]).request])
                 \/ ~HandleNewRequest(p) /\ state.pending \in {0, peers[p].pending} /\ Publishes
                    /\ Head(reports[p]).type # "Request"
<1>1. p \in Known /\ peers[p] \in PeerState /\ peers \in List
  BY DEF HandleOpen, HandleNewRequest, HandleReceived, HandleGone, Known, TypeOK, List
<1>2. /\ peers[p].view \in View /\ peers[p].pending \in Request \union {0}
      /\ peers[p].receiving \in Request \union {0} /\ events \in Seq(Event)
  BY <1>1 DEF PeerState, TypeOK
<1>3. \A more, state : Becomes(p, state, events) =>
        peers' = [peers EXCEPT ![p] = state] /\ (peers' \in List => Publishes)
  <2> SUFFICES ASSUME NEW state, Becomes(p, state, events)
               PROVE  peers' = [peers EXCEPT ![p] = state] /\ (peers' \in List => Publishes)
    OBVIOUS
  <2>1. peers' = [peers EXCEPT ![p] = state] /\ events' = events \o <<PeersEvent(ViewsOf(peers'))>>
    BY DEF Becomes
  <2>2. peers' \in List => PeersEvent(ViewsOf(peers')) \in Event
    BY ViewsType, EventTypes
  <2>3. peers' \in List =>
          events \o <<PeersEvent(ViewsOf(peers'))>> = Append(events, PeersEvent(ViewsOf(peers')))
    BY <1>2, <2>2, Concats
  <2> QED
    BY <2>1, <2>3 DEF Publishes
<1>4. CASE HandleOpen(p)
  <2> DEFINE view == [peers[p].view EXCEPT !.connected = TRUE]
             state == [peers[p] EXCEPT !.view = view]
  <2>1. Head(reports[p]).type = "Open" /\ Becomes(p, [peers[p] EXCEPT !.view.connected = TRUE], events)
    BY <1>4 DEF HandleOpen, Reported
  <2>2. view \in View
    BY <1>2 DEF View
  <2>3. [peers[p] EXCEPT !.view.connected = TRUE] = state
    BY <1>1, <1>2 DEF PeerState, View
  <2> HIDE DEF view
  <2>4. /\ state \in PeerState /\ state.folder = peers[p].folder
        /\ state.receiving = peers[p].receiving /\ state.pending = peers[p].pending
    BY <1>1, <2>2 DEF PeerState
  <2> HIDE DEF state
  <2>5. peers' = [peers EXCEPT ![p] = state] /\ (peers' \in List => Publishes)
    BY <1>3, <2>1, <2>3
  <2>6. peers' \in List
    BY <1>1, <2>4, <2>5, ListUpdated
  <2>7. ~HandleNewRequest(p)
    BY <2>1 DEF HandleNewRequest, Reported
  <2> QED
    BY <1>1, <2>1, <2>4, <2>5, <2>6, <2>7
<1>5. CASE HandleNewRequest(p)
  <2> DEFINE q == Head(reports[p]).request
             state == [peers[p] EXCEPT !.pending = q]
  <2>1. Head(reports[p]).type = "Request"
    BY <1>5 DEF HandleNewRequest, Reported
  <2>2. q \in Request
    BY <2>1, ReportFields
  <2>3. /\ peers' = [peers EXCEPT ![p].pending = q]
        /\ events' = Append(events, [type |-> "IncomingRequest", peer |-> p, request |-> q])
    BY <1>5 DEF HandleNewRequest
  <2> HIDE DEF q
  <2>4. /\ state \in PeerState /\ state.folder = peers[p].folder /\ state.view = peers[p].view
        /\ state.receiving = peers[p].receiving /\ state.pending = q
    BY <1>1, <2>2 DEF PeerState
  <2>5. peers' = [peers EXCEPT ![p] = state]
    BY <1>1, <2>3 DEF List
  <2> HIDE DEF state
  <2> QED
    BY <1>1, <1>5, <2>1, <2>2, <2>3, <2>4, <2>5 DEF q
<1>6. CASE HandleReceived(p)
  <2> DEFINE view == [peers[p].view EXCEPT !.busy = FALSE]
             state == [peers[p] EXCEPT !.receiving = 0, !.view = view]
  <2>1. /\ Head(reports[p]).type = "Received"
        /\ Becomes(p, [peers[p] EXCEPT !.receiving = 0, !.view.busy = FALSE], events)
    BY <1>6 DEF HandleReceived, Reported
  <2>2. view \in View
    BY <1>2 DEF View
  <2>3. [peers[p] EXCEPT !.receiving = 0, !.view.busy = FALSE] = state
    BY <1>1, <1>2 DEF PeerState, View
  <2> HIDE DEF view
  <2>4. /\ state \in PeerState /\ state.folder = peers[p].folder
        /\ state.receiving = 0 /\ state.pending = peers[p].pending
    BY <1>1, <2>2 DEF PeerState
  <2> HIDE DEF state
  <2>5. peers' = [peers EXCEPT ![p] = state] /\ (peers' \in List => Publishes)
    BY <1>3, <2>1, <2>3
  <2>6. peers' \in List
    BY <1>1, <2>4, <2>5, ListUpdated
  <2>7. ~HandleNewRequest(p)
    BY <2>1 DEF HandleNewRequest, Reported
  <2> QED
    BY <1>1, <2>1, <2>4, <2>5, <2>6, <2>7
<1>7. CASE HandleGone(p)
  <2> DEFINE view == [peers[p].view EXCEPT !.connected = FALSE]
             state == [peers[p] EXCEPT !.pending = 0, !.receiving = 0, !.view = view]
  <2>1. /\ Head(reports[p]).type = "Closed"
        /\ Becomes(p, [peers[p] EXCEPT !.pending = 0, !.receiving = 0, !.view.connected = FALSE],
                   events)
    BY <1>7 DEF HandleGone, Reported
  <2>2. view \in View
    BY <1>2 DEF View
  <2>3. [peers[p] EXCEPT !.pending = 0, !.receiving = 0, !.view.connected = FALSE] = state
    BY <1>1, <1>2 DEF PeerState, View
  <2> HIDE DEF view
  <2>4. /\ state \in PeerState /\ state.folder = peers[p].folder
        /\ state.receiving = 0 /\ state.pending = 0
    BY <1>1, <2>2 DEF PeerState
  <2> HIDE DEF state
  <2>5. peers' = [peers EXCEPT ![p] = state] /\ (peers' \in List => Publishes)
    BY <1>3, <2>1, <2>3
  <2>6. peers' \in List
    BY <1>1, <2>4, <2>5, ListUpdated
  <2>7. ~HandleNewRequest(p)
    BY <2>1 DEF HandleNewRequest, Reported
  <2> QED
    BY <1>1, <2>1, <2>4, <2>5, <2>6, <2>7
<1> QED
  BY <1>4, <1>5, <1>6, <1>7

LEMMA RtcTypes ==
  ASSUME TypeOK, HandleRtc
  PROVE  TypeOK'
<1>1. PICK p \in Peer :
        /\ reports[p] # <<>> /\ reports' = [reports EXCEPT ![p] = Tail(reports[p])]
        /\ Head(reports[p]) \in Report /\ Tail(reports[p]) \in Seq(Report)
        /\ \/ HandleOpen(p) \/ HandleNewRequest(p) \/ HandleReceived(p)
           \/ HandleGone(p) \/ HandleIgnored(p)
  BY RtcCases
<1>2. UNCHANGED <<window, commands, settings, signaling, receiver, present, channel,
                  closed, requests, budget>>
  BY RtcCases
<1>3. reports' \in [Peer -> Seq(Report)]
  BY <1>1 DEF TypeOK
<1>4. peers \in List /\ events \in Seq(Event)
  BY DEF TypeOK, List
<1>5. peers' \in List /\ events' \in Seq(Event)
  <2>1. CASE HandleIgnored(p)
    <3>1. PeersEvent(ViewsOf(peers)) \in Event
      BY <1>4, ViewsType, EventTypes
    <3>2. Append(events, PeersEvent(ViewsOf(peers))) \in Seq(Event)
      BY <1>4, <3>1, Appended
    <3>3. UNCHANGED peers /\ events' \in {events, Append(events, PeersEvent(ViewsOf(peers)))}
      BY <2>1 DEF HandleIgnored
    <3> QED
      BY <1>4, <3>2, <3>3
  <2>2. CASE HandleOpen(p) \/ HandleNewRequest(p) \/ HandleReceived(p) \/ HandleGone(p)
    <3>1. /\ \E state \in PeerState : peers' = [peers EXCEPT ![p] = state]
          /\ \/ Publishes
             \/ /\ Head(reports[p]).request \in Request
                /\ events' = Append(events, [type |-> "IncomingRequest", peer |-> p,
                                             request |-> Head(reports[p]).request])
      BY <1>1, <2>2, RtcPeer
    <3>2. peers' \in List
      <4>1. PICK state \in PeerState : peers' = [peers EXCEPT ![p] = state]
        BY <3>1
      <4>2. state \in PeerState \union {None}
        OBVIOUS
      <4> QED
        BY <1>4, <4>1, <4>2, ListUpdated
    <3>3. PeersEvent(ViewsOf(peers')) \in Event
      BY <3>2, ViewsType, EventTypes
    <3>4. events \in Seq(Event)
      BY <1>4
    <3>5. ASSUME Publishes
          PROVE  events' \in Seq(Event)
      <4>1. events' = Append(events, PeersEvent(ViewsOf(peers')))
        BY <3>5 DEF Publishes
      <4>2. Append(events, PeersEvent(ViewsOf(peers'))) \in Seq(Event)
        BY <3>3, <3>4, Appended
      <4> QED
        BY <4>1, <4>2
    <3>6. ASSUME Head(reports[p]).request \in Request,
                 events' = Append(events, [type |-> "IncomingRequest", peer |-> p,
                                           request |-> Head(reports[p]).request])
          PROVE  events' \in Seq(Event)
      <4>1. PICK q \in Request : q = Head(reports[p]).request
        BY <3>6
      <4> DEFINE invitation == [type |-> "IncomingRequest", peer |-> p, request |-> q]
      <4>2. invitation \in Event
        BY <1>1, EventTypes
      <4>3. events' = Append(events, invitation)
        BY <3>6, <4>1
      <4> HIDE DEF invitation
      <4>4. Append(events, invitation) \in Seq(Event)
        BY <3>4, <4>2, Appended
      <4> QED
        BY <4>3, <4>4
    <3>7. events' \in Seq(Event)
      BY <3>1, <3>5, <3>6
    <3> QED
      BY <3>2, <3>7
  <2> QED
    BY <1>1, <2>1, <2>2
<1> QED
  BY <1>2, <1>3, <1>5 DEF TypeOK, List, window, closed, requests

LEMMA TaskTypes ==
  ASSUME TypeOK, TaskConnects \/ TaskDrops \/ TaskFails \/ TaskRetries \/ TaskEnds
  PROVE  TypeOK' /\ receiver' \in Connection
<1>1. receiver # None /\ receiver \in Connection
  BY DEF TaskConnects, TaskDrops, TaskFails, TaskRetries, TaskEnds, TypeOK
<1>2. receiver.inbox \in Seq(SignalingEvent)
  BY <1>1 DEF Connection
<1>3. ASSUME NEW type \in {"Connecting", "Connected", "WaitingToRetry", "Failed", "Closed", "Identity"}
      PROVE  [type |-> type] \in SignalingEvent /\ Tells([type |-> type]) \in Seq(SignalingEvent)
  BY <1>1, SignalingTypes, TellsType
<1>4. receiver' \in Connection
  <2>1. CASE TaskConnects
    <3> DEFINE connected == [type |-> "Connected"]
               identity == [type |-> "Identity"]
               longer == receiver.inbox \o <<connected, identity>>
    <3>1. connected \in SignalingEvent /\ identity \in SignalingEvent
      BY SignalingTypes
    <3>2. receiver' = [link |-> "connected", joined |-> FALSE, inbox |-> longer]
      BY <2>1 DEF TaskConnects
    <3> HIDE DEF connected, identity
    <3>3. longer \in Seq(SignalingEvent)
      BY <1>2, <3>1, Concats, Appended
    <3> HIDE DEF longer
    <3> QED
      BY <3>2, <3>3 DEF Connection
  <2>2. CASE TaskDrops
    BY <1>3, <2>2 DEF TaskDrops, Connection
  <2>3. CASE TaskRetries
    BY <1>1, <1>3, <2>3 DEF TaskRetries, Connection
  <2>4. CASE TaskEnds
    BY <1>3, <2>4 DEF TaskEnds, Connection
  <2>5. CASE TaskFails
    BY <1>1, <1>3, <2>5 DEF TaskFails, Connection
  <2> QED
    BY <2>1, <2>2, <2>3, <2>4, <2>5
<1>5. channel' \in [Peer -> {"none", "new", "open", "lost"}]
  BY DEF TaskConnects, TaskDrops, TaskFails, TaskRetries, TaskEnds, TypeOK, Lost, world, closed
<1>6. budget' \in Budget
  <2>1. UNCHANGED budget \/ Spend("drops")
    BY DEF TaskConnects, TaskDrops, TaskFails, TaskRetries, TaskEnds
  <2> QED
    BY <2>1, SpendType DEF TypeOK
<1>7. UNCHANGED <<window, commands, events, settings, peers, signaling, present, reports, closed,
                requests>>
  BY DEF TaskConnects, TaskDrops, TaskFails, TaskRetries, TaskEnds, world
<1> QED
  BY <1>4, <1>5, <1>6, <1>7 DEF TypeOK, window, closed, requests

LEMMA MoveTypes ==
  ASSUME TypeOK, NEW p \in Peer, Come(p) \/ Go(p)
  PROVE  TypeOK'
<1>1. receiver' \in Connection \union {None}
  <2>1. CASE ~Joined
    BY <2>1 DEF Come, Go, TypeOK
  <2>2. CASE Joined
    <3>1. receiver \in Connection /\ receiver # None
      BY <2>2 DEF Joined, TypeOK
    <3>2. /\ Tells([type |-> "PeerJoined", peer |-> p]) \in Seq(SignalingEvent)
          /\ Tells([type |-> "PeerLeft", peer |-> p]) \in Seq(SignalingEvent)
      BY <3>1, SignalingTypes, TellsType
    <3>3. \/ receiver' = [receiver EXCEPT !.inbox = Tells([type |-> "PeerJoined", peer |-> p])]
          \/ receiver' = [receiver EXCEPT !.inbox = Tells([type |-> "PeerLeft", peer |-> p])]
      BY <2>2 DEF Come, Go
    <3> QED
      BY <3>1, <3>2, <3>3 DEF Connection
  <2> QED
    BY <2>1, <2>2
<1>2. /\ present' \subseteq Peer
      /\ channel' \in [Peer -> {"none", "new", "open", "lost"}]
  BY DEF Come, Go, TypeOK
<1>3. budget' \in Budget
  BY SpendType DEF Come, Go
<1>4. UNCHANGED <<window, commands, events, settings, peers, signaling, reports, closed, requests>>
  BY DEF Come, Go
<1> QED
  BY <1>1, <1>2, <1>3, <1>4 DEF TypeOK, window, closed, requests

\* The request that is made next.
Upcoming == 1 + MaxRequests - budget.requests

LEMMA ChannelTypes ==
  ASSUME TypeOK, NEW p \in Peer, ChannelOpens(p) \/ ChannelEnds(p) \/ ClosesLate(p) \/ Asks(p) \/ SendsAll(p)
  PROVE  /\ TypeOK'
         /\ Asks(p) => Upcoming \in Request
<1>1. ASSUME Asks(p)
      PROVE  /\ Upcoming \in Request
             /\ budget' \in Budget
  <2>1. Spend("requests")
    BY <1>1 DEF Asks
  <2>2. budget.requests \in 0..MaxRequests /\ budget.requests > 0
    BY <2>1, SpendType DEF TypeOK, Budget
  <2> QED
    BY <2>1, <2>2, SpendType, BoundAssumption DEF Upcoming, Request
<1>2. PICK state \in {"none", "new", "open", "lost"}, report \in Report : Happens(p, state, report)
  <2>0. channel[p] \in {"none", "new", "open", "lost"}
    BY DEF TypeOK
  <2>1. CASE Asks(p)
    <3>1. Happens(p, channel[p], [type |-> "Request", request |-> Upcoming])
      BY <2>1 DEF Asks, Upcoming
    <3>2. [type |-> "Request", request |-> Upcoming] \in Report
      BY <1>1, <2>1, ReportTypes
    <3> QED
      BY <2>0, <3>1, <3>2
  <2>2. CASE ~Asks(p)
    <3>1. \/ Happens(p, "open", [type |-> "Open"])
          \/ Happens(p, "none", [type |-> "Closed"])
          \/ Happens(p, channel[p], [type |-> "Closed"])
          \/ Happens(p, "open", [type |-> "Received"])
      BY <2>2 DEF ChannelOpens, ChannelEnds, ClosesLate, SendsAll
    <3> QED
      BY <2>0, <3>1, ReportTypes
  <2> QED
    BY <2>1, <2>2
<1>3. /\ channel' = [channel EXCEPT ![p] = state]
      /\ reports' = [reports EXCEPT ![p] = Append(reports[p], report)]
      /\ UNCHANGED <<window, commands, events, engine, present>>
  BY <1>2 DEF Happens
<1>4. Append(reports[p], report) \in Seq(Report)
  BY Appended DEF TypeOK
<1>5. /\ channel' \in [Peer -> {"none", "new", "open", "lost"}]
      /\ reports' \in [Peer -> Seq(Report)]
  BY <1>3, <1>4 DEF TypeOK
<1>6. /\ answers' = answers /\ overlapped' \subseteq Request
      /\ budget' \in Budget
  <2>1. CASE Asks(p)
    <3>1. overlapped' \in {overlapped, overlapped \union {Upcoming}} /\ answers' = answers
      BY <2>1 DEF Asks, Upcoming
    <3> QED
      BY <1>1, <2>1, <3>1 DEF TypeOK
  <2>2. CASE ~Asks(p)
    BY <2>2 DEF ChannelOpens, ChannelEnds, ClosesLate, SendsAll, requests, TypeOK
  <2> QED
    BY <2>1, <2>2
<1>7. leaving' \in [Peer -> Nat] /\ crossed' \subseteq Peer
  <2>1. CASE ClosesLate(p)
    <3>1. leaving[p] > 0 /\ leaving' = [leaving EXCEPT ![p] = leaving[p] - 1]
          /\ crossed' \in {crossed, crossed \union {p}}
      BY <2>1 DEF ClosesLate
    <3> QED
      BY <3>1 DEF TypeOK
  <2>2. CASE UNCHANGED closed
    BY <2>2 DEF closed, TypeOK
  <2> QED
    BY <2>1, <2>2 DEF ChannelOpens, ChannelEnds, Asks, SendsAll
<1> QED
  BY <1>1, <1>3, <1>5, <1>6, <1>7 DEF TypeOK, window, engine

LEMMA StepTypes ==
  ASSUME TypeOK, [Next]_vars
  PROVE  TypeOK'
<1>1. CASE UNCHANGED vars
  BY <1>1 DEF vars, TypeOK, window, engine, world, closed, requests
<1>2. CASE Next
  BY <1>2, UiTypes, UserTypes, HandleConnectTypes, HandleRespondTypes, HandleStateTypes,
     HandleIdentityTypes, HandlePeersTypes, HandlePeerLeftTypes, RtcTypes, TaskTypes, MoveTypes,
     ChannelTypes DEF Next, EngineThread, HandleSignaling, Task, Channels, Environment
<1> QED
  BY <1>1, <1>2

LEMMA InitTypes == Init => TypeOK
<1> SUFFICES ASSUME Init
             PROVE  TypeOK
  OBVIOUS
<1>1. rows \in [Peer -> View \union {None}] /\ peers \in [Peer -> PeerState \union {None}]
  BY NoPeersType DEF Init, List
<1>2. events \in Seq(Event)
  BY RefusalType DEF Init
<1>3. receiver \in Connection \union {None}
  BY NewConnectionType DEF Init
<1>4. commands \in Seq(Command) /\ reports \in [Peer -> Seq(Report)]
  <2>1. <<>> \in Seq(Command) /\ <<>> \in Seq(Report)
    OBVIOUS
  <2> QED
    BY <2>1 DEF Init
<1>5. budget \in Budget
  BY BoundAssumption DEF Init, Budget
<1>6. settings \in Settings /\ uiSettings \in Settings /\ disk \in Settings
  BY DEF Init
<1>7. banner \in Shown /\ complained \in BOOLEAN /\ signaling \in BOOLEAN
  <2>1. banner = "Connected" /\ complained = FALSE
    BY DEF Init
  <2>2. signaling = (settings.server \in Address)
    BY DEF Init
  <2>3. signaling \in BOOLEAN
    BY <2>2
  <2> QED
    BY <2>1, <2>3 DEF Shown
<1>8. dialogs = {} /\ overlapped = {} /\ present \subseteq Peer
  BY DEF Init
<1>9. /\ channel \in [Peer -> {"none", "new", "open", "lost"}]
      /\ leaving \in [Peer -> Nat] /\ crossed \subseteq Peer
      /\ answers \in [Request -> {"none", "yes", "no"}]
  BY DEF Init
<1> QED
  BY <1>1, <1>2, <1>3, <1>4, <1>5, <1>6, <1>7, <1>8, <1>9 DEF TypeOK

-----------------------------------------------------------------------------
(* The rows: the last snapshot on its way to the window, or else the rows  *)
(* themselves, show the peers of the engine.                               *)

Snapshots == {event \in Event : event.type = "Peers"}

RowsKnown ==
  \/ Silent(events, Snapshots) /\ rows = ViewsOf(peers)
  \/ EndsWith(events, Snapshots, {PeersEvent(ViewsOf(peers))})

LEMMA NoSnapshot ==
  /\ \A state : ConnectionState(state) \notin Snapshots
  /\ \A p, q : [type |-> "IncomingRequest", peer |-> p, request |-> q] \notin Snapshots
BY DEF Snapshots, ConnectionState

LEMMA RowsKept ==
  ASSUME TypeOK, RowsKnown, ViewsOf(peers') = ViewsOf(peers), rows' = rows,
         events' = events \/ \E x \in Event \ Snapshots : events' = Append(events, x)
  PROVE  RowsKnown'
<1> DEFINE now == PeersEvent(ViewsOf(peers))
<1>1. RowsKnown' = (\/ Silent(events', Snapshots) /\ rows = ViewsOf(peers)
                    \/ EndsWith(events', Snapshots, {now}))
  BY DEF RowsKnown, Silent, EndsWith
<1>2. CASE events' = events
  BY <1>1, <1>2 DEF RowsKnown
<1>3. ASSUME NEW x \in Event, x \notin Snapshots, events' = Append(events, x)
      PROVE  RowsKnown'
  <2>1. events \in Seq(Event)
    BY DEF TypeOK
  <2> HIDE DEF now
  <2>2. /\ Silent(events, Snapshots) => Silent(events', Snapshots)
        /\ EndsWith(events, Snapshots, {now}) => EndsWith(events', Snapshots, {now})
    BY <1>3, <2>1, QueueAppend
  <2> QED
    BY <1>1, <2>2 DEF RowsKnown, now
<1> QED
  BY <1>2, <1>3

LEMMA RowsPublished ==
  ASSUME TypeOK, peers' \in List, events' = Append(events, PeersEvent(ViewsOf(peers')))
  PROVE  RowsKnown'
<1> DEFINE now == PeersEvent(ViewsOf(peers'))
<1>1. now \in Event /\ events \in Seq(Event)
  BY ViewsType, EventTypes DEF TypeOK
<1>2. EndsWith(events', Snapshots, {now})
  BY <1>1, QueueAppend
<1>3. EndsWith(events', Snapshots, {now}) => RowsKnown'
  BY DEF RowsKnown, EndsWith, Snapshots, Event
<1> QED
  BY <1>2, <1>3

LEMMA RowsUi ==
  ASSUME TypeOK, RowsKnown, Ui
  PROVE  RowsKnown'
<1> DEFINE event == Head(events)
           now == PeersEvent(ViewsOf(peers))
<1>1. events # <<>> /\ events' = Tail(events) /\ events \in Seq(Event) /\ UNCHANGED peers
  BY DEF Ui, ShowConnection, UpdatePeers, AskAboutRequest, Applies, Applied, TypeOK, engine
<1>2. event \in Event /\ event = events[1] /\ 1 \in DOMAIN events
  BY <1>1, HeadAndTail
<1>3. RowsKnown' = (\/ Silent(events', Snapshots) /\ rows' = ViewsOf(peers)
                    \/ EndsWith(events', Snapshots, {now}))
  BY <1>1 DEF RowsKnown, Silent, EndsWith
<1>4. /\ Silent(events, Snapshots) => Silent(events', Snapshots) /\ event \notin Snapshots
      /\ EndsWith(events, Snapshots, {now}) =>
           EndsWith(events', Snapshots, {now}) \/ (event = now /\ Silent(events', Snapshots))
  <2>1. Silent(events, Snapshots) => event \notin Snapshots
    BY <1>2 DEF Silent
  <2> HIDE DEF now
  <2> QED
    BY <1>1, <2>1, QueueTail
<1>5. CASE ShowConnection \/ AskAboutRequest
  <2>1. rows' = rows /\ event.type # "Peers"
    BY <1>5 DEF ShowConnection, AskAboutRequest, Applies
  <2>2. event # now
    BY <2>1 DEF PeersEvent
  <2> QED
    BY <1>3, <1>4, <2>1, <2>2 DEF RowsKnown
<1>6. CASE UpdatePeers
  <2>1. rows' = event.views /\ event.type = "Peers"
    BY <1>6 DEF UpdatePeers, Applies
  <2>2. event \in Snapshots
    BY <1>2, <2>1 DEF Snapshots
  <2>3. event = now => rows' = ViewsOf(peers)
    BY <2>1 DEF PeersEvent
  <2> QED
    BY <1>3, <1>4, <2>2, <2>3 DEF RowsKnown
<1> QED
  BY <1>5, <1>6 DEF Ui

LEMMA RowsEngine ==
  ASSUME TypeOK, RowsKnown, EngineThread
  PROVE  RowsKnown'
<1>0. TypeOK' /\ peers \in List /\ peers' \in List
  BY StepTypes DEF Next, TypeOK, List
<1>1. CASE HandleConnect
  <2> DEFINE new == Head(commands).settings
             first == Append(events, PeersEvent(NoPeers))
  <2>1. peers' = NoPeers /\ events' = first \o Refusal(new.server)
    BY <1>1 DEF HandleConnect
  <2>2. first \in Seq(Event) /\ PeersEvent(NoPeers) \in Event
    BY EventTypes, NoPeersType, Appended DEF TypeOK
  <2>3. EndsWith(first, Snapshots, {PeersEvent(NoPeers)})
    BY <2>2, QueueAppend DEF TypeOK
  <2> HIDE DEF first, new
  <2>4. PICK refusal : refusal = Refusal(new.server)
    OBVIOUS
  <2>5. \/ refusal = <<>>
        \/ \E x \in Event \ Snapshots : refusal = <<x>>
    <3>1. /\ ConnectionState("NotConfigured") \in Event \ Snapshots
          /\ ConnectionState("Failed") \in Event \ Snapshots
      BY EventTypes, NoSnapshot DEF Shown
    <3> QED
      BY <2>4, <3>1, RefusalType
  <2>6. EndsWith(first \o refusal, Snapshots, {PeersEvent(NoPeers)})
    <3>1. CASE refusal = <<>>
      <4>1. first \o refusal = first
        BY <2>2, <3>1
      <4> QED
        BY <2>3, <4>1
    <3>2. ASSUME NEW x \in Event, x \notin Snapshots, refusal = <<x>>
          PROVE  EndsWith(first \o refusal, Snapshots, {PeersEvent(NoPeers)})
      <4>1. first \o refusal = Append(first, x)
        BY <2>2, <3>2, Concats
      <4>2. EndsWith(Append(first, x), Snapshots, {PeersEvent(NoPeers)})
        BY <2>2, <2>3, <3>2, QueueAppend
      <4> QED
        BY <4>1, <4>2
    <3> QED
      BY <2>5, <3>1, <3>2
  <2>8. EndsWith(events', Snapshots, {PeersEvent(ViewsOf(NoPeers))})
    BY <2>1, <2>4, <2>6, NoPeersType
  <2> QED
    BY <2>1, <2>8 DEF RowsKnown, EndsWith, Snapshots, Event
<1>2. CASE HandleRespondToRequest
  <2> DEFINE p == Head(commands).peer
             accept == Head(commands).accept
  <2>1. /\ p \in Peer /\ accept \in BOOLEAN
        /\ \/ UNCHANGED <<peers, events>>
           \/ /\ peers[p] \in PeerState /\ peers[p] # None
              /\ \E sent \in BOOLEAN :
                   /\ Responded(p, accept, sent) \in PeerState
                   /\ peers' = [peers EXCEPT ![p] = Responded(p, accept, sent)]
                   /\ events' = IF sent /\ accept
                                THEN Append(events, PeersEvent(ViewsOf(peers'))) ELSE events
    BY <1>2, RespondedTo
  <2>2. rows' = rows
    BY <1>2 DEF HandleRespondToRequest, window
  <2> HIDE DEF p, accept
  <2>3. CASE UNCHANGED <<peers, events>>
    BY <2>2, <2>3, RowsKept
  <2>4. ASSUME NEW sent \in BOOLEAN, peers[p] \in PeerState, peers[p] # None,
               Responded(p, accept, sent) \in PeerState,
               peers' = [peers EXCEPT ![p] = Responded(p, accept, sent)],
               events' = IF sent /\ accept
                         THEN Append(events, PeersEvent(ViewsOf(peers'))) ELSE events
        PROVE  RowsKnown'
    <3>1. CASE sent /\ accept
      BY <1>0, <2>4, <3>1, RowsPublished
    <3>2. CASE ~(sent /\ accept)
      <4>1. Responded(p, accept, sent).view = peers[p].view
        BY <2>1, <2>4, <3>2, RespondedType
      <4>2. ViewsOf(peers') = ViewsOf(peers)
        BY <1>0, <2>1, <2>4, <4>1, SameViews
      <4> QED
        BY <2>2, <2>4, <3>2, <4>2, RowsKept
    <3> QED
      BY <3>1, <3>2
  <2> QED
    BY <2>1, <2>3, <2>4
<1>3. ASSUME NEW state \in {"Connecting", "Connected", "Failed", "Closed"}, HandleStateShown(state)
      PROVE  RowsKnown'
  <2>1. PICK shown \in Shown : events' = Append(events, ConnectionState(shown))
    BY <1>3 DEF HandleStateShown, Shown
  <2>2. ConnectionState(shown) \in Event \ Snapshots
    BY EventTypes, NoSnapshot
  <2>3. UNCHANGED <<peers, rows>>
    BY <1>3 DEF HandleStateShown, window
  <2> QED
    BY <2>1, <2>2, <2>3, RowsKept
<1>4. CASE HandleWaitingToRetry
  <2> DEFINE first == Append(events, PeersEvent(NoPeers))
             retrying == ConnectionState("Retrying")
  <2>1. peers' = NoPeers /\ events' = events \o <<PeersEvent(NoPeers), retrying>>
    BY <1>4 DEF HandleWaitingToRetry
  <2>2. PeersEvent(NoPeers) \in Event /\ retrying \in Event \ Snapshots
    BY EventTypes, NoPeersType, NoSnapshot DEF Shown
  <2>3. first \in Seq(Event) /\ EndsWith(first, Snapshots, {PeersEvent(NoPeers)})
    BY <2>2, Appended, QueueAppend DEF TypeOK
  <2> HIDE DEF retrying
  <2>4. events' = Append(first, retrying)
    BY <2>1, <2>2, Concats DEF TypeOK
  <2> HIDE DEF first
  <2>5. EndsWith(events', Snapshots, {PeersEvent(ViewsOf(NoPeers))})
    BY <2>2, <2>3, <2>4, NoPeersType, QueueAppend
  <2> QED
    BY <2>1, <2>5 DEF RowsKnown, EndsWith, Snapshots, Event
<1>5. CASE HandleIdentity
  <2>1. UNCHANGED <<peers, rows, events>>
    BY <1>5 DEF HandleIdentity, window
  <2> QED
    BY <2>1, RowsKept
<1>6. CASE HandlePeers \/ HandlePeerLeft
  <2>1. events' = Append(events, PeersEvent(ViewsOf(peers')))
    BY <1>6 DEF HandlePeers, HandlePeerLeft, Dial
  <2> QED
    BY <1>0, <2>1, RowsPublished
<1>7. CASE HandleRtc
  <2>1. PICK p \in Peer :
          /\ Head(reports[p]) \in Report
          /\ \/ HandleOpen(p) \/ HandleNewRequest(p) \/ HandleReceived(p)
             \/ HandleGone(p) \/ HandleIgnored(p)
    BY <1>7, RtcCases
  <2>2. rows' = rows
    BY <1>7, RtcCases DEF window
  <2>3. CASE HandleIgnored(p)
    <3>1. UNCHANGED peers /\ (Publishes \/ UNCHANGED events)
      BY <2>3 DEF HandleIgnored, Publishes
    <3> QED
      BY <1>0, <2>2, <3>1, RowsKept, RowsPublished DEF Publishes
  <2>4. CASE HandleOpen(p) \/ HandleNewRequest(p) \/ HandleReceived(p) \/ HandleGone(p)
    <3>1. PICK state \in PeerState :
            /\ p \in Known
            /\ peers' = [peers EXCEPT ![p] = state]
            /\ \/ /\ state.view = peers[p].view
                  /\ Head(reports[p]).request \in Request
                  /\ events' = Append(events, [type |-> "IncomingRequest", peer |-> p,
                                               request |-> Head(reports[p]).request])
               \/ Publishes
      BY <2>1, <2>4, RtcPeer
    <3>2. CASE Publishes
      BY <1>0, <3>2, RowsPublished DEF Publishes
    <3>3. CASE ~Publishes
      <4> DEFINE x == [type |-> "IncomingRequest", peer |-> p, request |-> Head(reports[p]).request]
      <4>1. ViewsOf(peers') = ViewsOf(peers)
        BY <1>0, <3>1, <3>3, SameViews DEF Known
      <4>2. x \in Event \ Snapshots /\ events' = Append(events, x)
        BY <3>1, <3>3, EventTypes, NoSnapshot
      <4> QED
        BY <2>2, <4>1, <4>2, RowsKept
    <3> QED
      BY <3>2, <3>3
  <2> QED
    BY <2>1, <2>3, <2>4
<1> QED
  BY <1>1, <1>2, <1>3, <1>4, <1>5, <1>6, <1>7, HandleStateCases DEF EngineThread, HandleSignaling

\* The steps that the rows and what is on the way to them do not depend on.
LEMMA OtherSteps ==
  ASSUME Next, ~Ui, ~EngineThread
  PROVE  UNCHANGED <<rows, banner, events, settings, peers, signaling>>
<1>1. CASE User
  BY <1>1 DEF User, Answer, ClosePreferences, engine
<1>2. CASE Task \/ TaskDrops
  BY <1>2 DEF Task, TaskConnects, TaskDrops, TaskFails, TaskRetries, TaskEnds, window
<1>3. ASSUME NEW p, Come(p) \/ Go(p)
      PROVE  UNCHANGED <<rows, banner, events, settings, peers, signaling>>
  BY <1>3 DEF Come, Go, window
<1>4. ASSUME NEW p, ChannelOpens(p) \/ ChannelEnds(p) \/ ClosesLate(p) \/ Asks(p) \/ SendsAll(p)
      PROVE  UNCHANGED <<rows, banner, events, settings, peers, signaling>>
  BY <1>4 DEF ChannelOpens, ChannelEnds, ClosesLate, Asks, SendsAll, Happens, window, engine
<1> QED
  BY <1>1, <1>2, <1>3, <1>4 DEF Next, Channels, Environment

LEMMA RowsStep ==
  ASSUME TypeOK, RowsKnown, [Next]_vars
  PROVE  RowsKnown'
<1>1. CASE UNCHANGED vars
  BY <1>1, RowsKept DEF vars, window, engine
<1>2. CASE Next /\ ~Ui /\ ~EngineThread
  BY <1>2, OtherSteps, RowsKept
<1> QED
  BY <1>1, <1>2, RowsUi, RowsEngine

LEMMA InitRows == Init => RowsKnown
<1> SUFFICES ASSUME Init
             PROVE  RowsKnown
  OBVIOUS
<1>1. rows = ViewsOf(peers)
  BY NoPeersType DEF Init
<1>2. \A i \in DOMAIN events : events[i] \notin Snapshots
  <2>1. \/ events = <<>>
        \/ events = <<ConnectionState("NotConfigured")>>
        \/ events = <<ConnectionState("Failed")>>
    BY RefusalType DEF Init
  <2> QED
    BY <2>1, NoSnapshot
<1> QED
  BY <1>1, <1>2 DEF RowsKnown, Silent

LEMMA RowsFollow == RowsKnown => RowsCatchUp
BY EmptyQueue DEF RowsKnown, RowsCatchUp

\* Types: every queue, record and table holds what it is declared to hold, so that in
\* particular the engine has at most one connection, and one request of a device waits.
THEOREM TypeCorrect == Spec => []TypeOK
<1>1. TypeOK /\ [Next]_vars => TypeOK'
  BY StepTypes
<1> QED
  BY InitTypes, <1>1, PTL DEF Spec

\* "Event::Peers: a whole snapshot": whatever changes the peers of the engine publishes
\* them, so the rows of the window are theirs whenever no event is on its way.
THEOREM RowsCaughtUp == Spec => []RowsCatchUp
<1>1. Init => TypeOK /\ RowsKnown
  BY InitTypes, InitRows
<1>2. TypeOK /\ RowsKnown /\ [Next]_vars => TypeOK' /\ RowsKnown'
  BY StepTypes, RowsStep
<1> QED
  BY <1>1, <1>2, RowsFollow, PTL DEF Spec

-----------------------------------------------------------------------------
(* The settings: the last Connect on its way to the engine, or else the    *)
(* settings the engine has, are those of the window.                       *)

Connects == {command \in Command : command.type = "Connect"}
ConnectTo(new) == [type |-> "Connect", settings |-> new]

SettingsKnown ==
  \/ Silent(commands, Connects) /\ settings = uiSettings
  \/ EndsWith(commands, Connects, {ConnectTo(uiSettings)})

FolderKnown == \A p \in Known : peers[p].folder = settings.folder

SavedOrComplained == disk = uiSettings \/ complained

LEMMA SettingsUser ==
  ASSUME TypeOK, SettingsKnown, FolderKnown, SavedOrComplained, User
  PROVE  SettingsKnown' /\ FolderKnown' /\ SavedOrComplained'
<1>1. ASSUME NEW dialog \in dialogs, NEW accept \in BOOLEAN, Answer(dialog, accept)
      PROVE  SettingsKnown' /\ FolderKnown' /\ SavedOrComplained'
  <2> DEFINE command == [type |-> "RespondToRequest", peer |-> dialog.peer,
                         accept |-> accept, request |-> dialog.request]
             last == ConnectTo(uiSettings)
  <2>1. commands' = Append(commands, command) /\ UNCHANGED <<uiSettings, disk, complained, engine>>
    BY <1>1 DEF Answer
  <2>2. command \in Command /\ command \notin Connects /\ commands \in Seq(Command)
    BY CommandTypes DEF Connects, TypeOK
  <2>3. SettingsKnown' = (\/ Silent(commands', Connects) /\ settings = uiSettings
                          \/ EndsWith(commands', Connects, {last}))
    BY <2>1 DEF SettingsKnown, engine, Silent, EndsWith, ConnectTo
  <2> HIDE DEF command, last
  <2>4. /\ Silent(commands, Connects) => Silent(commands', Connects)
        /\ EndsWith(commands, Connects, {last}) => EndsWith(commands', Connects, {last})
    BY <2>1, <2>2, QueueAppend
  <2>5. SettingsKnown'
    BY <2>3, <2>4 DEF SettingsKnown, last
  <2>6. FolderKnown' /\ SavedOrComplained'
    BY <2>1 DEF FolderKnown, SavedOrComplained, engine, Known
  <2> QED
    BY <2>5, <2>6
<1>2. ASSUME NEW updated \in Settings, NEW saved \in BOOLEAN, ClosePreferences(updated, saved)
      PROVE  SettingsKnown' /\ FolderKnown' /\ SavedOrComplained'
  <2>1. /\ disk' = IF saved THEN updated ELSE disk
        /\ complained' = ~saved /\ uiSettings' = updated
        /\ commands' = Append(commands, ConnectTo(updated)) /\ UNCHANGED engine
    BY <1>2 DEF ClosePreferences, ConnectTo
  <2>2. ConnectTo(updated) \in Command /\ commands \in Seq(Command)
    BY CommandTypes DEF TypeOK, ConnectTo
  <2>3. EndsWith(commands', Connects, {ConnectTo(updated)})
    BY <2>1, <2>2, QueueAppend
  <2>4. SettingsKnown'
    BY <2>1, <2>3 DEF SettingsKnown, EndsWith, Connects, Command, ConnectTo
  <2>5. FolderKnown' /\ SavedOrComplained'
    BY <2>1 DEF FolderKnown, SavedOrComplained, engine, Known
  <2> QED
    BY <2>4, <2>5
<1> QED
  BY <1>1, <1>2 DEF User

LEMMA SettingsTaken ==
  ASSUME TypeOK, SettingsKnown, HandleConnect \/ HandleRespondToRequest
  PROVE  SettingsKnown'
<1> DEFINE command == Head(commands)
           last == ConnectTo(uiSettings)
<1>1. commands # <<>> /\ commands' = Tail(commands) /\ commands \in Seq(Command) /\ UNCHANGED uiSettings
  BY DEF HandleConnect, HandleRespondToRequest, Takes, Taken, TypeOK, window
<1>2. command \in Command /\ command = commands[1] /\ 1 \in DOMAIN commands
  BY <1>1, HeadAndTail
<1>3. SettingsKnown' = (\/ Silent(commands', Connects) /\ settings' = uiSettings
                        \/ EndsWith(commands', Connects, {last}))
  BY <1>1 DEF SettingsKnown, Silent, EndsWith, ConnectTo
<1>4. /\ Silent(commands, Connects) => Silent(commands', Connects) /\ command \notin Connects
      /\ EndsWith(commands, Connects, {last}) =>
           EndsWith(commands', Connects, {last}) \/ (command = last /\ Silent(commands', Connects))
  <2>1. Silent(commands, Connects) => command \notin Connects
    BY <1>2 DEF Silent
  <2> HIDE DEF last
  <2> QED
    BY <1>1, <2>1, QueueTail
<1>5. CASE HandleConnect
  <2>1. command.type = "Connect" /\ settings' = command.settings
    BY <1>5 DEF HandleConnect, Takes
  <2>2. command \in Connects
    BY <1>2, <2>1 DEF Connects
  <2>3. command = last => settings' = uiSettings
    BY <2>1 DEF ConnectTo
  <2> QED
    BY <1>3, <1>4, <2>2, <2>3 DEF SettingsKnown
<1>6. CASE HandleRespondToRequest
  <2>1. command.type = "RespondToRequest" /\ settings' = settings
    BY <1>6 DEF HandleRespondToRequest, Takes
  <2>2. command # last
    BY <2>1 DEF ConnectTo
  <2> QED
    BY <1>3, <1>4, <2>1, <2>2 DEF SettingsKnown
<1> QED
  BY <1>5, <1>6

\* A device gets its folder from the settings when it is dialled, and nothing else sets it.
LEMMA FolderEngine ==
  ASSUME TypeOK, FolderKnown, EngineThread
  PROVE  FolderKnown'
<1>0. peers \in List
  BY DEF TypeOK, List
<1>1. ASSUME NEW p \in Peer, NEW state \in PeerState, peers[p] # None,
             peers' = [peers EXCEPT ![p] = state], state.folder = peers[p].folder,
             settings' = settings
      PROVE  FolderKnown'
  <2>1. \A o \in Peer : peers'[o] = IF o = p THEN state ELSE peers[o]
    BY <1>0, <1>1, ListUpdated
  <2> QED
    BY <1>1, <2>1 DEF FolderKnown, Known
<1>2. CASE HandleConnect \/ HandleWaitingToRetry
  BY <1>2 DEF HandleConnect, HandleWaitingToRetry, FolderKnown, Known, NoPeers
<1>3. CASE HandleRespondToRequest
  <2> DEFINE p == Head(commands).peer
             accept == Head(commands).accept
  <2>1. /\ p \in Peer /\ accept \in BOOLEAN
        /\ \/ UNCHANGED peers
           \/ /\ peers[p] \in PeerState /\ peers[p] # None
              /\ \E sent \in BOOLEAN : /\ Responded(p, accept, sent) \in PeerState
                                      /\ peers' = [peers EXCEPT ![p] = Responded(p, accept, sent)]
    BY <1>3, RespondedTo
  <2>2. settings' = settings
    BY <1>3 DEF HandleRespondToRequest
  <2> HIDE DEF p, accept
  <2>3. CASE UNCHANGED peers
    BY <2>2, <2>3 DEF FolderKnown, Known
  <2>4. ASSUME NEW sent \in BOOLEAN, peers[p] \in PeerState, peers[p] # None,
               Responded(p, accept, sent) \in PeerState,
               peers' = [peers EXCEPT ![p] = Responded(p, accept, sent)]
        PROVE  FolderKnown'
    <3>1. Responded(p, accept, sent).folder = peers[p].folder
      BY <2>1, <2>4, RespondedType
    <3> QED
      BY <1>1, <2>1, <2>2, <2>4, <3>1
  <2> QED
    BY <2>1, <2>3, <2>4
<1>4. ASSUME NEW state, HandleStateShown(state)
      PROVE  FolderKnown'
  BY <1>4 DEF HandleStateShown, FolderKnown, Known
<1>5. CASE HandleIdentity
  BY <1>5 DEF HandleIdentity, FolderKnown, Known
<1>6. CASE HandlePeers
  <2>1. PICK some : Dial(some)
    BY <1>6 DEF HandlePeers
  <2>2. peers' = [p \in Peer |-> IF p \in some \ Known THEN NewPeer ELSE peers[p]]
    BY <2>1 DEF Dial
  <2>3. NewPeer.folder = settings.folder
    BY NewPeerType DEF TypeOK
  <2>4. settings' = settings
    BY <1>6 DEF HandlePeers
  <2>5. \A p \in Peer : peers'[p] = NewPeer \/ peers'[p] = peers[p]
    BY <2>2
  <2> QED
    BY <2>3, <2>4, <2>5 DEF FolderKnown, Known
<1>7. CASE HandlePeerLeft
  <2>1. \A p \in Peer : peers'[p] = None \/ peers'[p] = peers[p]
    BY <1>0, <1>7 DEF HandlePeerLeft, List
  <2>2. settings' = settings
    BY <1>7 DEF HandlePeerLeft
  <2> QED
    BY <2>1, <2>2 DEF FolderKnown, Known
<1>8. CASE HandleRtc
  <2>1. PICK p \in Peer :
          /\ Head(reports[p]) \in Report
          /\ \/ HandleOpen(p) \/ HandleNewRequest(p) \/ HandleReceived(p)
             \/ HandleGone(p) \/ HandleIgnored(p)
    BY <1>8, RtcCases
  <2>2. settings' = settings
    BY <1>8, RtcCases
  <2>3. CASE HandleIgnored(p)
    BY <2>2, <2>3 DEF HandleIgnored, FolderKnown, Known
  <2>4. CASE HandleOpen(p) \/ HandleNewRequest(p) \/ HandleReceived(p) \/ HandleGone(p)
    <3>1. PICK state \in PeerState :
            /\ p \in Known
            /\ peers' = [peers EXCEPT ![p] = state]
            /\ state.folder = peers[p].folder
      BY <2>1, <2>4, RtcPeer
    <3> QED
      BY <1>1, <2>2, <3>1 DEF Known
  <2> QED
    BY <2>1, <2>3, <2>4
<1> QED
  BY <1>2, <1>3, <1>4, <1>5, <1>6, <1>7, <1>8, HandleStateCases DEF EngineThread, HandleSignaling

\* What the settings of the window and the queue of commands depend on.
LEMMA WindowSteps ==
  ASSUME Next, ~User
  PROVE  /\ UNCHANGED <<uiSettings, disk, complained>>
         /\ ~HandleConnect /\ ~HandleRespondToRequest => UNCHANGED commands
<1>1. CASE Ui
  BY <1>1 DEF Ui, ShowConnection, UpdatePeers, AskAboutRequest
<1>2. CASE HandleConnect \/ HandleRespondToRequest
  BY <1>2 DEF HandleConnect, HandleRespondToRequest, window
<1>3. CASE HandleSignaling
  BY <1>3 DEF HandleSignaling, HandleState, HandleIdentity, HandlePeers, HandlePeerLeft, window
<1>4. CASE HandleRtc
  BY <1>4 DEF HandleRtc, window
<1>5. CASE Task \/ TaskDrops
  BY <1>5 DEF Task, TaskConnects, TaskDrops, TaskFails, TaskRetries, TaskEnds, window
<1>6. ASSUME NEW p, Come(p) \/ Go(p)
      PROVE  UNCHANGED <<uiSettings, disk, complained, commands>>
  BY <1>6 DEF Come, Go, window
<1>7. ASSUME NEW p, ChannelOpens(p) \/ ChannelEnds(p) \/ ClosesLate(p) \/ Asks(p) \/ SendsAll(p)
      PROVE  UNCHANGED <<uiSettings, disk, complained, commands>>
  BY <1>7 DEF ChannelOpens, ChannelEnds, ClosesLate, Asks, SendsAll, Happens, window
<1> QED
  BY <1>1, <1>2, <1>3, <1>4, <1>5, <1>6, <1>7 DEF Next, EngineThread, Channels, Environment

LEMMA UiEngine == Ui => UNCHANGED engine
BY DEF Ui, ShowConnection, UpdatePeers, AskAboutRequest

LEMMA SettingsStep ==
  ASSUME TypeOK, SettingsKnown, FolderKnown, SavedOrComplained, [Next]_vars
  PROVE  SettingsKnown' /\ FolderKnown' /\ SavedOrComplained'
<1>1. ASSUME UNCHANGED <<settings, uiSettings, commands>>
      PROVE  SettingsKnown'
  BY <1>1 DEF SettingsKnown, Silent, EndsWith, ConnectTo
<1>2. CASE UNCHANGED vars
  BY <1>1, <1>2 DEF vars, window, engine, FolderKnown, Known, SavedOrComplained
<1>3. CASE Next /\ ~User
  <2>1. SavedOrComplained'
    BY <1>3, WindowSteps DEF SavedOrComplained
  <2>2. FolderKnown'
    BY <1>3, FolderEngine, OtherSteps, UiEngine DEF FolderKnown, Known, engine
  <2>3. SettingsKnown'
    <3>1. CASE HandleConnect \/ HandleRespondToRequest
      BY <3>1, SettingsTaken
    <3>2. CASE ~HandleConnect /\ ~HandleRespondToRequest
      <4>1. UNCHANGED settings
        <5>1. CASE EngineThread
          BY <3>2, <5>1 DEF EngineThread, HandleSignaling, HandleState, HandleIdentity, HandlePeers,
             HandlePeerLeft, HandleRtc
        <5> QED
          BY <1>3, <5>1, OtherSteps, UiEngine DEF engine
      <4> QED
        BY <1>1, <1>3, <3>2, <4>1, WindowSteps
    <3> QED
      BY <3>1, <3>2
  <2> QED
    BY <2>1, <2>2, <2>3
<1> QED
  BY <1>2, <1>3, SettingsUser

\* The engine works with the settings the window shows, or a Connect with them is on its
\* way; every device has the folder of the settings in force, because a new Connect forgets
\* the devices; and the file has what the window shows, unless the window complained.
THEOREM InForce == Spec => []SettingsAreInForce
<1>1. Init => TypeOK /\ SettingsKnown /\ FolderKnown /\ SavedOrComplained
  <2>1. Init => SettingsKnown
    BY DEF Init, SettingsKnown, Silent
  <2>2. Init => FolderKnown /\ SavedOrComplained
    BY DEF Init, FolderKnown, SavedOrComplained, Known, NoPeers
  <2> QED
    BY <2>1, <2>2, InitTypes
<1>2. TypeOK /\ SettingsKnown /\ FolderKnown /\ SavedOrComplained /\ [Next]_vars =>
        TypeOK' /\ SettingsKnown' /\ FolderKnown' /\ SavedOrComplained'
  BY StepTypes, SettingsStep
<1>3. SettingsKnown /\ FolderKnown /\ SavedOrComplained => SettingsAreInForce
  BY EmptyQueue DEF SettingsKnown, FolderKnown, SavedOrComplained, SettingsAreInForce
<1> QED
  BY <1>1, <1>2, <1>3, PTL DEF Spec

-----------------------------------------------------------------------------
(* What is in a queue, and how often.                                      *)

Has(q, x) == \E i \in DOMAIN q : q[i] = x

AtMostOnce(q, x) == \A i, j \in DOMAIN q : q[i] = x /\ q[j] = x => i = j

\* What has another of its kind before it is one of these.
Behind(q, S, X) == \A i, j \in DOMAIN q : i < j /\ q[i] \in S /\ q[j] \in S => q[j] \in X

\* Of the elements of S the new queue has none that the old one did not have; as many, and
\* in the same order.
Milder(new, old, S) ==
  /\ \A x \in S : /\ Has(new, x) => Has(old, x)
                  /\ AtMostOnce(old, x) => AtMostOnce(new, x)
  /\ \A X : Behind(old, S, X) => Behind(new, S, X)

Alike(new, old, S) ==
  \A x \in S : /\ Has(new, x) <=> Has(old, x)
               /\ AtMostOnce(old, x) => AtMostOnce(new, x)

LEMMA HasAppended ==
  ASSUME NEW T, NEW q \in Seq(T), NEW x \in T, NEW y
  PROVE  /\ Has(Append(q, x), y) <=> Has(q, y) \/ y = x
         /\ AtMostOnce(q, y) /\ (x = y => ~Has(q, y)) => AtMostOnce(Append(q, x), y)
<1> DEFINE longer == Append(q, x)
<1>1. /\ Len(q) \in Nat /\ DOMAIN q = 1..Len(q) /\ DOMAIN longer = 1..(Len(q) + 1)
      /\ longer[Len(q) + 1] = x /\ \A i \in DOMAIN q : longer[i] = q[i]
  BY Appended
<1> HIDE DEF longer
<1>2. \A i \in DOMAIN longer : i \in DOMAIN q \/ i = Len(q) + 1
  BY <1>1
<1>3. Has(longer, y) <=> Has(q, y) \/ y = x
  BY <1>1, <1>2 DEF Has
<1>4. AtMostOnce(q, y) /\ (x = y => ~Has(q, y)) => AtMostOnce(longer, y)
  BY <1>1, <1>2 DEF AtMostOnce, Has
<1> QED
  BY <1>3, <1>4 DEF longer

LEMMA HasTail ==
  ASSUME NEW T, NEW q \in Seq(T), q # <<>>, NEW y
  PROVE  /\ Has(q, y) <=> Has(Tail(q), y) \/ y = Head(q)
         /\ AtMostOnce(q, y) => AtMostOnce(Tail(q), y)
         /\ AtMostOnce(q, Head(q)) => ~Has(Tail(q), Head(q))
<1> DEFINE rest == Tail(q)
<1>1. /\ Len(q) \in Nat \ {0} /\ Head(q) = q[1] /\ DOMAIN q = 1..Len(q)
      /\ \A i \in DOMAIN rest : i + 1 \in DOMAIN q /\ rest[i] = q[i + 1]
      /\ \A i \in DOMAIN q : i = 1 \/ (i - 1 \in DOMAIN rest /\ rest[i - 1] = q[i])
      /\ DOMAIN rest \subseteq Nat \ {0}
  BY HeadAndTail
<1> HIDE DEF rest
<1>2. 1 \in DOMAIN q
  BY <1>1
<1>3. Has(q, y) <=> Has(rest, y) \/ y = Head(q)
  BY <1>1, <1>2 DEF Has
<1>4. AtMostOnce(q, y) => AtMostOnce(rest, y)
  <2> SUFFICES ASSUME AtMostOnce(q, y), NEW i \in DOMAIN rest, NEW j \in DOMAIN rest,
                      rest[i] = y, rest[j] = y
               PROVE  i = j
    BY DEF AtMostOnce
  <2>1. q[i + 1] = y /\ q[j + 1] = y /\ i + 1 \in DOMAIN q /\ j + 1 \in DOMAIN q
    BY <1>1
  <2>2. i + 1 = j + 1
    BY <2>1 DEF AtMostOnce
  <2> QED
    BY <1>1, <2>2
<1>5. AtMostOnce(q, Head(q)) => ~Has(rest, Head(q))
  <2> SUFFICES ASSUME AtMostOnce(q, Head(q)), NEW i \in DOMAIN rest, rest[i] = Head(q)
               PROVE  FALSE
    BY DEF Has
  <2>1. q[i + 1] = Head(q) /\ i + 1 \in DOMAIN q /\ q[1] = Head(q)
    BY <1>1
  <2>2. i + 1 = 1
    BY <1>2, <2>1 DEF AtMostOnce
  <2> QED
    BY <1>1, <2>2
<1> QED
  BY <1>3, <1>4, <1>5 DEF rest

LEMMA BehindAppended ==
  ASSUME NEW T, NEW q \in Seq(T), NEW x \in T, NEW S, NEW X, Behind(q, S, X),
         x \in S => x \in X \/ \A y \in S : ~Has(q, y)
  PROVE  Behind(Append(q, x), S, X)
<1> DEFINE longer == Append(q, x)
<1>1. /\ Len(q) \in Nat /\ DOMAIN q = 1..Len(q) /\ DOMAIN longer = 1..(Len(q) + 1)
      /\ longer[Len(q) + 1] = x /\ \A i \in DOMAIN q : longer[i] = q[i]
  BY Appended
<1> HIDE DEF longer
<1>2. ASSUME NEW i \in DOMAIN longer, NEW j \in DOMAIN longer, i < j,
             longer[i] \in S, longer[j] \in S
      PROVE  longer[j] \in X
  <2>1. i \in DOMAIN q /\ longer[i] = q[i]
    BY <1>1, <1>2
  <2>2. CASE j \in DOMAIN q
    BY <1>1, <1>2, <2>1, <2>2 DEF Behind
  <2>3. CASE j = Len(q) + 1
    BY <1>1, <1>2, <2>1, <2>3 DEF Has
  <2> QED
    BY <1>1, <2>2, <2>3
<1>3. Behind(longer, S, X)
  BY <1>2 DEF Behind
<1> QED
  BY <1>3 DEF longer

LEMMA BehindTail ==
  ASSUME NEW T, NEW q \in Seq(T), q # <<>>, NEW S, NEW X, Behind(q, S, X)
  PROVE  /\ Behind(Tail(q), S, X)
         /\ \A y \in S : Head(q) \in S /\ Has(Tail(q), y) => y \in X
<1> DEFINE rest == Tail(q)
<1>1. /\ Len(q) \in Nat \ {0} /\ Head(q) = q[1] /\ DOMAIN q = 1..Len(q)
      /\ \A i \in DOMAIN rest : i + 1 \in DOMAIN q /\ rest[i] = q[i + 1]
      /\ DOMAIN rest \subseteq Nat \ {0}
  BY HeadAndTail
<1> HIDE DEF rest
<1>2. ASSUME NEW i \in DOMAIN rest, NEW j \in DOMAIN rest, i < j, rest[i] \in S, rest[j] \in S
      PROVE  rest[j] \in X
  <2>1. /\ i + 1 \in DOMAIN q /\ j + 1 \in DOMAIN q /\ i + 1 < j + 1
        /\ rest[i] = q[i + 1] /\ rest[j] = q[j + 1]
    BY <1>1, <1>2
  <2> QED
    BY <1>2, <2>1 DEF Behind
<1>3. ASSUME NEW j \in DOMAIN rest, Head(q) \in S, rest[j] \in S
      PROVE  rest[j] \in X
  <2>1. 1 \in DOMAIN q /\ j + 1 \in DOMAIN q /\ 1 < j + 1 /\ rest[j] = q[j + 1] /\ q[1] \in S
    BY <1>1, <1>3
  <2> QED
    BY <1>3, <2>1 DEF Behind
<1> QED
  BY <1>2, <1>3 DEF Behind, Has, rest

LEMMA HasEmpty ==
  ASSUME NEW x
  PROVE  ~Has(<<>>, x) /\ AtMostOnce(<<>>, x)
BY DEF Has, AtMostOnce

LEMMA AlikeAppended ==
  ASSUME NEW T, NEW q \in Seq(T), NEW x \in T, NEW S, x \notin S
  PROVE  Alike(Append(q, x), q, S)
BY HasAppended DEF Alike

LEMMA AlikeTail ==
  ASSUME NEW T, NEW q \in Seq(T), q # <<>>, NEW S, Head(q) \notin S
  PROVE  Alike(Tail(q), q, S)
BY HasTail DEF Alike

LEMMA MilderTail ==
  ASSUME NEW T, NEW q \in Seq(T), q # <<>>, NEW S
  PROVE  Milder(Tail(q), q, S)
BY HasTail, BehindTail DEF Milder

LEMMA MilderAppended ==
  ASSUME NEW T, NEW q \in Seq(T), NEW x \in T, NEW S, x \notin S
  PROVE  Milder(Append(q, x), q, S)
BY HasAppended, BehindAppended DEF Milder

LEMMA AlikeMilder ==
  ASSUME NEW old, NEW S
  PROVE  Alike(old, old, S) /\ Milder(old, old, S)
BY DEF Alike, Milder

LEMMA AlikeTwice ==
  ASSUME NEW a, NEW b, NEW c, NEW S, Alike(b, a, S), Alike(c, b, S)
  PROVE  Alike(c, a, S)
BY DEF Alike

-----------------------------------------------------------------------------
(* The requests.  One passes from the session that reports it to an event, *)
(* a dialog and the answer, and is in one of these places at most; so an   *)
(* answer is to the request of the dialog, and until another of that       *)
(* device comes in between, to the request that the engine waits with.     *)

Asking(q) == [type |-> "Request", request |-> q]
Invitation(p, q) == [type |-> "IncomingRequest", peer |-> p, request |-> q]
Reply(p, accept, q) ==
  [type |-> "RespondToRequest", peer |-> p, accept |-> accept, request |-> q]

Askings == {Asking(q) : q \in Request}
Invitations == {Invitation(p, q) : p \in Peer, q \in Request}
Replies == {Reply(p, accept, q) : p \in Peer, accept \in BOOLEAN, q \in Request}

Asked(p, q) == Has(reports[p], Asking(q))
Announced(p, q) == Has(events, Invitation(p, q))
Opened(p, q) == [peer |-> p, request |-> q] \in dialogs
Answered(p, accept, q) == Has(commands, Reply(p, accept, q))

Awaits(p, q) ==
  Opened(p, q) \/ Announced(p, q) \/ \E accept \in BOOLEAN : Answered(p, accept, q)

Counts ==
  /\ \A p \in Peer, q \in Request : AtMostOnce(reports[p], Asking(q))
  /\ \A p \in Peer, q \in Request : AtMostOnce(events, Invitation(p, q))

OnePlace ==
  \A p, o \in Peer, q \in Request :
    /\ Asked(p, q) => /\ Asked(o, q) => p = o
                     /\ ~Announced(o, q) /\ ~Opened(o, q)
    /\ Announced(p, q) => /\ Announced(o, q) => p = o
                         /\ ~Opened(o, q)
    /\ Opened(p, q) => (Opened(o, q) => p = o)

\* Of the requests of a device that are reported, all but the first are overlapped.
FirstAhead == \A p \in Peer : Behind(reports[p], Askings, {Asking(q) : q \in overlapped})

Unanswered ==
  \A p \in Peer, q \in Request :
    Asked(p, q) \/ Announced(p, q) \/ Opened(p, q) => q < Upcoming /\ answers[q] = "none"

Unmade == \A q \in Request : q < Upcoming \/ answers[q] = "none"

AnswersSaid ==
  \A p \in Peer, accept \in BOOLEAN, q \in Request :
    Answered(p, accept, q) => answers[q] = IF accept THEN "yes" ELSE "no"

Waits ==
  \A p \in Peer : peers[p] # None /\ peers[p].pending # 0 => \E q \in Request : Awaits(p, q)

OwnDialog ==
  \A p \in Peer : peers[p] # None /\ peers[p].pending \in Request \ overlapped =>
    \A q \in Request : Awaits(p, q) => q = peers[p].pending

AskedAlone ==
  \A p \in Peer, q \in Request \ overlapped, r \in Request : Asked(p, q) => ~Awaits(p, r)

Accepted ==
  \A p \in Peer : peers[p] # None /\ peers[p].receiving \in Request \ overlapped =>
    answers[peers[p].receiving] = "yes"

RequestsKnown ==
  /\ Counts /\ OnePlace /\ FirstAhead /\ Unanswered /\ Unmade /\ AnswersSaid
  /\ Waits /\ OwnDialog /\ AskedAlone /\ Accepted

\* The records are what their fields say.
LEMMA RequestFields ==
  /\ \A x \in Report : x.type = "Request" => x.request \in Request /\ x = Asking(x.request)
  /\ \A x \in Event : x.type = "IncomingRequest" =>
       x.peer \in Peer /\ x.request \in Request /\ x = Invitation(x.peer, x.request)
  /\ \A x \in Command : x.type = "RespondToRequest" =>
       /\ x.peer \in Peer /\ x.accept \in BOOLEAN /\ x.request \in Request
       /\ x = Reply(x.peer, x.accept, x.request)
  /\ \A x : x.type # "Request" => x \notin Askings
  /\ \A x : x.type # "IncomingRequest" => x \notin Invitations
  /\ \A x : x.type # "RespondToRequest" => x \notin Replies
<1>1. \A x \in Report : x.type = "Request" => x.request \in Request /\ x = Asking(x.request)
  BY DEF Report, Asking
<1>2. \A x \in Event : x.type = "IncomingRequest" =>
        x.peer \in Peer /\ x.request \in Request /\ x = Invitation(x.peer, x.request)
  BY DEF Event, Invitation
<1>3. \A x \in Command : x.type = "RespondToRequest" =>
        /\ x.peer \in Peer /\ x.accept \in BOOLEAN /\ x.request \in Request
        /\ x = Reply(x.peer, x.accept, x.request)
  BY DEF Command, Reply
<1>4. \A x : x.type # "Request" => x \notin Askings
  BY DEF Askings, Asking
<1>5. \A x : x.type # "IncomingRequest" => x \notin Invitations
  BY DEF Invitations, Invitation
<1>6. \A x : x.type # "RespondToRequest" => x \notin Replies
  BY DEF Replies, Reply
<1> QED
  BY <1>1, <1>2, <1>3, <1>4, <1>5, <1>6

LEMMA RequestsDiffer ==
  /\ \A q, r : Asking(q) = Asking(r) <=> q = r
  /\ \A p, o, q, r : Invitation(p, q) = Invitation(o, r) <=> p = o /\ q = r
  /\ \A p, o, a, b, q, r : Reply(p, a, q) = Reply(o, b, r) <=> p = o /\ a = b /\ q = r
<1>1. \A q, r : Asking(q) = Asking(r) <=> q = r
  BY DEF Asking
<1>2. \A p, o, q, r : Invitation(p, q) = Invitation(o, r) <=> p = o /\ q = r
  BY DEF Invitation
<1>3. \A p, o, a, b, q, r : Reply(p, a, q) = Reply(o, b, r) <=> p = o /\ a = b /\ q = r
  BY DEF Reply
<1> QED
  BY <1>1, <1>2, <1>3

\* Something is outstanding if some request awaits the user or the engine.
LEMMA OutstandingAwaits ==
  ASSUME TypeOK, NEW p \in Peer
  PROVE  Outstanding(p) <=> \E q \in Request : Awaits(p, q)
<1>1. /\ \A i \in DOMAIN events : events[i] \in Event
      /\ \A i \in DOMAIN commands : commands[i] \in Command
      /\ dialogs \subseteq [peer : Peer, request : Request]
  BY DEF TypeOK
<1>2. ASSUME Outstanding(p)
      PROVE  \E q \in Request : Awaits(p, q)
  <2>1. ASSUME NEW dialog \in dialogs, dialog.peer = p
        PROVE  \E q \in Request : Awaits(p, q)
    <3>1. dialog.request \in Request /\ dialog = [peer |-> p, request |-> dialog.request]
      BY <1>1, <2>1
    <3> QED
      BY <3>1 DEF Awaits, Opened
  <2>2. ASSUME NEW i \in DOMAIN events, events[i].type = "IncomingRequest", events[i].peer = p
        PROVE  \E q \in Request : Awaits(p, q)
    <3>1. events[i].request \in Request /\ events[i] = Invitation(p, events[i].request)
      BY <1>1, <2>2, RequestFields
    <3> QED
      BY <3>1 DEF Awaits, Announced, Has
  <2>3. ASSUME NEW i \in DOMAIN commands, commands[i].type = "RespondToRequest", commands[i].peer = p
        PROVE  \E q \in Request : Awaits(p, q)
    <3>1. /\ commands[i].request \in Request /\ commands[i].accept \in BOOLEAN
          /\ commands[i] = Reply(p, commands[i].accept, commands[i].request)
      BY <1>1, <2>3, RequestFields
    <3> QED
      BY <3>1 DEF Awaits, Answered, Has
  <2> QED
    BY <1>2, <2>1, <2>2, <2>3 DEF Outstanding
<1>3. ASSUME NEW q \in Request, Awaits(p, q)
      PROVE  Outstanding(p)
  <2>1. CASE Opened(p, q)
    BY <2>1 DEF Opened, Outstanding
  <2>2. CASE Announced(p, q)
    BY <2>2 DEF Announced, Has, Invitation, Outstanding
  <2>3. ASSUME NEW accept \in BOOLEAN, Answered(p, accept, q)
        PROVE  Outstanding(p)
    BY <2>3 DEF Answered, Has, Reply, Outstanding
  <2> QED
    BY <1>3, <2>1, <2>2, <2>3 DEF Awaits
<1> QED
  BY <1>2, <1>3

LEMMA NoRequestZero == 0 \notin Request
BY BoundAssumption DEF Request

\* A step that makes no request, and moves none on but to forget it.
PeersForget ==
  \A p \in Peer : peers'[p] # None =>
    \/ peers'[p].pending = 0 /\ peers'[p].receiving = 0
    \/ /\ peers[p] # None
       /\ peers'[p].pending \in {0, peers[p].pending}
       /\ peers'[p].receiving \in {0, peers[p].receiving}

Passes ==
  /\ Alike(events', events, Invitations) /\ Alike(commands', commands, Replies)
  /\ \A p \in Peer : Milder(reports'[p], reports[p], Askings)
  /\ UNCHANGED <<dialogs, answers, overlapped>> /\ budget'.requests = budget.requests
  /\ PeersForget

LEMMA PassesKeeps ==
  ASSUME RequestsKnown, Passes
  PROVE  RequestsKnown'
<1>1. /\ \A p \in Peer, q \in Request : Asked(p, q)' => Asked(p, q)
      /\ \A p \in Peer, q \in Request : Announced(p, q)' <=> Announced(p, q)
      /\ \A p \in Peer, q \in Request : Opened(p, q)' <=> Opened(p, q)
      /\ \A p \in Peer, a \in BOOLEAN, q \in Request : Answered(p, a, q)' <=> Answered(p, a, q)
  <2>1. \A p \in Peer, q \in Request : Asked(p, q)' => Asked(p, q)
    BY DEF Passes, Milder, Askings, Asked
  <2>2. \A p \in Peer, q \in Request : Announced(p, q)' <=> Announced(p, q)
    BY DEF Passes, Alike, Invitations, Announced
  <2>3. \A p \in Peer, q \in Request : Opened(p, q)' <=> Opened(p, q)
    BY DEF Passes, Opened
  <2>4. \A p \in Peer, a \in BOOLEAN, q \in Request : Answered(p, a, q)' <=> Answered(p, a, q)
    BY DEF Passes, Alike, Replies, Answered
  <2> QED
    BY <2>1, <2>2, <2>3, <2>4
<1>2. Counts'
  <2>1. \A p \in Peer, q \in Request : AtMostOnce(reports'[p], Asking(q))
    BY DEF Passes, Milder, Askings, RequestsKnown, Counts
  <2>2. \A p \in Peer, q \in Request : AtMostOnce(events', Invitation(p, q))
    BY DEF Passes, Alike, Invitations, RequestsKnown, Counts
  <2>3. Counts' = (/\ \A p \in Peer, q \in Request : AtMostOnce(reports'[p], Asking(q))
                   /\ \A p \in Peer, q \in Request : AtMostOnce(events', Invitation(p, q)))
    BY DEF Counts, AtMostOnce, Asking, Invitation, Request
  <2> QED
    BY <2>1, <2>2, <2>3
<1>3. \A p \in Peer, q \in Request : Awaits(p, q)' <=> Awaits(p, q)
  BY <1>1 DEF Awaits
<1>4. answers' = answers /\ overlapped' = overlapped /\ Upcoming' = Upcoming
  BY DEF Passes, Upcoming
<1>5. OnePlace' /\ FirstAhead'
  <2>1. OnePlace'
    BY <1>1 DEF RequestsKnown, OnePlace, Request
  <2>2. \A p \in Peer : Behind(reports'[p], Askings, {Asking(q) : q \in overlapped})
    BY DEF Passes, Milder, RequestsKnown, FirstAhead
  <2>3. FirstAhead' = (\A p \in Peer : Behind(reports'[p], Askings, {Asking(q) : q \in overlapped'}))
    BY DEF FirstAhead, Behind, Askings, Asking, Request
  <2> QED
    BY <1>4, <2>1, <2>2, <2>3
<1>6. Unanswered' /\ Unmade' /\ AnswersSaid'
  BY <1>1, <1>4 DEF RequestsKnown, Unanswered, Unmade, AnswersSaid, Request
<1>7. Waits'
  BY <1>3 DEF RequestsKnown, Waits, Passes, PeersForget, Request
<1>8. OwnDialog'
  <2> SUFFICES ASSUME NEW p \in Peer, peers'[p] # None, peers'[p].pending \in Request \ overlapped,
                      NEW q \in Request, Awaits(p, q)
               PROVE  q = peers'[p].pending
    BY <1>3, <1>4 DEF OwnDialog, Request
  <2>1. peers[p] # None /\ peers'[p].pending = peers[p].pending
    BY NoRequestZero DEF Passes, PeersForget
  <2> QED
    BY <2>1 DEF RequestsKnown, OwnDialog
<1>9. AskedAlone'
  BY <1>1, <1>3, <1>4 DEF RequestsKnown, AskedAlone, Request
<1>10. Accepted'
  <2> SUFFICES ASSUME NEW p \in Peer, peers'[p] # None, peers'[p].receiving \in Request \ overlapped
               PROVE  answers[peers'[p].receiving] = "yes"
    BY <1>4 DEF Accepted, Request
  <2>1. peers[p] # None /\ peers'[p].receiving = peers[p].receiving
    BY NoRequestZero DEF Passes, PeersForget
  <2> QED
    BY <2>1 DEF RequestsKnown, Accepted
<1> QED
  BY <1>2, <1>5, <1>6, <1>7, <1>8, <1>9, <1>10 DEF RequestsKnown

LEMMA FirstStays ==
  ASSUME FirstAhead, UNCHANGED <<reports, overlapped>>
  PROVE  FirstAhead'
BY DEF FirstAhead, Behind, Askings, Asking, Request

\* An event becomes a dialog.
LEMMA AskAboutRequestKeeps ==
  ASSUME TypeOK, RequestsKnown, AskAboutRequest
  PROVE  RequestsKnown'
<1> DEFINE event == Head(events)
<1>1. /\ events # <<>> /\ events' = Tail(events) /\ events \in Seq(Event)
      /\ event.type = "IncomingRequest"
      /\ dialogs' = dialogs \union {[peer |-> event.peer, request |-> event.request]}
      /\ UNCHANGED <<commands, peers, reports, answers, overlapped, budget>>
  BY DEF AskAboutRequest, Applies, Applied, engine, world, closed, requests, TypeOK
<1>2. event \in Event
  BY <1>1, HeadAndTail
<1>3. PICK o \in Peer, r \in Request : event = Invitation(o, r) /\ event.peer = o /\ event.request = r
  BY <1>1, <1>2, RequestFields
<1> HIDE DEF event
<1>4. /\ \A x : Has(events, x) <=> Has(events', x) \/ x = event
      /\ \A x : AtMostOnce(events, x) => AtMostOnce(events', x)
      /\ AtMostOnce(events, event) => ~Has(events', event)
  BY <1>1, HasTail DEF event
<1>5. Announced(o, r) /\ ~Announced(o, r)'
  BY <1>3, <1>4 DEF Announced, RequestsKnown, Counts
<1>6. /\ \A p \in Peer, q \in Request : Asked(p, q)' <=> Asked(p, q)
      /\ \A p \in Peer, q \in Request :
           Announced(p, q) <=> Announced(p, q)' \/ (p = o /\ q = r)
      /\ \A p \in Peer, q \in Request : Opened(p, q)' <=> Opened(p, q) \/ (p = o /\ q = r)
      /\ \A p \in Peer, a \in BOOLEAN, q \in Request : Answered(p, a, q)' <=> Answered(p, a, q)
  <2>1. \A p \in Peer, q \in Request :
          Announced(p, q) <=> Announced(p, q)' \/ (p = o /\ q = r)
    BY <1>3, <1>4, RequestsDiffer DEF Announced
  <2>2. \A p \in Peer, q \in Request : Opened(p, q)' <=> Opened(p, q) \/ (p = o /\ q = r)
    BY <1>1, <1>3 DEF Opened
  <2>3. \A p \in Peer, q \in Request : Asked(p, q)' <=> Asked(p, q)
    BY <1>1 DEF Asked
  <2>4. \A p \in Peer, a \in BOOLEAN, q \in Request : Answered(p, a, q)' <=> Answered(p, a, q)
    BY <1>1 DEF Answered
  <2> QED
    BY <2>1, <2>2, <2>3, <2>4
<1>7. \A p \in Peer, q \in Request : Awaits(p, q)' <=> Awaits(p, q)
  BY <1>6 DEF Awaits
<1>8. Counts'
  BY <1>1, <1>4 DEF RequestsKnown, Counts
<1>9. OnePlace' /\ FirstAhead'
  BY <1>1, <1>5, <1>6, FirstStays DEF RequestsKnown, OnePlace
<1>10. Upcoming' = Upcoming
  BY <1>1 DEF Upcoming
<1>11. Unanswered' /\ Unmade' /\ AnswersSaid'
  BY <1>1, <1>5, <1>6, <1>10 DEF RequestsKnown, Unanswered, Unmade, AnswersSaid
<1>12. Waits' /\ OwnDialog' /\ AskedAlone' /\ Accepted'
  BY <1>1, <1>6, <1>7 DEF RequestsKnown, Waits, OwnDialog, AskedAlone, Accepted
<1> QED
  BY <1>8, <1>9, <1>11, <1>12 DEF RequestsKnown

\* A dialog becomes an answer.
LEMMA AnswerKeeps ==
  ASSUME TypeOK, RequestsKnown, NEW dialog \in dialogs, NEW accept \in BOOLEAN, Answer(dialog, accept)
  PROVE  RequestsKnown'
<1>1. PICK o \in Peer, r \in Request :
        dialog = [peer |-> o, request |-> r] /\ dialog.peer = o /\ dialog.request = r
  BY DEF TypeOK
<1>2. /\ dialogs' = dialogs \ {dialog}
      /\ answers' = [answers EXCEPT ![r] = IF accept THEN "yes" ELSE "no"]
      /\ commands' = Append(commands, Reply(o, accept, r))
      /\ UNCHANGED <<events, peers, reports, overlapped, budget>>
  BY <1>1 DEF Answer, Reply, engine, world, closed
<1>3. commands \in Seq(Command) /\ Reply(o, accept, r) \in Command
  BY CommandTypes DEF TypeOK, Reply
<1>4. \A x : Has(commands', x) <=> Has(commands, x) \/ x = Reply(o, accept, r)
  BY <1>2, <1>3, HasAppended
<1>5. Opened(o, r)
  BY <1>1 DEF Opened
<1>6. /\ \A p \in Peer, q \in Request : Asked(p, q)' <=> Asked(p, q)
      /\ \A p \in Peer, q \in Request : Announced(p, q)' <=> Announced(p, q)
      /\ \A p \in Peer, q \in Request : Opened(p, q)' <=> Opened(p, q) /\ ~(p = o /\ q = r)
      /\ \A p \in Peer, a \in BOOLEAN, q \in Request :
           Answered(p, a, q)' <=> Answered(p, a, q) \/ (p = o /\ a = accept /\ q = r)
  <2>1. \A p \in Peer, q \in Request : Asked(p, q)' <=> Asked(p, q)
    BY <1>2 DEF Asked
  <2>2. \A p \in Peer, q \in Request : Announced(p, q)' <=> Announced(p, q)
    BY <1>2 DEF Announced
  <2>3. \A p \in Peer, q \in Request : Opened(p, q)' <=> Opened(p, q) /\ ~(p = o /\ q = r)
    BY <1>1, <1>2 DEF Opened
  <2>4. \A p \in Peer, a \in BOOLEAN, q \in Request :
          Answered(p, a, q)' <=> Answered(p, a, q) \/ (p = o /\ a = accept /\ q = r)
    BY <1>4, RequestsDiffer DEF Answered
  <2> QED
    BY <2>1, <2>2, <2>3, <2>4
<1>7. \A p \in Peer, q \in Request : Awaits(p, q)' <=> Awaits(p, q)
  BY <1>5, <1>6 DEF Awaits
<1>8. /\ answers[r] = "none" /\ answers \in [Request -> {"none", "yes", "no"}]
      /\ answers'[r] = (IF accept THEN "yes" ELSE "no")
      /\ \A q \in Request : q # r => answers'[q] = answers[q]
  BY <1>2, <1>5 DEF RequestsKnown, Unanswered, TypeOK
<1>9. Counts'
  BY <1>2 DEF RequestsKnown, Counts
<1>10. OnePlace' /\ FirstAhead'
  BY <1>2, <1>6, FirstStays DEF RequestsKnown, OnePlace
<1>11. Unanswered' /\ Unmade'
  <2>1. Upcoming' = Upcoming /\ r < Upcoming
    BY <1>2, <1>5 DEF Upcoming, RequestsKnown, Unanswered
  <2>2. \A p \in Peer, q \in Request :
          Asked(p, q)' \/ Announced(p, q)' \/ Opened(p, q)' => q # r
    BY <1>5, <1>6 DEF RequestsKnown, OnePlace
  <2>3. \A p \in Peer, q \in Request :
          Asked(p, q)' \/ Announced(p, q)' \/ Opened(p, q)' => q < Upcoming /\ answers[q] = "none"
    BY <1>6 DEF RequestsKnown, Unanswered
  <2> QED
    BY <1>8, <2>1, <2>2, <2>3 DEF RequestsKnown, Unanswered, Unmade
<1>12. AnswersSaid'
  <2> SUFFICES ASSUME NEW p \in Peer, NEW a \in BOOLEAN, NEW q \in Request, Answered(p, a, q)'
               PROVE  answers'[q] = IF a THEN "yes" ELSE "no"
    BY DEF AnswersSaid
  <2>1. CASE p = o /\ a = accept /\ q = r
    BY <1>8, <2>1
  <2>2. CASE Answered(p, a, q)
    <3>1. answers[q] = IF a THEN "yes" ELSE "no"
      BY <2>2 DEF RequestsKnown, AnswersSaid
    <3>2. q # r
      BY <1>8, <3>1
    <3> QED
      BY <1>8, <3>1, <3>2
  <2> QED
    BY <1>6, <2>1, <2>2
<1>13. Waits' /\ OwnDialog' /\ AskedAlone'
  BY <1>2, <1>6, <1>7 DEF RequestsKnown, Waits, OwnDialog, AskedAlone
<1>14. Accepted'
  BY <1>2, <1>8 DEF RequestsKnown, Accepted
<1> QED
  BY <1>9, <1>10, <1>11, <1>12, <1>13, <1>14 DEF RequestsKnown

\* The engine takes an answer: it is to the request it waits with, unless that overlapped.
LEMMA RespondKeeps ==
  ASSUME TypeOK, RequestsKnown, HandleRespondToRequest
  PROVE  RequestsKnown'
<1> DEFINE command == Head(commands)
<1>1. /\ commands # <<>> /\ commands' = Tail(commands) /\ commands \in Seq(Command)
      /\ command \in Command /\ command.type = "RespondToRequest"
  BY RespondedTo DEF TypeOK
<1>2. PICK o \in Peer, accept \in BOOLEAN, r \in Request :
        command = Reply(o, accept, r) /\ command.peer = o /\ command.accept = accept
  BY <1>1, RequestFields
<1>3. \/ UNCHANGED <<peers, events>> /\ (peers[o] = None \/ peers[o].pending = 0)
      \/ /\ peers[o] \in PeerState /\ peers[o] # None
         /\ \E sent \in BOOLEAN :
              /\ Responded(o, accept, sent) \in PeerState
              /\ peers' = [peers EXCEPT ![o] = Responded(o, accept, sent)]
              /\ events' = IF sent /\ accept
                           THEN Append(events, PeersEvent(ViewsOf(peers'))) ELSE events
  BY <1>2, RespondedTo
<1>4. UNCHANGED <<dialogs, reports, answers, overlapped, budget>>
  BY DEF HandleRespondToRequest, window, world, closed, requests
<1> HIDE DEF command
<1>5. \A x : Has(commands, x) <=> Has(commands', x) \/ x = command
  BY <1>1, HasTail DEF command
<1>6. peers \in List
  BY DEF TypeOK, List
<1>7. Alike(events', events, Invitations)
  <2>1. CASE UNCHANGED events
    BY <2>1, AlikeMilder
  <2>2. CASE events' = Append(events, PeersEvent(ViewsOf(peers')))
    <3>1. TypeOK'
      BY HandleRespondTypes
    <3>2. PeersEvent(ViewsOf(peers')) \in Event
      BY <3>1, ViewsType, EventTypes DEF TypeOK, List
    <3>3. PeersEvent(ViewsOf(peers')) \notin Invitations
      BY RequestFields DEF PeersEvent
    <3> QED
      BY <2>2, <3>2, <3>3, AlikeAppended DEF TypeOK
  <2> QED
    BY <1>3, <2>1, <2>2
<1>8. /\ \A p \in Peer, q \in Request : Asked(p, q)' <=> Asked(p, q)
      /\ \A p \in Peer, q \in Request : Announced(p, q)' <=> Announced(p, q)
      /\ \A p \in Peer, q \in Request : Opened(p, q)' <=> Opened(p, q)
      /\ \A p \in Peer, a \in BOOLEAN, q \in Request :
           Answered(p, a, q) <=> Answered(p, a, q)' \/ (p = o /\ a = accept /\ q = r)
  <2>1. \A p \in Peer, q \in Request : Asked(p, q)' <=> Asked(p, q)
    BY <1>4 DEF Asked
  <2>2. \A p \in Peer, q \in Request : Announced(p, q)' <=> Announced(p, q)
    BY <1>7 DEF Alike, Invitations, Announced
  <2>3. \A p \in Peer, q \in Request : Opened(p, q)' <=> Opened(p, q)
    BY <1>4 DEF Opened
  <2>4. \A p \in Peer, a \in BOOLEAN, q \in Request :
          Answered(p, a, q) <=> Answered(p, a, q)' \/ (p = o /\ a = accept /\ q = r)
    BY <1>2, <1>5, RequestsDiffer DEF Answered
  <2> QED
    BY <2>1, <2>2, <2>3, <2>4
<1>9. /\ \A p \in Peer, q \in Request : Awaits(p, q)' => Awaits(p, q)
      /\ \A p \in Peer, q \in Request : p # o /\ Awaits(p, q) => Awaits(p, q)'
      /\ Awaits(o, r)
      /\ answers[r] = IF accept THEN "yes" ELSE "no"
  <2>1. Answered(o, accept, r)
    BY <1>8
  <2> QED
    BY <1>8, <2>1 DEF Awaits, RequestsKnown, AnswersSaid
<1>10. Counts'
  BY <1>4, <1>7 DEF RequestsKnown, Counts, Alike, Invitations
<1>11. OnePlace' /\ FirstAhead'
  BY <1>4, <1>8, FirstStays DEF RequestsKnown, OnePlace
<1>12. Upcoming' = Upcoming
  BY <1>4 DEF Upcoming
<1>13. Unanswered' /\ Unmade' /\ AnswersSaid' /\ AskedAlone'
  BY <1>4, <1>8, <1>9, <1>12 DEF RequestsKnown, Unanswered, Unmade, AnswersSaid, AskedAlone
<1>14. CASE UNCHANGED peers /\ (peers[o] = None \/ peers[o].pending = 0)
  <2>1. Waits' /\ OwnDialog' /\ Accepted'
    BY <1>4, <1>9, <1>14 DEF RequestsKnown, Waits, OwnDialog, Accepted
  <2> QED
    BY <1>10, <1>11, <1>13, <2>1 DEF RequestsKnown
<1>15. ASSUME NEW sent \in BOOLEAN, peers[o] \in PeerState, peers[o] # None,
              Responded(o, accept, sent) \in PeerState,
              peers' = [peers EXCEPT ![o] = Responded(o, accept, sent)]
       PROVE  RequestsKnown'
  <2> DEFINE state == Responded(o, accept, sent)
  <2>1. /\ state.pending = 0
        /\ state.receiving = IF sent /\ accept THEN peers[o].pending ELSE 0
    BY <1>15, RespondedType
  <2> HIDE DEF state
  <2>2. \A p \in Peer : peers'[p] = IF p = o THEN state ELSE peers[p]
    BY <1>6, <1>15, ListUpdated DEF state
  <2>3. Waits'
    BY <1>9, <2>1, <2>2 DEF RequestsKnown, Waits
  <2>4. OwnDialog'
    BY <1>4, <1>9, <2>1, <2>2, NoRequestZero DEF RequestsKnown, OwnDialog
  <2>5. state.receiving \in Request \ overlapped => answers[state.receiving] = "yes"
    <3> SUFFICES ASSUME state.receiving \in Request \ overlapped
                 PROVE  answers[state.receiving] = "yes"
      OBVIOUS
    <3>1. accept /\ state.receiving = peers[o].pending
      BY <2>1, NoRequestZero
    <3>2. r = peers[o].pending
      BY <1>9, <1>15, <3>1 DEF RequestsKnown, OwnDialog
    <3> QED
      BY <1>9, <3>1, <3>2
  <2>6. Accepted'
    BY <1>4, <2>2, <2>5 DEF RequestsKnown, Accepted
  <2> QED
    BY <1>10, <1>11, <1>13, <2>3, <2>4, <2>6 DEF RequestsKnown
<1> QED
  BY <1>3, <1>14, <1>15

\* A report becomes an event, and the request waits.
LEMMA RequestReceivedKeeps ==
  ASSUME TypeOK, RequestsKnown, HandleRtc, NEW o \in Peer, HandleNewRequest(o),
         reports[o] # <<>>, reports' = [reports EXCEPT ![o] = Tail(reports[o])]
  PROVE  RequestsKnown'
<1> DEFINE report == Head(reports[o])
<1>1. /\ reports[o] \in Seq(Report) /\ report \in Report /\ reports \in [Peer -> Seq(Report)]
      /\ Tail(reports[o]) \in Seq(Report)
  BY HeadAndTail DEF TypeOK
<1>2. PICK state \in PeerState :
        /\ o \in Known /\ peers' = [peers EXCEPT ![o] = state]
        /\ state.pending = report.request /\ state.receiving = peers[o].receiving
        /\ report.type = "Request" /\ report.request \in Request
        /\ events' = Append(events, Invitation(o, report.request))
  BY <1>1, RtcPeer DEF Invitation
<1>3. PICK r \in Request : r = report.request /\ report = Asking(r)
  BY <1>1, <1>2, RequestFields
<1>4. UNCHANGED <<dialogs, commands, answers, overlapped, budget>>
  BY RtcCases DEF window, requests
<1> HIDE DEF report
<1>5. /\ \A x : Has(reports[o], x) <=> Has(reports'[o], x) \/ x = report
      /\ \A x : AtMostOnce(reports[o], x) => AtMostOnce(reports'[o], x)
      /\ AtMostOnce(reports[o], report) => ~Has(reports'[o], report)
      /\ \A p \in Peer : p # o => reports'[p] = reports[p]
  BY <1>1, HasTail DEF report
<1>6. Invitation(o, r) \in Event /\ events \in Seq(Event)
  BY EventTypes DEF Invitation, TypeOK
<1>7. /\ \A x : Has(events', x) <=> Has(events, x) \/ x = Invitation(o, r)
      /\ \A x : AtMostOnce(events, x) /\ (x = Invitation(o, r) => ~Has(events, x)) =>
                AtMostOnce(events', x)
  BY <1>2, <1>3, <1>6, HasAppended
<1>8. \A p \in Peer : peers'[p] = IF p = o THEN state ELSE peers[p]
  BY <1>2, ListUpdated DEF TypeOK, List
<1>9. Asked(o, r) /\ ~Asked(o, r)'
  BY <1>3, <1>5 DEF Asked, RequestsKnown, Counts
<1>10. /\ \A p \in Peer, q \in Request : Asked(p, q) <=> Asked(p, q)' \/ (p = o /\ q = r)
       /\ \A p \in Peer, q \in Request :
            Announced(p, q)' <=> Announced(p, q) \/ (p = o /\ q = r)
       /\ \A p \in Peer, q \in Request : Opened(p, q)' <=> Opened(p, q)
       /\ \A p \in Peer, a \in BOOLEAN, q \in Request : Answered(p, a, q)' <=> Answered(p, a, q)
  <2>1. \A p \in Peer, q \in Request : Asked(p, q) <=> Asked(p, q)' \/ (p = o /\ q = r)
    BY <1>3, <1>5, RequestsDiffer DEF Asked
  <2>2. \A p \in Peer, q \in Request : Announced(p, q)' <=> Announced(p, q) \/ (p = o /\ q = r)
    BY <1>7, RequestsDiffer DEF Announced
  <2>3. \A p \in Peer, q \in Request : Opened(p, q)' <=> Opened(p, q)
    BY <1>4 DEF Opened
  <2>4. \A p \in Peer, a \in BOOLEAN, q \in Request : Answered(p, a, q)' <=> Answered(p, a, q)
    BY <1>4 DEF Answered
  <2> QED
    BY <2>1, <2>2, <2>3, <2>4
<1>11. \A p \in Peer, q \in Request : Awaits(p, q)' <=> Awaits(p, q) \/ (p = o /\ q = r)
  BY <1>10 DEF Awaits
<1>12. Counts'
  <2>1. \A p \in Peer, q \in Request : AtMostOnce(reports'[p], Asking(q))
    BY <1>5 DEF RequestsKnown, Counts
  <2>2. ~Has(events, Invitation(o, r))
    BY <1>9 DEF RequestsKnown, OnePlace, Announced
  <2>3. \A p \in Peer, q \in Request : AtMostOnce(events', Invitation(p, q))
    BY <1>7, <2>2 DEF RequestsKnown, Counts
  <2> QED
    BY <2>1, <2>3 DEF Counts
<1>13. OnePlace' /\ FirstAhead'
  <2>1. OnePlace'
    BY <1>9, <1>10 DEF RequestsKnown, OnePlace
  <2>2. \A p \in Peer : Behind(reports'[p], Askings, {Asking(q) : q \in overlapped})
    <3> SUFFICES ASSUME NEW p \in Peer
                 PROVE  Behind(reports'[p], Askings, {Asking(q) : q \in overlapped})
      OBVIOUS
    <3>1. Behind(reports[p], Askings, {Asking(q) : q \in overlapped})
      BY DEF RequestsKnown, FirstAhead
    <3>2. reports'[p] = IF p = o THEN Tail(reports[o]) ELSE reports[p]
      BY <1>1
    <3> QED
      BY <1>1, <3>1, <3>2, BehindTail
  <2>3. FirstAhead' = (\A p \in Peer : Behind(reports'[p], Askings, {Asking(q) : q \in overlapped'}))
    BY DEF FirstAhead, Behind, Askings, Asking, Request
  <2> QED
    BY <1>4, <2>1, <2>2, <2>3
<1>14. Upcoming' = Upcoming
  BY <1>4 DEF Upcoming
<1>15. Unanswered' /\ Unmade' /\ AnswersSaid'
  BY <1>4, <1>9, <1>10, <1>14 DEF RequestsKnown, Unanswered, Unmade, AnswersSaid
<1>16. Waits'
  BY <1>8, <1>11 DEF RequestsKnown, Waits
<1>17. OwnDialog'
  <2> SUFFICES ASSUME NEW p \in Peer, peers'[p] # None, peers'[p].pending \in Request \ overlapped,
                      NEW q \in Request, Awaits(p, q)'
               PROVE  q = peers'[p].pending
    BY <1>4 DEF OwnDialog
  <2>1. CASE p = o
    <3>1. peers'[p].pending = r
      BY <1>2, <1>3, <1>8, <2>1
    <3>2. ~Awaits(o, q)
      BY <1>9, <3>1 DEF RequestsKnown, AskedAlone
    <3> QED
      BY <1>11, <2>1, <3>1, <3>2
  <2>2. CASE p # o
    BY <1>8, <1>11, <2>2 DEF RequestsKnown, OwnDialog
  <2> QED
    BY <2>1, <2>2
<1>18. AskedAlone'
  <2> SUFFICES ASSUME NEW p \in Peer, NEW q \in Request \ overlapped, NEW t \in Request,
                      Asked(p, q)', Awaits(p, t)'
               PROVE  FALSE
    BY <1>4 DEF AskedAlone
  <2>1. Asked(p, q)
    BY <1>10
  <2>2. p # o
    <3> SUFFICES ASSUME p = o
                 PROVE  FALSE
      OBVIOUS
    <3>1. Asking(q) \in Askings /\ report \in Askings /\ Has(reports'[o], Asking(q))
      BY <1>3 DEF Askings, Asked
    <3>2. Behind(reports[o], Askings, {Asking(t1) : t1 \in overlapped})
      BY DEF RequestsKnown, FirstAhead
    <3>3. reports'[o] = Tail(reports[o])
      BY <1>1
    <3>4. Asking(q) \in {Asking(t1) : t1 \in overlapped}
      BY <1>1, <3>1, <3>2, <3>3, BehindTail DEF report
    <3> QED
      BY <3>4, RequestsDiffer
  <2> QED
    BY <1>11, <2>1, <2>2 DEF RequestsKnown, AskedAlone
<1>19. Accepted'
  BY <1>2, <1>4, <1>8 DEF RequestsKnown, Accepted, Known
<1> QED
  BY <1>12, <1>13, <1>15, <1>16, <1>17, <1>18, <1>19 DEF RequestsKnown

\* A device makes a new request, alone if nothing of an earlier one is outstanding.
LEMMA AsksKeeps ==
  ASSUME TypeOK, RequestsKnown, NEW o \in Peer, Asks(o)
  PROVE  RequestsKnown'
<1> DEFINE r == Upcoming
<1>1. /\ reports' = [reports EXCEPT ![o] = Append(reports[o], Asking(r))]
      /\ overlapped' = IF Outstanding(o) \/ Queued(o, "Request") THEN overlapped \union {r}
                       ELSE overlapped
      /\ UNCHANGED <<dialogs, events, commands, answers, peers>>
  BY DEF Asks, Happens, Asking, Upcoming, window, engine
<1>2. r \in Request /\ Upcoming' = r + 1 /\ r \in Nat
  <2>1. r \in Request
    BY ChannelTypes
  <2>2. budget'.requests = budget.requests - 1 /\ budget.requests \in Nat
    BY SpendType DEF Asks, TypeOK, Budget
  <2> QED
    BY <2>1, <2>2, BoundAssumption DEF Upcoming, Request
<1>3. Asking(r) \in Report /\ reports[o] \in Seq(Report) /\ reports \in [Peer -> Seq(Report)]
  BY <1>2, ReportTypes DEF Asking, TypeOK
<1>4. /\ \A x : Has(reports'[o], x) <=> Has(reports[o], x) \/ x = Asking(r)
      /\ \A x : AtMostOnce(reports[o], x) /\ (x = Asking(r) => ~Has(reports[o], x)) =>
                AtMostOnce(reports'[o], x)
      /\ \A p \in Peer : p # o => reports'[p] = reports[p]
  <2>1. \A p \in Peer : reports'[p] = IF p = o THEN Append(reports[o], Asking(r)) ELSE reports[p]
    BY <1>1, <1>3
  <2> HIDE DEF r
  <2> QED
    BY <1>3, <2>1, HasAppended
<1>5. \A q \in Request : Asked(o, q) => r \in overlapped'
  BY <1>1 DEF Asked, Has, Asking, Queued
<1>6. \A p \in Peer : ~Asked(p, r) /\ ~Announced(p, r) /\ ~Opened(p, r)
  BY <1>2 DEF RequestsKnown, Unanswered
<1>7. answers[r] = "none"
  BY <1>2 DEF RequestsKnown, Unmade
<1> HIDE DEF r
<1>9. /\ \A p \in Peer, q \in Request : Asked(p, q)' <=> Asked(p, q) \/ (p = o /\ q = r)
      /\ \A p \in Peer, q \in Request : Announced(p, q)' <=> Announced(p, q)
      /\ \A p \in Peer, q \in Request : Opened(p, q)' <=> Opened(p, q)
      /\ \A p \in Peer, a \in BOOLEAN, q \in Request : Answered(p, a, q)' <=> Answered(p, a, q)
  <2>1. \A p \in Peer, q \in Request : Asked(p, q)' <=> Asked(p, q) \/ (p = o /\ q = r)
    BY <1>4, RequestsDiffer DEF Asked
  <2>2. \A p \in Peer, q \in Request : Announced(p, q)' <=> Announced(p, q)
    BY <1>1 DEF Announced
  <2>3. \A p \in Peer, q \in Request : Opened(p, q)' <=> Opened(p, q)
    BY <1>1 DEF Opened
  <2>4. \A p \in Peer, a \in BOOLEAN, q \in Request : Answered(p, a, q)' <=> Answered(p, a, q)
    BY <1>1 DEF Answered
  <2> QED
    BY <2>1, <2>2, <2>3, <2>4
<1>10. \A p \in Peer, q \in Request : Awaits(p, q)' <=> Awaits(p, q)
  BY <1>9 DEF Awaits
<1>11. Counts'
  <2>1. ~Has(reports[o], Asking(r))
    BY <1>6 DEF Asked
  <2>2. \A p \in Peer, q \in Request : AtMostOnce(reports'[p], Asking(q))
    BY <1>4, <2>1 DEF RequestsKnown, Counts
  <2> QED
    BY <1>1, <2>2 DEF RequestsKnown, Counts
<1>12. OnePlace'
  BY <1>6, <1>9 DEF RequestsKnown, OnePlace
<1>13. FirstAhead'
  <2> DEFINE X == {Asking(q) : q \in overlapped'}
  <2>1. \A p \in Peer : Behind(reports[p], Askings, X)
    <3>1. {Asking(q) : q \in overlapped} \subseteq X
      BY <1>1
    <3> QED
      BY <3>1 DEF RequestsKnown, FirstAhead, Behind
  <2>2. r \in overlapped' \/ \A y \in Askings : ~Has(reports[o], y)
    BY <1>5 DEF Asked, Askings
  <2>3. r \in overlapped' => Asking(r) \in X
    OBVIOUS
  <2> HIDE DEF X
  <2>4. Behind(Append(reports[o], Asking(r)), Askings, X)
    BY <1>3, <2>1, <2>2, <2>3, BehindAppended
  <2>5. \A p \in Peer : Behind(reports'[p], Askings, X)
    <3>1. \A p \in Peer : reports'[p] = IF p = o THEN Append(reports[o], Asking(r)) ELSE reports[p]
      BY <1>1, <1>3
    <3> QED
      BY <2>1, <2>4, <3>1
  <2>6. FirstAhead' = (\A p \in Peer : Behind(reports'[p], Askings, {Asking(q) : q \in overlapped'}))
    BY DEF FirstAhead, Behind, Askings, Asking, Request
  <2> QED
    BY <2>5, <2>6 DEF X
<1>14. Unanswered' /\ Unmade' /\ AnswersSaid'
  <2>1. \A q \in Request : q < Upcoming => q < Upcoming'
    BY <1>2 DEF Request, r
  <2>2. r < Upcoming'
    BY <1>2
  <2>3. Unanswered'
    BY <1>1, <1>7, <1>9, <2>1, <2>2 DEF RequestsKnown, Unanswered
  <2>4. Unmade' /\ AnswersSaid'
    BY <1>1, <1>9, <2>1 DEF RequestsKnown, Unmade, AnswersSaid
  <2> QED
    BY <2>3, <2>4
<1>15. Waits' /\ OwnDialog' /\ Accepted'
  <2>1. Waits'
    BY <1>1, <1>10 DEF RequestsKnown, Waits
  <2>2. overlapped \subseteq overlapped'
    BY <1>1
  <2>3. OwnDialog' /\ Accepted'
    BY <1>1, <1>10, <2>2 DEF RequestsKnown, OwnDialog, Accepted
  <2> QED
    BY <2>1, <2>3
<1>16. AskedAlone'
  <2> SUFFICES ASSUME NEW p \in Peer, NEW q \in Request, q \notin overlapped', NEW t \in Request,
                      Asked(p, q)', Awaits(p, t)'
               PROVE  FALSE
    BY DEF AskedAlone
  <2>1. Awaits(p, t)
    BY <1>10
  <2>2. CASE p = o /\ q = r
    <3>1. Outstanding(o)
      BY <2>1, <2>2, OutstandingAwaits
    <3> QED
      BY <1>1, <2>2, <3>1
  <2>3. CASE Asked(p, q)
    <3>1. q \notin overlapped
      BY <1>1
    <3> QED
      BY <2>1, <2>3, <3>1 DEF RequestsKnown, AskedAlone
  <2> QED
    BY <1>9, <2>2, <2>3
<1> QED
  BY <1>11, <1>12, <1>13, <1>14, <1>15, <1>16 DEF RequestsKnown

\* Every other step is one that passes.
LEMMA ReportsPass ==
  ASSUME TypeOK
  PROVE  /\ UNCHANGED reports => \A p \in Peer : Milder(reports'[p], reports[p], Askings)
         /\ \A o \in Peer, x \in Report : x.type # "Request" /\
                reports' = [reports EXCEPT ![o] = Append(reports[o], x)] =>
              \A p \in Peer : Milder(reports'[p], reports[p], Askings)
         /\ \A o \in Peer : reports[o] # <<>> /\
                reports' = [reports EXCEPT ![o] = Tail(reports[o])] =>
              \A p \in Peer : Milder(reports'[p], reports[p], Askings)
<1>1. reports \in [Peer -> Seq(Report)]
  BY DEF TypeOK
<1>2. \A p \in Peer : Milder(reports[p], reports[p], Askings)
  BY AlikeMilder
<1>3. ASSUME NEW p \in Peer, NEW x \in Report, x.type # "Request"
      PROVE  Milder(Append(reports[p], x), reports[p], Askings)
  <2>1. reports[p] \in Seq(Report) /\ x \notin Askings
    BY <1>1, <1>3, RequestFields
  <2> QED
    BY <2>1, MilderAppended
<1>5. ASSUME NEW o \in Peer, NEW x \in Report, x.type # "Request",
             reports' = [reports EXCEPT ![o] = Append(reports[o], x)], NEW p \in Peer
      PROVE  Milder(reports'[p], reports[p], Askings)
  <2>1. reports'[p] = IF p = o THEN Append(reports[o], x) ELSE reports[p]
    BY <1>1, <1>5
  <2> QED
    BY <1>2, <1>3, <1>5, <2>1
<1>6. ASSUME NEW o \in Peer, reports[o] # <<>>,
             reports' = [reports EXCEPT ![o] = Tail(reports[o])], NEW p \in Peer
      PROVE  Milder(reports'[p], reports[p], Askings)
  <2>1. reports'[p] = IF p = o THEN Tail(reports[o]) ELSE reports[p]
    BY <1>1, <1>6
  <2>2. Milder(Tail(reports[o]), reports[o], Askings)
    BY <1>1, <1>6, MilderTail
  <2> QED
    BY <1>2, <2>1, <2>2
<1> QED
  BY <1>2, <1>5, <1>6

LEMMA EventsPass ==
  ASSUME TypeOK
  PROVE  /\ Alike(events, events, Invitations)
         /\ \A x \in Event : x.type # "IncomingRequest" => Alike(Append(events, x), events, Invitations)
         /\ \A x, y \in Event : x.type # "IncomingRequest" /\ y.type # "IncomingRequest" =>
              Alike(Append(Append(events, x), y), events, Invitations)
         /\ events # <<>> /\ Head(events).type # "IncomingRequest" =>
              Alike(Tail(events), events, Invitations)
<1>1. events \in Seq(Event)
  BY DEF TypeOK
<1>2. Alike(events, events, Invitations)
  BY AlikeMilder
<1>3. ASSUME NEW x \in Event, x.type # "IncomingRequest"
      PROVE  Alike(Append(events, x), events, Invitations)
  BY <1>1, <1>3, RequestFields, AlikeAppended
<1>4. ASSUME NEW x \in Event, NEW y \in Event,
             x.type # "IncomingRequest", y.type # "IncomingRequest"
      PROVE  Alike(Append(Append(events, x), y), events, Invitations)
  <2> DEFINE longer == Append(events, x)
  <2>1. longer \in Seq(Event) /\ y \notin Invitations /\ Alike(longer, events, Invitations)
    BY <1>1, <1>3, <1>4, Appended, RequestFields
  <2> HIDE DEF longer
  <2>2. Alike(Append(longer, y), longer, Invitations)
    BY <2>1, AlikeAppended
  <2>3. Alike(Append(longer, y), events, Invitations)
    BY <2>1, <2>2, AlikeTwice
  <2> QED
    BY <2>3 DEF longer
<1>5. ASSUME events # <<>>, Head(events).type # "IncomingRequest"
      PROVE  Alike(Tail(events), events, Invitations)
  BY <1>1, <1>5, RequestFields, AlikeTail
<1> QED
  BY <1>2, <1>3, <1>4, <1>5

LEMMA PeersPass ==
  ASSUME TypeOK
  PROVE  /\ UNCHANGED peers => PeersForget
         /\ peers' = NoPeers => PeersForget
         /\ \A o : peers' = [peers EXCEPT ![o] = None] => PeersForget
         /\ \A some : Dial(some) => PeersForget
         /\ \A o \in Peer, state \in PeerState :
              peers[o] # None /\ peers' = [peers EXCEPT ![o] = state] /\
                state.pending \in {0, peers[o].pending} /\ state.receiving \in {0, peers[o].receiving} =>
              PeersForget
<1>1. peers \in List
  BY DEF TypeOK, List
<1>2. UNCHANGED peers \/ peers' = NoPeers => PeersForget
  BY DEF PeersForget, NoPeers
<1>3. ASSUME NEW o, peers' = [peers EXCEPT ![o] = None]
      PROVE  PeersForget
  <2>1. \A p \in Peer : peers'[p] = None \/ peers'[p] = peers[p]
    BY <1>1, <1>3 DEF List
  <2> QED
    BY <2>1 DEF PeersForget
<1>4. ASSUME NEW some, Dial(some)
      PROVE  PeersForget
  <2>1. peers' = [p \in Peer |-> IF p \in some \ Known THEN NewPeer ELSE peers[p]]
    BY <1>4 DEF Dial
  <2>2. NewPeer.pending = 0 /\ NewPeer.receiving = 0
    BY NewPeerType DEF TypeOK
  <2>3. \A p \in Peer : peers'[p] = NewPeer \/ peers'[p] = peers[p]
    BY <2>1
  <2> QED
    BY <2>2, <2>3 DEF PeersForget
<1>5. ASSUME NEW o \in Peer, NEW state \in PeerState,
             peers[o] # None, peers' = [peers EXCEPT ![o] = state],
             state.pending \in {0, peers[o].pending}, state.receiving \in {0, peers[o].receiving}
      PROVE  PeersForget
  <2>1. \A p \in Peer : peers'[p] = IF p = o THEN state ELSE peers[p]
    BY <1>1, <1>5, ListUpdated
  <2> QED
    BY <1>5, <2>1 DEF PeersForget
<1> QED
  BY <1>2, <1>3, <1>4, <1>5

\* The parts of a step that passes, one to prove at a time.
LEMMA PassesBy ==
  ASSUME TypeOK, Alike(events', events, Invitations),
         commands' = commands \/ (/\ commands # <<>> /\ commands' = Tail(commands)
                                  /\ Head(commands).type # "RespondToRequest"),
         \A p \in Peer : Milder(reports'[p], reports[p], Askings),
         UNCHANGED <<dialogs, answers, overlapped>>, budget'.requests = budget.requests, PeersForget
  PROVE  Passes
<1>1. Alike(commands', commands, Replies)
  <2>1. commands \in Seq(Command)
    BY DEF TypeOK
  <2>2. CASE commands' = commands
    BY <2>2, AlikeMilder
  <2>3. CASE commands # <<>> /\ commands' = Tail(commands) /\ Head(commands).type # "RespondToRequest"
    <3>1. Head(commands) \notin Replies
      BY <2>3, RequestFields
    <3> QED
      BY <2>1, <2>3, <3>1, AlikeTail
  <2> QED
    BY <2>2, <2>3
<1> QED
  BY <1>1 DEF Passes

LEMMA WindowPasses ==
  ASSUME TypeOK, ShowConnection \/ UpdatePeers
  PROVE  Passes
<1>1. /\ events # <<>> /\ events' = Tail(events) /\ Head(events).type # "IncomingRequest"
      /\ UNCHANGED <<dialogs, commands, peers, reports, answers, overlapped, budget>>
  BY DEF ShowConnection, UpdatePeers, Applies, Applied, engine, world, closed, requests
<1>2. Alike(events', events, Invitations)
  BY <1>1, EventsPass
<1> QED
  BY <1>1, <1>2, ReportsPass, PeersPass, PassesBy

LEMMA ClosePreferencesPasses ==
  ASSUME TypeOK, NEW updated \in Settings, NEW saved \in BOOLEAN, ClosePreferences(updated, saved)
  PROVE  Passes
<1>1. /\ commands' = Append(commands, ConnectTo(updated)) /\ Spend("settings")
      /\ UNCHANGED <<dialogs, events, peers, reports, answers, overlapped>>
  BY DEF ClosePreferences, ConnectTo, engine, world, closed, requests
<1>2. ConnectTo(updated) \in Command /\ ConnectTo(updated) \notin Replies
  BY CommandTypes, RequestFields DEF ConnectTo
<1>3. Alike(commands', commands, Replies)
  BY <1>1, <1>2, AlikeAppended DEF TypeOK
<1>4. budget'.requests = budget.requests
  BY <1>1, SpendType
<1>5. Alike(events', events, Invitations)
  BY <1>1, EventsPass
<1> QED
  BY <1>1, <1>3, <1>4, <1>5, ReportsPass, PeersPass DEF Passes

LEMMA ConnectPasses ==
  ASSUME TypeOK, HandleConnect
  PROVE  Passes
<1> DEFINE new == Head(commands).settings
           gone == PeersEvent(NoPeers)
<1>1. /\ commands # <<>> /\ Head(commands).type = "Connect" /\ commands' = Tail(commands)
      /\ UNCHANGED reports /\ peers' = NoPeers
      /\ events' = Append(events, gone) \o Refusal(new.server)
      /\ UNCHANGED <<dialogs, answers, overlapped, budget>>
  BY DEF HandleConnect, Takes, Taken, window, requests
<1>2. gone \in Event /\ gone.type # "IncomingRequest"
  BY EventTypes, NoPeersType DEF PeersEvent
<1>3. /\ ConnectionState("NotConfigured") \in Event /\ ConnectionState("Failed") \in Event
      /\ \A state : ConnectionState(state).type # "IncomingRequest"
  BY EventTypes DEF Shown, ConnectionState
<1> HIDE DEF gone, new
<1>4. PICK refusal : refusal = Refusal(new.server)
  OBVIOUS
<1>5. Append(events, gone) \in Seq(Event)
  BY <1>2, Appended DEF TypeOK
<1>6. \/ Append(events, gone) \o refusal = Append(events, gone)
      \/ \E x \in Event : /\ x.type # "IncomingRequest"
                         /\ Append(events, gone) \o refusal = Append(Append(events, gone), x)
  <2> DEFINE longer == Append(events, gone)
  <2> HIDE DEF longer
  <2>1. /\ longer \o <<>> = longer
        /\ \A x \in Event : longer \o <<x>> = Append(longer, x)
    BY <1>5, Concats DEF longer
  <2>2. \/ refusal = <<>>
        \/ \E x \in Event : x.type # "IncomingRequest" /\ refusal = <<x>>
    BY <1>3, <1>4, RefusalType
  <2>3. \/ longer \o refusal = longer
        \/ \E x \in Event : x.type # "IncomingRequest" /\ longer \o refusal = Append(longer, x)
    BY <2>1, <2>2
  <2> QED
    BY <2>3 DEF longer
<1>7. Alike(events', events, Invitations)
  BY <1>1, <1>2, <1>4, <1>6, EventsPass
<1> QED
  BY <1>1, <1>7, ReportsPass, PeersPass, PassesBy

LEMMA SignalingPasses ==
  ASSUME TypeOK, HandleSignaling
  PROVE  Passes
<1>1. UNCHANGED <<dialogs, commands, answers, overlapped, budget>>
  BY DEF HandleSignaling, HandleState, HandleIdentity, HandlePeers, HandlePeerLeft, window, requests
<1>2. \A state : ConnectionState(state).type # "IncomingRequest"
  BY DEF ConnectionState
<1>3. ASSUME NEW state \in {"Connecting", "Connected", "Failed", "Closed"}, HandleStateShown(state)
      PROVE  Passes
  <2>1. PICK shown \in Shown : events' = Append(events, ConnectionState(shown))
    BY <1>3 DEF HandleStateShown, Shown
  <2>2. Alike(events', events, Invitations)
    BY <1>2, <2>1, EventTypes, EventsPass
  <2>3. UNCHANGED <<peers, reports>>
    BY <1>3 DEF HandleStateShown, world, closed
  <2> QED
    BY <1>1, <2>2, <2>3, ReportsPass, PeersPass, PassesBy
<1>4. CASE HandleWaitingToRetry
  <2> DEFINE gone == PeersEvent(NoPeers)
             retrying == ConnectionState("Retrying")
  <2>1. peers' = NoPeers /\ UNCHANGED reports /\ events' = events \o <<gone, retrying>>
    BY <1>4 DEF HandleWaitingToRetry
  <2>2. /\ gone \in Event /\ gone.type # "IncomingRequest"
        /\ retrying \in Event /\ retrying.type # "IncomingRequest"
    BY <1>2, EventTypes, NoPeersType DEF PeersEvent, Shown
  <2> HIDE DEF gone, retrying
  <2>3. events' = Append(Append(events, gone), retrying)
    BY <2>1, <2>2, Concats DEF TypeOK
  <2>4. Alike(events', events, Invitations)
    BY <2>2, <2>3, EventsPass
  <2> QED
    BY <1>1, <2>1, <2>4, ReportsPass, PeersPass, PassesBy
<1>5. CASE HandleIdentity
  <2>1. UNCHANGED <<events, peers, reports>>
    BY <1>5 DEF HandleIdentity, world, closed
  <2>2. Alike(events', events, Invitations)
    BY <2>1, EventsPass
  <2> QED
    BY <1>1, <2>1, <2>2, ReportsPass, PeersPass, PassesBy
<1>6. CASE HandlePeers \/ HandlePeerLeft
  <2>1. events' = Append(events, PeersEvent(ViewsOf(peers')))
    BY <1>6 DEF HandlePeers, HandlePeerLeft, Dial
  <2>2. TypeOK'
    BY <1>6, HandlePeersTypes, HandlePeerLeftTypes
  <2>3. /\ PeersEvent(ViewsOf(peers')) \in Event
        /\ PeersEvent(ViewsOf(peers')).type # "IncomingRequest"
    BY <2>2, ViewsType, EventTypes DEF TypeOK, List, PeersEvent
  <2>4. Alike(events', events, Invitations)
    BY <2>1, <2>3, EventsPass
  <2>5. PeersForget /\ \A p \in Peer : Milder(reports'[p], reports[p], Askings)
    BY <1>6, ReportsPass, PeersPass DEF HandlePeers, HandlePeerLeft
  <2> QED
    BY <1>1, <2>4, <2>5, PassesBy
<1> QED
  BY <1>3, <1>4, <1>5, <1>6, HandleStateCases DEF HandleSignaling

LEMMA RtcPasses ==
  ASSUME TypeOK, HandleRtc, NEW o \in Peer,
         reports[o] # <<>>, reports' = [reports EXCEPT ![o] = Tail(reports[o])],
         HandleOpen(o) \/ HandleReceived(o) \/ HandleGone(o) \/ HandleIgnored(o)
  PROVE  Passes
<1>1. UNCHANGED <<dialogs, commands, answers, overlapped, budget>>
  BY RtcCases DEF window, requests
<1>2. \A p \in Peer : Milder(reports'[p], reports[p], Askings)
  BY ReportsPass
<1>3. Head(reports[o]) \in Report
  BY HeadAndTail DEF TypeOK
<1>4. PeersForget /\ (Publishes \/ UNCHANGED events)
  <2>1. CASE HandleIgnored(o)
    BY <2>1, PeersPass DEF HandleIgnored, Publishes
  <2>2. CASE HandleOpen(o) \/ HandleReceived(o) \/ HandleGone(o)
    <3>1. ~HandleNewRequest(o)
      BY <2>2 DEF HandleOpen, HandleReceived, HandleGone, HandleNewRequest, Reported
    <3>2. PICK state \in PeerState :
            /\ o \in Known /\ peers' = [peers EXCEPT ![o] = state]
            /\ state.pending \in {0, peers[o].pending} /\ state.receiving \in {0, peers[o].receiving}
            /\ Publishes
      BY <1>3, <2>2, <3>1, RtcPeer
    <3> QED
      BY <3>2, PeersPass DEF Known
  <2> QED
    BY <2>1, <2>2
<1>5. Alike(events', events, Invitations)
  <2>1. TypeOK'
    BY RtcTypes
  <2>2. /\ PeersEvent(ViewsOf(peers')) \in Event
        /\ PeersEvent(ViewsOf(peers')).type # "IncomingRequest"
    BY <2>1, ViewsType, EventTypes DEF TypeOK, List, PeersEvent
  <2> QED
    BY <1>4, <2>2, EventsPass DEF Publishes
<1> QED
  BY <1>1, <1>2, <1>4, <1>5, PassesBy

LEMMA WorldPasses ==
  ASSUME TypeOK,
         \/ Task \/ TaskDrops
         \/ \E p \in Peer : Come(p) \/ Go(p) \/ ChannelOpens(p) \/ ChannelEnds(p) \/ ClosesLate(p) \/ SendsAll(p)
  PROVE  Passes
<1>1. /\ UNCHANGED <<dialogs, commands, events, peers, answers, overlapped>>
      /\ \A p \in Peer : Milder(reports'[p], reports[p], Askings)
      /\ budget' = budget \/ Spend("drops") \/ Spend("moves")
  <2>1. CASE Task \/ TaskDrops
    BY <2>1, ReportsPass
       DEF Task, TaskConnects, TaskDrops, TaskFails, TaskRetries, TaskEnds, window, world, closed, requests
  <2>2. ASSUME NEW p \in Peer, Come(p) \/ Go(p)
        PROVE  /\ UNCHANGED <<dialogs, commands, events, peers, answers, overlapped>>
               /\ \A o \in Peer : Milder(reports'[o], reports[o], Askings)
               /\ budget' = budget \/ Spend("drops") \/ Spend("moves")
    BY <2>2, ReportsPass DEF Come, Go, window, requests
  <2>3. ASSUME NEW p \in Peer, ChannelOpens(p) \/ ChannelEnds(p) \/ ClosesLate(p) \/ SendsAll(p)
        PROVE  /\ UNCHANGED <<dialogs, commands, events, peers, answers, overlapped>>
               /\ \A o \in Peer : Milder(reports'[o], reports[o], Askings)
               /\ budget' = budget \/ Spend("drops") \/ Spend("moves")
    <3>1. PICK x \in {[type |-> "Open"], [type |-> "Closed"], [type |-> "Received"]} :
            /\ reports' = [reports EXCEPT ![p] = Append(reports[p], x)]
            /\ UNCHANGED <<window, commands, events, engine, requests, budget>>
      BY <2>3 DEF ChannelOpens, ChannelEnds, ClosesLate, SendsAll, Happens
    <3>2. x \in Report /\ x.type # "Request"
      BY ReportTypes
    <3> QED
      BY <3>1, <3>2, ReportsPass DEF window, engine, requests
  <2> QED
    BY <2>1, <2>2, <2>3
<1>2. budget'.requests = budget.requests
  BY <1>1, SpendType
<1>3. Alike(events', events, Invitations)
  BY <1>1, EventsPass
<1> QED
  BY <1>1, <1>2, <1>3, PeersPass, PassesBy

LEMMA RequestsStep ==
  ASSUME TypeOK, RequestsKnown, [Next]_vars
  PROVE  RequestsKnown'
<1>1. CASE UNCHANGED vars
  <2>1. UNCHANGED <<dialogs, commands, events, peers, reports, answers, overlapped, budget>>
    BY <1>1 DEF vars, window, engine, world, closed, requests
  <2>2. Passes
    BY <2>1, EventsPass, ReportsPass, PeersPass, PassesBy
  <2> QED
    BY <2>2, PassesKeeps
<1>2. CASE Ui
  BY <1>2, AskAboutRequestKeeps, WindowPasses, PassesKeeps DEF Ui
<1>3. CASE User
  BY <1>3, AnswerKeeps, ClosePreferencesPasses, PassesKeeps DEF User
<1>4. CASE EngineThread
  <2>1. CASE HandleConnect \/ HandleSignaling
    BY <2>1, ConnectPasses, SignalingPasses, PassesKeeps
  <2>2. CASE HandleRespondToRequest
    BY <2>2, RespondKeeps
  <2>3. CASE HandleRtc
    <3>1. PICK p \in Peer :
            /\ reports[p] # <<>> /\ reports' = [reports EXCEPT ![p] = Tail(reports[p])]
            /\ \/ HandleOpen(p) \/ HandleNewRequest(p) \/ HandleReceived(p)
               \/ HandleGone(p) \/ HandleIgnored(p)
      BY <2>3, RtcCases
    <3> QED
      BY <2>3, <3>1, RequestReceivedKeeps, RtcPasses, PassesKeeps
  <2> QED
    BY <1>4, <2>1, <2>2, <2>3 DEF EngineThread
<1>5. CASE Task \/ Channels \/ Environment
  <2>1. CASE \E p \in Peer : Asks(p)
    BY <2>1, AsksKeeps
  <2>2. CASE User
    BY <1>3, <2>2
  <2>3. CASE \/ Task \/ TaskDrops
             \/ \E p \in Peer : Come(p) \/ Go(p) \/ ChannelOpens(p) \/ ChannelEnds(p) \/ ClosesLate(p) \/ SendsAll(p)
    BY <2>3, WorldPasses, PassesKeeps
  <2> QED
    BY <1>5, <2>1, <2>2, <2>3 DEF Channels, Environment
<1> QED
  BY <1>1, <1>2, <1>4, <1>5 DEF Next

LEMMA InitRequests == Init => RequestsKnown
<1> SUFFICES ASSUME Init
             PROVE  RequestsKnown
  OBVIOUS
<1>1. /\ peers = [p \in Peer |-> None] /\ dialogs = {} /\ commands = <<>>
      /\ reports = [p \in Peer |-> <<>>] /\ answers = [q \in Request |-> "none"]
  BY DEF Init, NoPeers
<1>2. \A x \in Invitations : ~Has(events, x) /\ AtMostOnce(events, x)
  <2>1. \A i \in DOMAIN events : events[i].type = "Connection"
    <3>1. \/ events = <<>>
          \/ events = <<ConnectionState("NotConfigured")>>
          \/ events = <<ConnectionState("Failed")>>
      BY RefusalType DEF Init
    <3> QED
      BY <3>1 DEF ConnectionState
  <2> QED
    BY <2>1, RequestFields DEF Has, AtMostOnce
<1>3. /\ \A p \in Peer, q \in Request : ~Asked(p, q) /\ ~Announced(p, q) /\ ~Opened(p, q)
      /\ \A p \in Peer, a \in BOOLEAN, q \in Request : ~Answered(p, a, q)
      /\ \A p \in Peer, q \in Request : AtMostOnce(reports[p], Asking(q))
  <2>1. \A p \in Peer, q \in Request : ~Asked(p, q) /\ AtMostOnce(reports[p], Asking(q))
    BY <1>1, HasEmpty DEF Asked
  <2>2. \A p \in Peer, q \in Request : ~Announced(p, q) /\ ~Opened(p, q)
    BY <1>1, <1>2 DEF Announced, Invitations, Opened
  <2>3. \A p \in Peer, a \in BOOLEAN, q \in Request : ~Answered(p, a, q)
    BY <1>1, HasEmpty DEF Answered
  <2> QED
    BY <2>1, <2>2, <2>3
<1>4. Counts
  BY <1>2, <1>3 DEF Counts, Invitations
<1>5. OnePlace /\ FirstAhead /\ Unanswered /\ Unmade /\ AnswersSaid /\ AskedAlone
  BY <1>1, <1>3 DEF OnePlace, FirstAhead, Behind, Unanswered, Unmade, AnswersSaid, AskedAlone
<1>6. Waits /\ OwnDialog /\ Accepted
  BY <1>1 DEF Waits, OwnDialog, Accepted
<1> QED
  BY <1>4, <1>5, <1>6 DEF RequestsKnown

LEMMA RequestsFollow == TypeOK /\ RequestsKnown => RequestsCanBeAnswered /\ ReceivesWhatWasAccepted
<1> SUFFICES ASSUME TypeOK, RequestsKnown
             PROVE  RequestsCanBeAnswered /\ ReceivesWhatWasAccepted
  OBVIOUS
<1>1. RequestsCanBeAnswered
  BY OutstandingAwaits DEF RequestsKnown, Waits, RequestsCanBeAnswered, Known
<1>2. ReceivesWhatWasAccepted
  BY DEF RequestsKnown, Accepted, ReceivesWhatWasAccepted, Known
<1> QED
  BY <1>1, <1>2

\* No device waits for ever with a request that nobody is asked about: handle_rtc keeps the
\* request and asks the window in one step, and only the answer takes the dialog away.
THEOREM Answerable == Spec => []RequestsCanBeAnswered
<1>1. TypeOK /\ RequestsKnown /\ [Next]_vars => TypeOK' /\ RequestsKnown'
  BY StepTypes, RequestsStep
<1> QED
  BY InitTypes, InitRequests, <1>1, RequestsFollow, PTL DEF Spec

\* "Incoming transfers prompt before anything touches the disk": what a device sends is
\* received only for a request that the user said yes to in the dialog of that request,
\* unless it was made while another of that device was outstanding.
THEOREM AcceptedFirst == Spec => []ReceivesWhatWasAccepted
<1>1. TypeOK /\ RequestsKnown /\ [Next]_vars => TypeOK' /\ RequestsKnown'
  BY StepTypes, RequestsStep
<1> QED
  BY InitTypes, InitRequests, <1>1, RequestsFollow, PTL DEF Spec

-----------------------------------------------------------------------------
(* The banner: the last thing the task said of its connection is what the  *)
(* connection is; once it is read, the last event of its kind shows that,  *)
(* and once that is applied the banner does.                               *)

Statuses == {event \in Event : event.type = "Connection"}

Showing(X) ==
  \/ Silent(events, Statuses) /\ banner \in X
  \/ EndsWith(events, Statuses, {ConnectionState(x) : x \in X})

Off == {"NotConfigured", "Failed"}

Links == {"connecting", "connected", "waiting", "failed", "ended"}

Over == {"failed", "ended"}

Told(link) ==
  CASE link = "connecting" -> "Connecting" [] link = "connected" -> "Connected"
    [] link = "waiting" -> "WaitingToRetry" [] link = "failed" -> "Failed"
    [] link = "ended" -> "Closed"

Expected(link) ==
  CASE link = "connecting" -> {"Connecting"} [] link = "connected" -> {"Connected"}
    [] link = "waiting" -> {"Retrying"} [] link = "failed" -> {"Failed"}
    [] link = "ended" -> Off

Said == {"Connecting", "Connected", "WaitingToRetry", "Failed", "Closed"}
Says == {[type |-> type] : type \in Said}

Heard(connection) == EndsWith(connection.inbox, Says, {[type |-> Told(connection.link)]})

Shows(link) ==
  /\ signaling => Showing(Expected(link))
  /\ link \in Over => Showing(Off)

BannerKnown ==
  /\ signaling => receiver # None /\ receiver.link # "ended"
  /\ receiver = None => Showing(Off)
  /\ \A link \in Links : receiver # None /\ receiver.link = link =>
       \/ Heard(receiver)
       \/ Silent(receiver.inbox, Says) /\ Shows(link)

LEMMA SaidOrNot ==
  /\ \A x : x.type \notin Said => x \notin Says
  /\ \A type \in Said : [type |-> type] \in Says /\ [type |-> type] \in SignalingEvent
  /\ \A link \in Links : Told(link) \in Said
<1>1. \A x : x.type \notin Said => x \notin Says
  BY DEF Says
<1>2. \A type \in Said : [type |-> type] \in Says /\ [type |-> type] \in SignalingEvent
  BY SignalingTypes DEF Says, Said
<1>3. \A link \in Links : Told(link) \in Said
  BY DEF Links, Told, Said
<1> QED
  BY <1>1, <1>2, <1>3

\* What is shown, or about to be, goes on being so.
ShowsOn == \A X : Showing(X) => Showing(X)'

LEMMA ShowsOnBy ==
  ASSUME TypeOK, banner' = banner,
         events' = events \/ \E x \in Event : x.type # "Connection" /\ events' = Append(events, x)
  PROVE  ShowsOn
<1> SUFFICES ASSUME NEW X, Showing(X)
             PROVE  Showing(X)'
  BY DEF ShowsOn
<1> DEFINE States == {ConnectionState(x) : x \in X}
<1>1. Showing(X)' = (\/ Silent(events', Statuses) /\ banner \in X
                     \/ EndsWith(events', Statuses, States))
  BY DEF Showing, Silent, EndsWith, Statuses, Event, Shown, ConnectionState, Request
<1>2. CASE events' = events
  BY <1>1, <1>2 DEF Showing
<1>3. ASSUME NEW x \in Event, x.type # "Connection", events' = Append(events, x)
      PROVE  Showing(X)'
  <2>1. events \in Seq(Event) /\ x \notin Statuses
    BY <1>3 DEF TypeOK, Statuses
  <2> HIDE DEF States
  <2>2. /\ Silent(events, Statuses) => Silent(events', Statuses)
        /\ EndsWith(events, Statuses, States) => EndsWith(events', Statuses, States)
    BY <1>3, <2>1, QueueAppend
  <2> QED
    BY <1>1, <2>2 DEF Showing, States
<1> QED
  BY <1>2, <1>3

LEMMA ShowsOnUi ==
  ASSUME TypeOK, Ui
  PROVE  ShowsOn
<1> SUFFICES ASSUME NEW X, Showing(X)
             PROVE  Showing(X)'
  BY DEF ShowsOn
<1> DEFINE States == {ConnectionState(x) : x \in X}
           event == Head(events)
<1>1. events # <<>> /\ events' = Tail(events) /\ events \in Seq(Event)
  BY DEF Ui, ShowConnection, UpdatePeers, AskAboutRequest, Applies, Applied, TypeOK
<1>2. event \in Event /\ event = events[1] /\ 1 \in DOMAIN events
  BY <1>1, HeadAndTail
<1>3. Showing(X)' = (\/ Silent(events', Statuses) /\ banner' \in X
                     \/ EndsWith(events', Statuses, States))
  BY DEF Showing, Silent, EndsWith, Statuses, Event, Shown, ConnectionState, Request
<1>4. /\ Silent(events, Statuses) => Silent(events', Statuses) /\ event \notin Statuses
      /\ EndsWith(events, Statuses, States) =>
           EndsWith(events', Statuses, States) \/ (event \in States /\ Silent(events', Statuses))
  <2>1. Silent(events, Statuses) => event \notin Statuses
    BY <1>2 DEF Silent
  <2> HIDE DEF States
  <2> QED
    BY <1>1, <2>1, QueueTail
<1>5. CASE ShowConnection
  <2>1. event.type = "Connection" /\ banner' = event.state
    BY <1>5 DEF ShowConnection, Applies
  <2>2. event \in Statuses
    BY <1>2, <2>1 DEF Statuses
  <2>3. event \in States => banner' \in X
    <3>1. \A x : ConnectionState(x).state = x
      BY DEF ConnectionState
    <3> QED
      BY <2>1, <3>1, Zenon
  <2> QED
    BY <1>3, <1>4, <2>2, <2>3 DEF Showing
<1>6. CASE UpdatePeers \/ AskAboutRequest
  <2>1. event.type # "Connection" /\ banner' = banner
    BY <1>6 DEF UpdatePeers, AskAboutRequest, Applies
  <2>2. event \notin States
    <3>1. \A x : ConnectionState(x).type = "Connection"
      BY DEF ConnectionState
    <3> QED
      BY <2>1, <3>1, Zenon
  <2> QED
    BY <1>3, <1>4, <2>1, <2>2 DEF Showing
<1> QED
  BY <1>5, <1>6 DEF Ui

LEMMA ShowsNew ==
  ASSUME NEW X, NEW queue \in Seq(Event), NEW state \in X, ConnectionState(state) \in Event,
         events' = Append(queue, ConnectionState(state))
  PROVE  Showing(X)'
<1> DEFINE States == {ConnectionState(x) : x \in X}
<1>1. EndsWith(events', Statuses, States) => Showing(X)'
  BY DEF Showing, EndsWith, Statuses, Event, Shown, ConnectionState, Request
<1>2. ConnectionState(state) \in States
  OBVIOUS
<1> HIDE DEF States
<1>3. EndsWith(events', Statuses, States)
  BY <1>2, QueueAppend
<1> QED
  BY <1>1, <1>3

\* A step of the connection that says nothing of its state, or none.
LEMMA BannerKept ==
  ASSUME TypeOK, BannerKnown, ShowsOn, UNCHANGED signaling,
         \/ UNCHANGED receiver
         \/ /\ receiver # None /\ receiver' # None /\ receiver'.link = receiver.link
            /\ Heard(receiver) => Heard(receiver')
            /\ Silent(receiver.inbox, Says) => Silent(receiver'.inbox, Says)
  PROVE  BannerKnown'
<1>1. ASSUME NEW link \in Links, receiver' # None, receiver'.link = link, ~Heard(receiver')
      PROVE  Silent(receiver'.inbox, Says) /\ Shows(link)'
  <2>1. receiver # None /\ receiver.link = link
    BY <1>1
  <2>2. ~Heard(receiver)
    BY <1>1
  <2>3. Silent(receiver.inbox, Says) /\ Shows(link)
    BY <2>1, <2>2 DEF BannerKnown
  <2>4. /\ Showing(Expected(link)) => Showing(Expected(link))'
        /\ Showing(Off) => Showing(Off)'
    BY DEF ShowsOn
  <2> QED
    BY <1>1, <2>1, <2>3, <2>4 DEF Shows
<1>2. ASSUME receiver' = None
      PROVE  Showing(Off)'
  <2>1. Showing(Off) => Showing(Off)'
    BY DEF ShowsOn
  <2> QED
    BY <1>2, <2>1 DEF BannerKnown
<1>3. signaling' => receiver' # None /\ receiver'.link # "ended"
  BY DEF BannerKnown
<1>4. BannerKnown' =
        (/\ signaling' => receiver' # None /\ receiver'.link # "ended"
         /\ receiver' = None => Showing(Off)'
         /\ \A link \in Links : receiver' # None /\ receiver'.link = link =>
              \/ Heard(receiver')
              \/ Silent(receiver'.inbox, Says) /\ Shows(link)')
  BY DEF BannerKnown, Heard, Links
<1> QED
  BY <1>1, <1>2, <1>3, <1>4

LEMMA BannerHeard ==
  ASSUME receiver' \in Connection, Heard(receiver'), signaling' => receiver'.link # "ended"
  PROVE  BannerKnown'
<1>1. receiver' # None
  BY NoneAssumption
<1>2. BannerKnown' =
        (/\ signaling' => receiver' # None /\ receiver'.link # "ended"
         /\ receiver' = None => Showing(Off)'
         /\ \A link \in Links : receiver' # None /\ receiver'.link = link =>
              \/ Heard(receiver')
              \/ Silent(receiver'.inbox, Says) /\ Shows(link)')
  BY DEF BannerKnown, Heard, Links
<1> QED
  BY <1>1, <1>2

\* What is added to the queue of a connection, or taken from it.
LEMMA InboxGrows ==
  ASSUME NEW inbox \in Seq(SignalingEvent), NEW frame \in SignalingEvent, NEW link \in Links
  PROVE  /\ frame.type \notin Said /\ Silent(inbox, Says) => Silent(Append(inbox, frame), Says)
         /\ frame.type \notin Said /\ EndsWith(inbox, Says, {[type |-> Told(link)]}) =>
              EndsWith(Append(inbox, frame), Says, {[type |-> Told(link)]})
         /\ frame = [type |-> Told(link)] =>
              EndsWith(Append(inbox, frame), Says, {[type |-> Told(link)]})
<1> DEFINE last == [type |-> Told(link)]
<1>1. frame.type \notin Said => frame \notin Says
  BY SaidOrNot
<1> HIDE DEF last
<1>2. /\ frame \notin Says /\ Silent(inbox, Says) => Silent(Append(inbox, frame), Says)
      /\ frame \notin Says /\ EndsWith(inbox, Says, {last}) =>
           EndsWith(Append(inbox, frame), Says, {last})
      /\ frame \in {last} => EndsWith(Append(inbox, frame), Says, {last})
  BY QueueAppend
<1> QED
  BY <1>1, <1>2 DEF last

LEMMA InboxShrinks ==
  ASSUME NEW inbox \in Seq(SignalingEvent), inbox # <<>>, NEW link \in Links
  PROVE  /\ Silent(inbox, Says) => Silent(Tail(inbox), Says) /\ Head(inbox).type \notin Said
         /\ EndsWith(inbox, Says, {[type |-> Told(link)]}) =>
              \/ EndsWith(Tail(inbox), Says, {[type |-> Told(link)]})
              \/ Head(inbox).type = Told(link) /\ Silent(Tail(inbox), Says)
         /\ EndsWith(inbox, Says, {[type |-> Told(link)]}) /\ Head(inbox).type \notin Said =>
              EndsWith(Tail(inbox), Says, {[type |-> Told(link)]})
<1> DEFINE last == [type |-> Told(link)]
<1>1. last.type = Told(link) /\ Told(link) \in Said
  BY SaidOrNot
<1>2. Head(inbox) \in SignalingEvent /\ Head(inbox) = inbox[1] /\ 1 \in DOMAIN inbox
  BY HeadAndTail
<1>3. Silent(inbox, Says) => Head(inbox).type \notin Said
  <2>1. Head(inbox).type \in Said => Head(inbox) \in Says
    <3>1. Head(inbox).type \in Said => Head(inbox) = [type |-> Head(inbox).type]
      BY <1>2, SignalingFields DEF Said
    <3> QED
      BY <3>1, SaidOrNot
  <2> QED
    BY <1>2, <2>1 DEF Silent
<1> HIDE DEF last
<1>4. /\ Silent(inbox, Says) => Silent(Tail(inbox), Says)
      /\ EndsWith(inbox, Says, {last}) =>
           EndsWith(Tail(inbox), Says, {last}) \/ (Head(inbox) \in {last} /\ Silent(Tail(inbox), Says))
  BY QueueTail
<1>5. Head(inbox) \in {last} => Head(inbox).type = Told(link)
  BY <1>1
<1> QED
  BY <1>1, <1>3, <1>4, <1>5 DEF last

LEMMA BannerTask ==
  ASSUME TypeOK, BannerKnown, Task \/ TaskDrops
  PROVE  BannerKnown'
<1>1. receiver' \in Connection /\ receiver # None /\ receiver \in Connection
  BY TaskTypes DEF Task, TaskConnects, TaskDrops, TaskFails, TaskRetries, TaskEnds, TypeOK
<1>2. receiver.inbox \in Seq(SignalingEvent) /\ receiver.link \in Links
  BY <1>1 DEF Connection, Links
<1>3. signaling' = signaling
  BY DEF Task, TaskConnects, TaskDrops, TaskFails, TaskRetries, TaskEnds
<1>4. ASSUME NEW link \in Links, receiver'.link = link,
             receiver'.inbox = Append(receiver.inbox, [type |-> Told(link)])
      PROVE  Heard(receiver')
  <2>1. [type |-> Told(link)] \in SignalingEvent
    BY SaidOrNot
  <2>2. EndsWith(Append(receiver.inbox, [type |-> Told(link)]), Says, {[type |-> Told(link)]})
    BY <1>2, <2>1, InboxGrows
  <2> QED
    BY <1>4, <2>2 DEF Heard
<1>5. CASE TaskConnects
  <2> DEFINE connected == [type |-> "Connected"]
             identity == [type |-> "Identity"]
             first == Append(receiver.inbox, connected)
  <2>1. receiver'.link = "connected" /\ receiver'.inbox = receiver.inbox \o <<connected, identity>>
    BY <1>5 DEF TaskConnects
  <2>2. connected \in SignalingEvent /\ identity \in SignalingEvent /\ identity.type \notin Said
    BY SignalingTypes DEF Said
  <2>3. connected = [type |-> Told("connected")] /\ "connected" \in Links
    BY DEF Told, Links
  <2> HIDE DEF connected, identity
  <2> HIDE DEF first
  <2>4. receiver'.inbox = Append(first, identity)
    <3>1. receiver.inbox \o <<connected, identity>> = Append(Append(receiver.inbox, connected), identity)
      BY <1>2, <2>2, Concats
    <3> QED
      BY <2>1, <3>1, Zenon DEF first
  <2>5. first \in Seq(SignalingEvent) /\ EndsWith(first, Says, {[type |-> Told("connected")]})
    BY <1>2, <2>2, <2>3, Appended, InboxGrows DEF first
  <2>6. EndsWith(receiver'.inbox, Says, {[type |-> Told("connected")]})
    BY <2>2, <2>3, <2>4, <2>5, InboxGrows
  <2>7. Heard(receiver')
    BY <2>1, <2>6 DEF Heard
  <2> QED
    BY <1>1, <2>1, <2>7, BannerHeard
<1>6. CASE TaskDrops
  <2>1. receiver'.link = "waiting" /\ receiver'.inbox = Append(receiver.inbox, [type |-> "WaitingToRetry"])
    BY <1>6 DEF TaskDrops, Tells
  <2>2. "WaitingToRetry" = Told("waiting") /\ "waiting" \in Links
    BY DEF Told, Links
  <2>3. Heard(receiver')
    BY <1>4, <2>1, <2>2
  <2> QED
    BY <1>1, <2>1, <2>3, BannerHeard
<1>7. CASE TaskRetries
  <2>1. receiver'.link = "connecting" /\ receiver'.inbox = Append(receiver.inbox, [type |-> "Connecting"])
    BY <1>1, <1>7 DEF TaskRetries, Tells, Connection
  <2>2. "Connecting" = Told("connecting") /\ "connecting" \in Links
    BY DEF Told, Links
  <2>3. Heard(receiver')
    BY <1>4, <2>1, <2>2
  <2> QED
    BY <1>1, <2>1, <2>3, BannerHeard
<1>8. CASE TaskEnds
  <2>1. /\ receiver'.link = "ended" /\ receiver'.inbox = Append(receiver.inbox, [type |-> "Closed"])
        /\ ~signaling'
    BY <1>3, <1>8 DEF TaskEnds, Tells
  <2>2. "Closed" = Told("ended") /\ "ended" \in Links
    BY DEF Told, Links
  <2>3. Heard(receiver')
    BY <1>4, <2>1, <2>2
  <2> QED
    BY <1>1, <2>1, <2>3, BannerHeard
<1>9. CASE TaskFails
  <2>1. receiver'.link = "failed" /\ receiver'.inbox = Append(receiver.inbox, [type |-> "Failed"])
    BY <1>1, <1>9 DEF TaskFails, Tells, Connection
  <2>2. "Failed" = Told("failed") /\ "failed" \in Links
    BY DEF Told, Links
  <2>3. Heard(receiver')
    BY <1>4, <2>1, <2>2
  <2> QED
    BY <1>1, <2>1, <2>3, BannerHeard
<1> QED
  BY <1>5, <1>6, <1>7, <1>8, <1>9 DEF Task

\* Who comes and goes is told in the same queue.
LEMMA BannerMoves ==
  ASSUME TypeOK, BannerKnown, NEW p \in Peer, Come(p) \/ Go(p)
  PROVE  BannerKnown'
<1>1. UNCHANGED <<banner, events, signaling>>
  BY DEF Come, Go, window
<1>2. ShowsOn
  BY <1>1, ShowsOnBy
<1>3. CASE UNCHANGED receiver
  BY <1>1, <1>2, <1>3, BannerKept
<1>4. CASE ~UNCHANGED receiver
  <2>1. Joined /\ receiver \in Connection /\ receiver # None
    BY <1>4 DEF Come, Go, Joined, TypeOK
  <2>2. receiver.inbox \in Seq(SignalingEvent) /\ receiver.link \in Links
    BY <2>1 DEF Connection, Links
  <2>3. PICK frame \in SignalingEvent :
          frame.type \notin Said /\ receiver' = [receiver EXCEPT !.inbox = Append(receiver.inbox, frame)]
    <3>1. /\ [type |-> "PeerJoined", peer |-> p] \in SignalingEvent
          /\ [type |-> "PeerLeft", peer |-> p] \in SignalingEvent
      BY SignalingTypes
    <3>2. \/ receiver' = [receiver EXCEPT !.inbox = Append(receiver.inbox, [type |-> "PeerJoined", peer |-> p])]
          \/ receiver' = [receiver EXCEPT !.inbox = Append(receiver.inbox, [type |-> "PeerLeft", peer |-> p])]
      BY <2>1 DEF Come, Go, Tells
    <3> QED
      BY <3>1, <3>2 DEF Said
  <2> DEFINE longer == Append(receiver.inbox, frame)
  <2>4. longer \in Seq(SignalingEvent)
    BY <2>2, Appended
  <2>5. /\ Silent(receiver.inbox, Says) => Silent(longer, Says)
        /\ Heard(receiver) => EndsWith(longer, Says, {[type |-> Told(receiver.link)]})
    BY <2>2, <2>3, InboxGrows DEF Heard
  <2> HIDE DEF longer
  <2>6. receiver' \in Connection /\ receiver'.inbox = longer /\ receiver'.link = receiver.link
    BY <2>1, <2>3, <2>4 DEF Connection, longer
  <2>7. receiver' # None
    BY <2>6, NoneAssumption
  <2>8. Heard(receiver) => Heard(receiver')
    BY <2>5, <2>6 DEF Heard
  <2> QED
    BY <1>1, <1>2, <2>1, <2>5, <2>6, <2>7, <2>8, BannerKept
<1> QED
  BY <1>3, <1>4

LEMMA BannerConnect ==
  ASSUME TypeOK, BannerKnown, HandleConnect
  PROVE  BannerKnown'
<1> DEFINE new == Head(commands).settings
           gone == PeersEvent(NoPeers)
           first == Append(events, gone)
<1>1. /\ signaling' = (new.server \in Address)
      /\ receiver' = IF new.server \in Address THEN NewConnection ELSE receiver
      /\ events' = first \o Refusal(new.server)
      /\ commands # <<>> /\ Head(commands).type = "Connect"
  BY DEF HandleConnect, Takes
<1>2. first \in Seq(Event)
  BY EventTypes, NoPeersType, Appended DEF TypeOK
<1>3. Head(commands) \in Command
  BY <1>1, HeadAndTail DEF TypeOK
<1>4. new.server \in Address \union {Empty, Unusable}
  BY <1>1, <1>3, CommandFields, SettingsAssumption
<1> HIDE DEF first, new
<1>5. CASE new.server \in Address
  <2>1. /\ receiver' \in Connection /\ receiver'.link = "connecting"
        /\ receiver'.inbox = <<[type |-> "Connecting"]>>
    BY <1>1, <1>5, NewConnectionType
  <2>2. [type |-> "Connecting"] = [type |-> Told("connecting")]
    BY DEF Told
  <2>3. EndsWith(<<[type |-> Told("connecting")]>>, Says, {[type |-> Told("connecting")]})
    BY DEF EndsWith
  <2>4. Heard(receiver')
    BY <2>1, <2>2, <2>3 DEF Heard
  <2> QED
    BY <2>1, <2>4, BannerHeard
<1>6. CASE new.server \notin Address
  <2>1. receiver' = receiver /\ ~signaling'
    BY <1>1, <1>6
  <2>2. /\ ConnectionState("NotConfigured") \in Event /\ ConnectionState("Failed") \in Event
    BY EventTypes DEF Shown
  <2>3. PICK state \in Off : Refusal(new.server) = <<ConnectionState(state)>>
    BY <1>4, <1>6, RefusalType DEF Off
  <2>4. ConnectionState(state) \in Event
    BY <2>2 DEF Off
  <2>5. events' = Append(first, ConnectionState(state))
    BY <1>1, <1>2, <2>3, <2>4, Concats
  <2>6. Showing(Off)'
    BY <1>2, <2>4, <2>5, ShowsNew
  <2>7. ASSUME NEW link \in Links, receiver' # None, receiver'.link = link, ~Heard(receiver')
        PROVE  Silent(receiver'.inbox, Says) /\ Shows(link)'
    <3>1. Silent(receiver'.inbox, Says)
      BY <2>1, <2>7 DEF BannerKnown
    <3>2. Shows(link)'
      BY <2>1, <2>6 DEF Shows
    <3> QED
      BY <3>1, <3>2
  <2>8. BannerKnown' =
          (/\ signaling' => receiver' # None /\ receiver'.link # "ended"
           /\ receiver' = None => Showing(Off)'
           /\ \A link \in Links : receiver' # None /\ receiver'.link = link =>
                \/ Heard(receiver')
                \/ Silent(receiver'.inbox, Says) /\ Shows(link)')
    BY DEF BannerKnown, Heard, Links
  <2> QED
    BY <2>1, <2>6, <2>7, <2>8
<1> QED
  BY <1>5, <1>6

\* The engine reads what the task said and shows it.
LEMMA BannerReads ==
  ASSUME TypeOK, BannerKnown, NEW state \in Said, Reads(state), Read, UNCHANGED signaling,
         NEW queue \in Seq(Event), NEW shown \in Shown,
         events' = Append(queue, ConnectionState(shown)),
         \A link \in Links : Told(link) = state => shown \in Expected(link)
  PROVE  BannerKnown'
<1> DEFINE inbox == receiver.inbox
           last(link) == [type |-> Told(link)]
<1>1. /\ receiver \in Connection /\ inbox \in Seq(SignalingEvent) /\ inbox # <<>>
      /\ Head(inbox).type = state
      /\ receiver' \in Connection /\ receiver'.link = receiver.link /\ receiver'.inbox = Tail(inbox)
  BY ReadsType DEF Frame
<1>2. receiver # None /\ receiver' # None
  BY <1>1, NoneAssumption
<1>3. ConnectionState(shown) \in Event
  BY EventTypes
<1>4. ASSUME NEW link \in Links, receiver.link = link, ~Heard(receiver')
      PROVE  Silent(Tail(inbox), Says) /\ Shows(link)'
  <2>1. ~Silent(inbox, Says)
    BY <1>1, <1>4, InboxShrinks
  <2>2. EndsWith(inbox, Says, {last(link)})
    BY <1>2, <1>4, <2>1 DEF BannerKnown, Heard
  <2>3. ~EndsWith(Tail(inbox), Says, {last(link)})
    BY <1>1, <1>4 DEF Heard
  <2>4. Head(inbox).type = Told(link) /\ Silent(Tail(inbox), Says)
    BY <1>1, <1>4, <2>2, <2>3, InboxShrinks
  <2>5. shown \in Expected(link)
    BY <1>1, <2>4
  <2> DEFINE X == Expected(link)
  <2>6. Showing(X)'
    <3> HIDE DEF X
    <3>1. PICK Y : Y = X
      OBVIOUS
    <3>2. Showing(Y)'
      BY <1>3, <2>5, <3>1, ShowsNew DEF X
    <3> QED
      BY <3>1, <3>2 DEF X, Expected, Off
  <2>7. ASSUME link \in Over
        PROVE  Showing(Off)'
    <3>1. shown \in Off
      BY <2>5, <2>7 DEF Over, Expected, Off
    <3> QED
      BY <1>3, <3>1, ShowsNew
  <2>8. Shows(link)'
    BY <2>6, <2>7 DEF Shows
  <2> QED
    BY <2>4, <2>8
<1>5. BannerKnown' =
        (/\ signaling' => receiver' # None /\ receiver'.link # "ended"
         /\ receiver' = None => Showing(Off)'
         /\ \A link \in Links : receiver' # None /\ receiver'.link = link =>
              \/ Heard(receiver')
              \/ Silent(receiver'.inbox, Says) /\ Shows(link)')
  BY DEF BannerKnown, Heard, Links
<1>6. signaling' => receiver' # None /\ receiver'.link # "ended"
  BY <1>1, <1>2 DEF BannerKnown
<1> QED
  BY <1>1, <1>2, <1>4, <1>5, <1>6

\* What else the engine reads says nothing of the state.
LEMMA BannerReadsElse ==
  ASSUME TypeOK, BannerKnown, ShowsOn, UNCHANGED signaling,
         NEW type, type \notin Said, Reads(type), Read
  PROVE  BannerKnown'
<1>1. /\ receiver \in Connection /\ receiver.inbox \in Seq(SignalingEvent) /\ receiver.inbox # <<>>
      /\ Head(receiver.inbox).type = type
      /\ receiver' \in Connection /\ receiver'.link = receiver.link
      /\ receiver'.inbox = Tail(receiver.inbox)
  BY ReadsType DEF Frame
<1>2. receiver.link \in Links /\ receiver # None /\ receiver' # None
  BY <1>1, NoneAssumption DEF Connection, Links
<1>3. /\ Silent(receiver.inbox, Says) => Silent(receiver'.inbox, Says)
      /\ Heard(receiver) => Heard(receiver')
  BY <1>1, <1>2, InboxShrinks DEF Heard
<1> QED
  BY <1>1, <1>2, <1>3, BannerKept

LEMMA BannerSignaling ==
  ASSUME TypeOK, BannerKnown, HandleSignaling
  PROVE  BannerKnown'
<1>0. UNCHANGED <<signaling, banner>> /\ events \in Seq(Event)
  BY DEF HandleSignaling, HandleState, HandleIdentity, HandlePeers, HandlePeerLeft, window, TypeOK
<1>1. ASSUME NEW state \in {"Connecting", "Connected", "Failed", "Closed"}, HandleStateShown(state)
      PROVE  BannerKnown'
  <2> DEFINE shown == IF state = "Closed" THEN "NotConfigured" ELSE state
  <2>1. /\ Reads(state) /\ Read /\ state \in Said /\ shown \in Shown
        /\ events' = Append(events, ConnectionState(shown))
    BY <1>1 DEF HandleStateShown, Said, Shown
  <2>2. \A link \in Links : Told(link) = state => shown \in Expected(link)
    BY <1>1 DEF Links, Told, Expected, Off
  <2> HIDE DEF shown
  <2> QED
    BY <1>0, <2>1, <2>2, BannerReads
<1>2. CASE HandleWaitingToRetry
  <2> DEFINE gone == PeersEvent(NoPeers)
             retrying == ConnectionState("Retrying")
             first == Append(events, gone)
  <2>1. Reads("WaitingToRetry") /\ Read /\ events' = events \o <<gone, retrying>>
    BY <1>2 DEF HandleWaitingToRetry
  <2>2. gone \in Event /\ retrying \in Event
    BY EventTypes, NoPeersType DEF Shown
  <2>3. first \in Seq(Event)
    BY <1>0, <2>2, Appended
  <2>4. events' = Append(first, retrying)
    BY <1>0, <2>1, <2>2, Concats
  <2> HIDE DEF first
  <2>5. \A link \in Links : Told(link) = "WaitingToRetry" => "Retrying" \in Expected(link)
    BY DEF Links, Told, Expected, Off
  <2>6. "WaitingToRetry" \in Said /\ "Retrying" \in Shown
    BY DEF Said, Shown
  <2> QED
    BY <1>0, <2>1, <2>3, <2>4, <2>5, <2>6, BannerReads
<1>3. CASE HandlePeers \/ HandlePeerLeft
  <2>1. events' = Append(events, PeersEvent(ViewsOf(peers')))
    BY <1>3 DEF HandlePeers, HandlePeerLeft, Dial
  <2>2. TypeOK'
    BY <1>3, HandlePeersTypes, HandlePeerLeftTypes
  <2>3. PeersEvent(ViewsOf(peers')) \in Event /\ PeersEvent(ViewsOf(peers')).type # "Connection"
    BY <2>2, ViewsType, EventTypes DEF TypeOK, List, PeersEvent
  <2>4. ShowsOn
    BY <1>0, <2>1, <2>3, ShowsOnBy
  <2>5. PICK type \in {"Peers", "PeerJoined", "PeerLeft"} : Reads(type) /\ Read
    BY <1>3 DEF HandlePeers, HandlePeerLeft
  <2>6. type \notin Said
    BY DEF Said
  <2> QED
    BY <1>0, <2>4, <2>5, <2>6, BannerReadsElse
<1>4. CASE HandleIdentity
  <2> DEFINE rest == Tail(receiver.inbox)
             frame == [type |-> "Peers", peers |-> present]
  <2>1. UNCHANGED events /\ Reads("Identity") /\ "Identity" \notin Said
    BY <1>4 DEF HandleIdentity, Said
  <2>2. ShowsOn
    BY <1>0, <2>1, ShowsOnBy
  <2>3. CASE ~(signaling /\ receiver.link = "connected")
    <3>1. Read
      BY <1>4, <2>3 DEF HandleIdentity, Read
    <3> QED
      BY <1>0, <2>1, <2>2, <3>1, BannerReadsElse
  <2>4. CASE signaling /\ receiver.link = "connected"
    <3>1. /\ receiver \in Connection /\ receiver.inbox \in Seq(SignalingEvent)
          /\ receiver.inbox # <<>> /\ Head(receiver.inbox).type = "Identity"
          /\ rest \in Seq(SignalingEvent)
      BY <2>1, ReadsType DEF Frame
    <3>2. frame \in SignalingEvent /\ frame.type \notin Said
      BY SignalingTypes DEF TypeOK, Said
    <3>3. receiver.link \in Links /\ receiver # None
      BY <3>1, NoneAssumption DEF Connection, Links
    <3>4. receiver' = [receiver EXCEPT !.joined = TRUE, !.inbox = Append(rest, frame)]
      BY <1>4, <2>4 DEF HandleIdentity
    <3> HIDE DEF frame
    <3>5. /\ Silent(receiver.inbox, Says) => Silent(rest, Says)
          /\ Heard(receiver) => EndsWith(rest, Says, {[type |-> Told(receiver.link)]})
      BY <2>1, <3>1, <3>3, InboxShrinks DEF Heard
    <3> HIDE DEF rest
    <3>6. /\ Silent(receiver.inbox, Says) => Silent(Append(rest, frame), Says)
          /\ Heard(receiver) => EndsWith(Append(rest, frame), Says, {[type |-> Told(receiver.link)]})
      BY <3>1, <3>2, <3>3, <3>5, InboxGrows
    <3>7. Append(rest, frame) \in Seq(SignalingEvent)
      BY <3>1, <3>2, Appended
    <3>8. /\ receiver' \in Connection /\ receiver'.link = receiver.link
          /\ receiver'.inbox = Append(rest, frame)
      BY <3>1, <3>4, <3>7 DEF Connection
    <3>9. receiver' # None /\ (Heard(receiver) => Heard(receiver'))
      BY <3>6, <3>8, NoneAssumption DEF Heard
    <3> QED
      BY <1>0, <2>2, <3>3, <3>6, <3>8, <3>9, BannerKept
  <2> QED
    BY <2>3, <2>4
<1> QED
  BY <1>1, <1>2, <1>3, <1>4, HandleStateCases DEF HandleSignaling

LEMMA BannerStep ==
  ASSUME TypeOK, BannerKnown, [Next]_vars
  PROVE  BannerKnown'
<1>1. ASSUME UNCHANGED <<banner, signaling, receiver>>,
             events' = events \/ \E x \in Event : x.type # "Connection" /\ events' = Append(events, x)
      PROVE  BannerKnown'
  BY <1>1, ShowsOnBy, BannerKept
<1>2. CASE UNCHANGED vars
  BY <1>1, <1>2 DEF vars, window, engine
<1>3. CASE Ui
  BY <1>3, ShowsOnUi, UiEngine, BannerKept DEF engine
<1>4. CASE User
  <2>1. UNCHANGED <<banner, signaling, receiver, events>>
    BY <1>4 DEF User, Answer, ClosePreferences, engine
  <2> QED
    BY <1>1, <2>1
<1>5. ASSUME PeersEvent(ViewsOf(peers')) \in Event
      PROVE  PeersEvent(ViewsOf(peers')).type # "Connection"
  BY DEF PeersEvent
<1>6. CASE EngineThread
  <2>0. TypeOK' /\ PeersEvent(ViewsOf(peers')) \in Event
    <3>1. TypeOK'
      BY <1>6, StepTypes DEF Next
    <3> QED
      BY <3>1, ViewsType, EventTypes DEF TypeOK, List
  <2>1. CASE HandleConnect
    BY <2>1, BannerConnect
  <2>2. CASE HandleRespondToRequest
    <3>1. UNCHANGED <<banner, signaling, receiver>>
      BY <2>2 DEF HandleRespondToRequest, window
    <3>2. events' = events \/ events' = Append(events, PeersEvent(ViewsOf(peers')))
      BY <2>2, RespondedTo
    <3> QED
      BY <1>1, <1>5, <2>0, <3>1, <3>2
  <2>3. CASE HandleSignaling
    BY <2>3, BannerSignaling
  <2>4. CASE HandleRtc
    <3>1. UNCHANGED <<banner, signaling, receiver>>
      BY <2>4, RtcCases DEF window
    <3>2. PICK p \in Peer :
            /\ Head(reports[p]) \in Report
            /\ \/ HandleOpen(p) \/ HandleNewRequest(p) \/ HandleReceived(p)
               \/ HandleGone(p) \/ HandleIgnored(p)
      BY <2>4, RtcCases
    <3>3. CASE HandleIgnored(p)
      <4>1. events' = events \/ events' = Append(events, PeersEvent(ViewsOf(peers')))
        BY <3>3 DEF HandleIgnored
      <4> QED
        BY <1>1, <1>5, <2>0, <3>1, <4>1
    <3>4. CASE HandleOpen(p) \/ HandleNewRequest(p) \/ HandleReceived(p) \/ HandleGone(p)
      <4>1. \/ Publishes
            \/ /\ Head(reports[p]).request \in Request
               /\ events' = Append(events, [type |-> "IncomingRequest", peer |-> p,
                                            request |-> Head(reports[p]).request])
        BY <3>2, <3>4, RtcPeer
      <4>2. CASE Publishes
        BY <1>1, <1>5, <2>0, <3>1, <4>2 DEF Publishes
      <4>3. CASE ~Publishes
        <5> DEFINE x == [type |-> "IncomingRequest", peer |-> p, request |-> Head(reports[p]).request]
        <5>1. x \in Event /\ x.type # "Connection" /\ events' = Append(events, x)
          BY <4>1, <4>3, EventTypes
        <5> QED
          BY <1>1, <3>1, <5>1
      <4> QED
        BY <4>2, <4>3
    <3> QED
      BY <3>2, <3>3, <3>4
  <2> QED
    BY <1>6, <2>1, <2>2, <2>3, <2>4 DEF EngineThread
<1>7. CASE Task \/ TaskDrops
  BY <1>7, BannerTask
<1>8. ASSUME NEW p \in Peer, Come(p) \/ Go(p)
      PROVE  BannerKnown'
  BY <1>8, BannerMoves
<1>9. ASSUME NEW p \in Peer, ChannelOpens(p) \/ ChannelEnds(p) \/ ClosesLate(p) \/ Asks(p) \/ SendsAll(p)
      PROVE  BannerKnown'
  <2>1. UNCHANGED <<banner, signaling, receiver, events>>
    BY <1>9 DEF ChannelOpens, ChannelEnds, ClosesLate, Asks, SendsAll, Happens, window, engine
  <2> QED
    BY <1>1, <2>1
<1> QED
  BY <1>2, <1>3, <1>4, <1>6, <1>7, <1>8, <1>9 DEF Next, Channels, Environment

LEMMA InitBanner == Init => BannerKnown
<1> SUFFICES ASSUME Init
             PROVE  BannerKnown
  OBVIOUS
<1>1. /\ signaling = (settings.server \in Address)
      /\ receiver = IF settings.server \in Address THEN NewConnection ELSE None
      /\ events = Refusal(settings.server) /\ settings \in Settings
  BY DEF Init
<1>2. CASE settings.server \in Address
  <2>1. /\ receiver \in Connection /\ receiver.link = "connecting"
        /\ receiver.inbox = <<[type |-> Told("connecting")]>>
    BY <1>1, <1>2, NewConnectionType DEF Told
  <2>2. Heard(receiver) /\ receiver # None
    BY <2>1, NoneAssumption DEF Heard, EndsWith
  <2> QED
    BY <2>1, <2>2 DEF BannerKnown
<1>3. CASE settings.server \notin Address
  <2>1. PICK state \in Off : events = <<ConnectionState(state)>>
    BY <1>1, <1>3, RefusalType, SettingsAssumption DEF Off
  <2>2. Showing(Off)
    <3>1. events[1] \in {ConnectionState(x) : x \in Off} /\ DOMAIN events = {1}
      BY <2>1
    <3> QED
      BY <3>1 DEF Showing, EndsWith
  <2>3. receiver = None /\ ~signaling
    BY <1>1, <1>3
  <2> QED
    BY <2>2, <2>3 DEF BannerKnown
<1> QED
  BY <1>2, <1>3

LEMMA BannerFollows == TypeOK /\ BannerKnown => BannerIsTrue
<1> SUFFICES ASSUME TypeOK, BannerKnown, Quiet
             PROVE  IF signaling
                    THEN banner = CASE receiver.link = "connecting" -> "Connecting"
                                    [] receiver.link = "connected" -> "Connected"
                                    [] receiver.link = "waiting" -> "Retrying"
                                    [] receiver.link = "failed" -> "Failed"
                    ELSE receiver = None \/ receiver.link \in {"failed", "ended"} =>
                           banner \in {"NotConfigured", "Failed"}
  BY DEF BannerIsTrue
<1>1. events = <<>> /\ (receiver # None => receiver.inbox = <<>>)
  BY DEF Quiet
<1>2. \A X : Showing(X) => banner \in X
  BY <1>1, EmptyQueue DEF Showing
<1>3. receiver # None => receiver.link \in Links
  BY DEF TypeOK, Connection, Links
<1>4. receiver # None => ~Heard(receiver)
  BY <1>1, EmptyQueue DEF Heard
<1>5. receiver # None => /\ signaling => banner \in Expected(receiver.link)
                         /\ receiver.link \in Over => banner \in Off
  BY <1>2, <1>3, <1>4 DEF BannerKnown, Shows
<1>6. CASE signaling
  <2>1. receiver # None /\ receiver.link \in {"connecting", "connected", "waiting", "failed"}
    BY <1>3, <1>6 DEF BannerKnown, Links
  <2>2. banner \in Expected(receiver.link)
    BY <1>5, <1>6, <2>1
  <2>3. /\ Expected("connecting") = {"Connecting"} /\ Expected("connected") = {"Connected"}
        /\ Expected("waiting") = {"Retrying"} /\ Expected("failed") = {"Failed"}
    BY DEF Expected
  <2> QED
    BY <1>6, <2>1, <2>2, <2>3
<1>7. CASE ~signaling
  <2>1. receiver = None => banner \in Off
    BY <1>2 DEF BannerKnown
  <2>2. receiver # None /\ receiver.link \in Over => banner \in Off
    BY <1>5
  <2> QED
    BY <1>7, <2>1, <2>2 DEF Off, Over
<1> QED
  BY <1>6, <1>7

\* The banner promises no connection that is not there and denies none that is: each change
\* of the task is said once in the queue of its own connection, a refused address at once,
\* and events are applied in the order they were sent.
THEOREM BannerTrue == Spec => []BannerIsTrue
<1>1. TypeOK /\ BannerKnown /\ [Next]_vars => TypeOK' /\ BannerKnown'
  BY StepTypes, BannerStep
<1> QED
  BY InitTypes, InitBanner, <1>1, BannerFollows, PTL DEF Spec
=============================================================================
