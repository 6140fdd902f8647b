------------------------- MODULE PairDropClient_proofs -------------------------
(***************************************************************************)
(* Proofs about PairDropClient, for all rooms, all devices in them and     *)
(* whatever the user, the network and the server do.                       *)
(***************************************************************************)
EXTENDS PairDropClient, SequenceTheorems, TLAPS

\* A client that was replaced has no socket, and one that has a socket awaits no
\* configuration for its present generation: what is fetched opens no second one.
OneSocketEach ==
  \A i \in DOMAIN clients :
    /\ i # signaling => clients[i].task = 0
    /\ clients[i].task # 0 => clients[i].generation \notin clients[i].fetching

Inv == TypeOK /\ OneConnection /\ OneSocketEach

-----------------------------------------------------------------------------
(* The data.                                                               *)

LEMMA FrameTypes ==
  /\ [type |-> "DisplayName"] \in Frame
  /\ \A room \in Room, present \in SUBSET Remote :
       [type |-> "Peers", room |-> room, peers |-> present] \in Frame
  /\ \A room \in Room, e \in Remote :
       [type |-> "PeerJoined", room |-> room, peer |-> e] \in Frame
  /\ \A room \in Room, e \in Remote, disconnect \in BOOLEAN :
       [type |-> "PeerLeft", room |-> room, peer |-> e, disconnect |-> disconnect] \in Frame
BY DEF Frame

LEMMA FrameFields ==
  ASSUME NEW frame \in Frame
  PROVE  /\ frame.type = "Peers" => frame.room \in Room /\ frame.peers \in SUBSET Remote
         /\ frame.type = "PeerJoined" => frame.room \in Room /\ frame.peer \in Remote
         /\ frame.type = "PeerLeft" =>
              frame.room \in Room /\ frame.peer \in Remote /\ frame.disconnect \in BOOLEAN
BY DEF Frame

LEMMA NewTypes ==
  /\ NewClient \in Client
  /\ \A i \in Nat \ {0}, generation \in Nat : NewSocket(i, generation) \in Socket
<1>1. NewClient \in Client
  BY DEF NewClient, Client
<1>2. <<[type |-> "DisplayName"]>> \in Seq(Frame)
  BY FrameTypes
<1> QED
  BY <1>1, <1>2 DEF NewSocket, Socket

\* connect(), disconnect() and reconnectNow(), and what becomes of the socket.
LEMMA ClientChanges ==
  ASSUME NEW client \in Client
  PROVE  /\ Connecting(client) \in Client
         /\ Connecting(client).task = client.task
         /\ client.task # 0 => Connecting(client) = client
         /\ Disconnected(client) \in Client
         /\ Disconnected(client).task = 0
         /\ Disconnected(client).intentionallyClosed
         /\ Reconnecting(client) \in Client
         /\ Reconnecting(client).task = 0
<1>1. ASSUME NEW c \in Client
      PROVE  /\ Connecting(c) \in Client
             /\ Connecting(c).task = c.task
             /\ c.task # 0 => Connecting(c) = c
  <2>1. c.generation + 1 \in Nat
    BY DEF Client
  <2>2. c.fetching \union {c.generation + 1} \in SUBSET Nat
    BY <2>1 DEF Client
  <2> DEFINE next == c.generation + 1
             fetches == c.fetching \union {c.generation + 1}
             made == [c EXCEPT !.state = "connecting", !.intentionallyClosed = FALSE,
                        !.armed = FALSE, !.generation = next, !.fetching = fetches]
  <2>3. Connecting(c) = IF c.task # 0 THEN c ELSE made
    BY DEF Connecting
  <2> HIDE DEF next, fetches
  <2>4. made \in Client /\ made.task = c.task
    BY <2>1, <2>2 DEF Client, next, fetches
  <2> HIDE DEF made
  <2> QED
    BY <2>3, <2>4
<1> DEFINE later == client.generation + 1
<1>2. later \in Nat
  BY DEF Client
<1>3. /\ Disconnected(client) =
           [client EXCEPT !.state = "idle", !.intentionallyClosed = TRUE, !.armed = FALSE,
              !.generation = later, !.task = 0]
      /\ Reconnecting(client) =
           Connecting([client EXCEPT !.generation = later, !.task = 0])
  BY DEF Disconnected, Reconnecting
<1> HIDE DEF later
<1>4. /\ Disconnected(client) \in Client
      /\ Disconnected(client).task = 0
      /\ Disconnected(client).intentionallyClosed
  <2> DEFINE closed == [client EXCEPT !.state = "idle", !.intentionallyClosed = TRUE,
                          !.armed = FALSE, !.generation = later, !.task = 0]
  <2>1. closed \in Client
    BY <1>2 DEF Client
  <2>2. closed.task = 0 /\ closed.intentionallyClosed = TRUE
    BY DEF Client
  <2> QED
    BY <1>3, <2>1, <2>2
<1>5. /\ [client EXCEPT !.generation = later, !.task = 0] \in Client
      /\ [client EXCEPT !.generation = later, !.task = 0].task = 0
  BY <1>2 DEF Client
<1> QED
  BY <1>1, <1>3, <1>4, <1>5

LEMMA CancelledSockets ==
  ASSUME TypeOK, NEW s \in 0..Len(sockets)
  PROVE  /\ Cancelled(s) \in Seq(Socket)
         /\ Len(Cancelled(s)) = Len(sockets)
         /\ DOMAIN Cancelled(s) = DOMAIN sockets
         /\ \A t \in DOMAIN sockets :
              /\ Cancelled(s)[t].client = sockets[t].client
              /\ Cancelled(s)[t].open => sockets[t].open /\ t # s
<1>1. CASE s = 0
  BY <1>1 DEF Cancelled, TypeOK
<1>2. CASE s # 0
  <2> DEFINE socket == [sockets[s] EXCEPT !.open = FALSE, !.asked = {}, !.joined = {}]
  <2>1. s \in DOMAIN sockets /\ sockets[s] \in Socket
    BY <1>2 DEF TypeOK
  <2>2. /\ socket \in Socket
        /\ socket.open = FALSE /\ socket.client = sockets[s].client
    BY <2>1 DEF Socket
  <2>3. Cancelled(s) = [sockets EXCEPT ![s] = socket]
    BY <1>2 DEF Cancelled
  <2> HIDE DEF socket
  <2> QED
    BY <1>2, <2>1, <2>2, <2>3, ExceptSeq DEF TypeOK
<1> QED
  BY <1>1, <1>2

-----------------------------------------------------------------------------
(* Steps that open no socket and give none to a client.                    *)

\* Every client keeps its socket, with no more to await under its generation, and no
\* socket is opened.
Calm ==
  /\ signaling' = signaling
  /\ DOMAIN clients' = DOMAIN clients /\ DOMAIN sockets' = DOMAIN sockets
  /\ \A i \in DOMAIN clients :
       /\ clients'[i].task = clients[i].task
       /\ clients[i].task # 0 => /\ clients'[i].generation = clients[i].generation
                                /\ clients'[i].fetching \subseteq clients[i].fetching
  /\ \A s \in DOMAIN sockets : sockets'[s].open => sockets[s].open

LEMMA CalmSteps ==
  ASSUME Inv, TypeOK', Calm
  PROVE  Inv'
<1>1. OneConnection'
  <2> SUFFICES ASSUME NEW s \in DOMAIN sockets, sockets'[s].open
               PROVE  signaling # 0 /\ clients'[signaling].task = s
    BY DEF Calm, OneConnection
  <2>1. signaling # 0 /\ clients[signaling].task = s
    BY DEF Inv, OneConnection, Calm
  <2>2. signaling \in DOMAIN clients
    BY <2>1 DEF Inv, TypeOK
  <2> QED
    BY <2>1, <2>2 DEF Calm
<1>2. OneSocketEach'
  BY DEF Inv, OneSocketEach, Calm
<1> QED
  BY <1>1, <1>2 DEF Inv

\* One client changes and keeps its socket; a client that was replaced stays closed.
LEMMA ClientChangesOnly ==
  ASSUME Inv, NEW i \in DOMAIN clients, NEW client \in Client,
         clients' = [clients EXCEPT ![i] = client],
         client.task = clients[i].task,
         clients[i].intentionallyClosed => client.intentionallyClosed,
         client.task # 0 => /\ client.generation = clients[i].generation
                            /\ client.fetching \subseteq clients[i].fetching,
         UNCHANGED <<signaling, rooms, met, sockets, there>>,
         budget' \in [Kind -> Nat]
  PROVE  Inv'
<1>1. /\ clients \in Seq(Client) /\ DOMAIN clients = 1..Len(clients)
      /\ clients' \in Seq(Client) /\ Len(clients') = Len(clients)
      /\ DOMAIN clients' = DOMAIN clients
      /\ \A j \in DOMAIN clients : clients'[j] = IF j = i THEN client ELSE clients[j]
  BY ExceptSeq DEF Inv, TypeOK
<1>2. TypeOK'
  BY <1>1 DEF Inv, TypeOK
<1>3. Calm
  BY <1>1 DEF Calm
<1> QED
  BY <1>2, <1>3, CalmSteps

\* One socket changes, and is not opened by it.
LEMMA SocketChangesOnly ==
  ASSUME Inv, NEW s \in DOMAIN sockets, NEW socket \in Socket,
         sockets' = [sockets EXCEPT ![s] = socket],
         socket.client = sockets[s].client,
         socket.open => sockets[s].open,
         UNCHANGED <<clients, signaling, rooms, met, there>>,
         budget' \in [Kind -> Nat]
  PROVE  Inv'
<1>1. /\ sockets' \in Seq(Socket) /\ Len(sockets') = Len(sockets)
      /\ DOMAIN sockets' = DOMAIN sockets /\ DOMAIN sockets = 1..Len(sockets)
      /\ \A t \in DOMAIN sockets : sockets'[t] = IF t = s THEN socket ELSE sockets[t]
  BY ExceptSeq DEF Inv, TypeOK
<1>2. \A i \in DOMAIN clients : clients[i].task # 0 => clients[i].task \in DOMAIN sockets
  BY <1>1 DEF Inv, TypeOK
<1>3. TypeOK'
  BY <1>1, <1>2 DEF Inv, TypeOK
<1>4. Calm
  BY <1>1 DEF Calm
<1> QED
  BY <1>3, <1>4, CalmSteps

-----------------------------------------------------------------------------
(* The user and the network.                                               *)

LEMMA NoneOpen ==
  ASSUME Inv, signaling # 0, sockets' = Cancelled(clients[signaling].task)
  PROVE  /\ sockets' \in Seq(Socket) /\ Len(sockets') = Len(sockets)
         /\ DOMAIN sockets' = DOMAIN sockets
         /\ \A s \in DOMAIN sockets : sockets'[s].client = sockets[s].client
         /\ \A s \in DOMAIN sockets : ~sockets'[s].open
<1>1. clients[signaling].task \in 0..Len(sockets)
  BY DEF Inv, TypeOK
<1>2. \A s \in DOMAIN sockets : sockets[s].open => s = clients[signaling].task
  BY DEF Inv, OneConnection
<1> QED
  BY <1>1, <1>2, CancelledSockets DEF Inv

LEMMA Replaced ==
  ASSUME Inv, NEW i \in DOMAIN clients, NEW client \in Client,
         NEW list, list = [clients EXCEPT ![i] = client]
  PROVE  /\ list \in Seq(Client) /\ Len(list) = Len(clients)
         /\ DOMAIN list = DOMAIN clients
         /\ \A j \in DOMAIN clients : list[j] = IF j = i THEN client ELSE clients[j]
BY ExceptSeq DEF Inv, TypeOK

LEMMA Appended ==
  ASSUME NEW S, NEW seq \in Seq(S), NEW new \in S, NEW longer, longer = Append(seq, new)
  PROVE  /\ longer \in Seq(S)
         /\ Len(longer) = Len(seq) + 1
         /\ DOMAIN longer = DOMAIN seq \union {Len(longer)}
         /\ \A j \in DOMAIN seq : longer[j] = seq[j] /\ j # Len(longer)
         /\ longer[Len(longer)] = new
<1>1. /\ DOMAIN seq = 1..Len(seq) /\ Len(seq) \in Nat
      /\ DOMAIN longer = 1..Len(longer)
  BY AppendProperties, LenProperties
<1> QED
  BY <1>1, AppendProperties

\* Two values of a list of clients, the later one a longer list whose last client is the
\* current one: what is left to show is that the others are closed and have no socket.
LEMMA StartedInv ==
  ASSUME Inv, NEW old \in Seq(Client), Len(old) = Len(clients),
         \A i \in DOMAIN old : old[i].intentionallyClosed /\ old[i].task = 0,
         clients' = Append(old, Connecting(NewClient)), signaling' = Len(clients'),
         sockets' \in Seq(Socket), Len(sockets') = Len(sockets),
         \A s \in DOMAIN sockets' :
           ~sockets'[s].open /\ sockets'[s].client \in DOMAIN clients,
         rooms' \in [Remote -> SUBSET Room], UNCHANGED <<met, there>>,
         budget' \in [Kind -> Nat]
  PROVE  Inv'
<1> DEFINE started == Connecting(NewClient)
<1>1. started \in Client /\ started.task = 0
  BY NewTypes, ClientChanges DEF NewClient
<1>2. /\ clients' \in Seq(Client)
      /\ Len(clients') = Len(old) + 1
      /\ DOMAIN clients' = DOMAIN old \union {signaling'}
      /\ \A i \in DOMAIN old : clients'[i] = old[i] /\ i # signaling'
      /\ clients'[signaling'] = started
  BY <1>1, Appended DEF started
<1> HIDE DEF started
<1>3. DOMAIN old = DOMAIN clients /\ Len(sockets) \in Nat
  BY LenProperties DEF Inv, TypeOK
<1>4. \A i \in DOMAIN clients' : clients'[i].task = 0
  BY <1>1, <1>2
<1>5. TypeOK'
  <2>1. signaling' \in 0..Len(clients')
    BY <1>2
  <2>2. \A i \in DOMAIN clients' : i # signaling' => clients'[i].intentionallyClosed
    BY <1>2
  <2>3. \A s \in DOMAIN sockets' : sockets'[s].client \in DOMAIN clients'
    BY <1>2, <1>3
  <2> QED
    BY <1>2, <1>3, <1>4, <2>1, <2>2, <2>3 DEF Inv, TypeOK
<1>6. OneConnection'
  BY DEF OneConnection
<1>7. OneSocketEach'
  BY <1>4 DEF OneSocketEach
<1> QED
  BY <1>5, <1>6, <1>7 DEF Inv

LEMMA SpentType ==
  ASSUME TypeOK, NEW kind \in Kind, Spend(kind)
  PROVE  budget' \in [Kind -> Nat]
<1>1. budget[kind] \in Nat /\ budget[kind] - 1 \in Nat
  BY DEF Spend, TypeOK
<1> QED
  BY <1>1 DEF Spend, TypeOK

LEMMA StartInv ==
  ASSUME Inv, Start
  PROVE  Inv'
<1>1. \A i \in DOMAIN clients : clients[i].intentionallyClosed /\ clients[i].task = 0
  BY DEF Start, Inv, TypeOK, OneSocketEach
<1>2. \A s \in DOMAIN sockets : ~sockets[s].open
  BY DEF Start, Inv, OneConnection
<1>3. budget' \in [Kind -> Nat]
  BY SpentType DEF Start, Inv, Kind
<1> QED
  BY <1>1, <1>2, <1>3, StartedInv DEF Start, Inv, TypeOK

\* The client that is let go, in the list of all of them.
LEMMA LetGo ==
  ASSUME Inv, signaling # 0, NEW list,
         list = [clients EXCEPT ![signaling] = Disconnected(clients[signaling])]
  PROVE  /\ list \in Seq(Client) /\ Len(list) = Len(clients)
         /\ DOMAIN list = DOMAIN clients
         /\ \A i \in DOMAIN list : list[i].intentionallyClosed /\ list[i].task = 0
<1> DEFINE gone == Disconnected(clients[signaling])
<1>1. signaling \in DOMAIN clients /\ clients[signaling] \in Client
  BY DEF Inv, TypeOK
<1>2. gone \in Client /\ gone.task = 0 /\ gone.intentionallyClosed
  BY <1>1, ClientChanges
<1>3. list = [clients EXCEPT ![signaling] = gone]
  OBVIOUS
<1> HIDE DEF gone
<1>4. /\ list \in Seq(Client) /\ Len(list) = Len(clients)
      /\ DOMAIN list = DOMAIN clients
      /\ \A j \in DOMAIN clients : list[j] = IF j = signaling THEN gone ELSE clients[j]
  BY <1>1, <1>2, <1>3, Replaced
<1>5. \A i \in DOMAIN clients :
        i # signaling => clients[i].intentionallyClosed /\ clients[i].task = 0
  BY DEF Inv, TypeOK, OneSocketEach
<1>6. ASSUME NEW i \in DOMAIN list
      PROVE  list[i].intentionallyClosed /\ list[i].task = 0
  <2>1. CASE i = signaling
    <3>1. list[i] = gone
      BY <1>4, <2>1
    <3> QED
      BY <1>2, <3>1
  <2>2. CASE i # signaling
    <3>1. list[i] = clients[i] /\ i \in DOMAIN clients
      BY <1>4, <2>2
    <3> QED
      BY <1>5, <2>2, <3>1
  <2> QED
    BY <2>1, <2>2
<1> QED
  BY <1>4, <1>6

LEMMA StopInv ==
  ASSUME Inv, Stop
  PROVE  Inv'
<1>1. /\ clients' \in Seq(Client) /\ Len(clients') = Len(clients)
      /\ DOMAIN clients' = DOMAIN clients
      /\ \A i \in DOMAIN clients' : clients'[i].intentionallyClosed /\ clients'[i].task = 0
  BY LetGo DEF Stop
<1>2. /\ sockets' \in Seq(Socket) /\ Len(sockets') = Len(sockets)
      /\ DOMAIN sockets' = DOMAIN sockets
      /\ \A s \in DOMAIN sockets : sockets'[s].client = sockets[s].client
      /\ \A s \in DOMAIN sockets : ~sockets'[s].open
  BY NoneOpen DEF Stop
<1>3. budget' \in [Kind -> Nat]
  BY SpentType DEF Stop, Inv, Kind
<1>4. Len(sockets) \in Nat /\ Len(clients) \in Nat
  BY LenProperties DEF Inv, TypeOK
<1>5. TypeOK'
  <2>1. signaling' \in 0..Len(clients')
    BY <1>1, <1>4 DEF Stop
  <2>2. \A s \in DOMAIN sockets' : sockets'[s].client \in DOMAIN clients'
    BY <1>1, <1>2 DEF Inv, TypeOK
  <2>3. rooms' \in [Remote -> SUBSET Room] /\ met' \in [Remote -> 0..Len(sockets')]
    BY <1>2 DEF Stop, NoPeers, Inv, TypeOK
  <2>4. \A i \in DOMAIN clients' :
          /\ clients'[i].task \in 0..Len(sockets')
          /\ clients'[i].task # 0 => sockets'[clients'[i].task].client = i
          /\ i # signaling' => clients'[i].intentionallyClosed
    BY <1>1, <1>2, <1>4
  <2> QED
    BY <1>1, <1>2, <1>3, <2>1, <2>2, <2>3, <2>4 DEF Stop, Inv, TypeOK
<1>6. OneConnection' /\ OneSocketEach'
  BY <1>1, <1>2 DEF OneConnection, OneSocketEach
<1> QED
  BY <1>5, <1>6 DEF Inv

LEMMA RestartInv ==
  ASSUME Inv, Restart
  PROVE  Inv'
<1> DEFINE old == [clients EXCEPT ![signaling] = Disconnected(clients[signaling])]
<1>1. /\ old \in Seq(Client) /\ Len(old) = Len(clients)
      /\ \A i \in DOMAIN old : old[i].intentionallyClosed /\ old[i].task = 0
  BY LetGo DEF Restart
<1>2. clients' = Append(old, Connecting(NewClient)) /\ signaling' = Len(clients')
  BY DEF Restart
<1> HIDE DEF old
<1>3. /\ sockets' \in Seq(Socket) /\ Len(sockets') = Len(sockets)
      /\ \A s \in DOMAIN sockets' :
           ~sockets'[s].open /\ sockets'[s].client \in DOMAIN clients
  BY NoneOpen DEF Restart, Inv, TypeOK
<1>4. budget' \in [Kind -> Nat] /\ rooms' \in [Remote -> SUBSET Room]
  BY SpentType DEF Restart, NoPeers, Inv, Kind
<1> QED
  BY <1>1, <1>2, <1>3, <1>4, StartedInv DEF Restart, NoPeers

LEMMA NetworkChangedInv ==
  ASSUME Inv, NetworkChanged
  PROVE  Inv'
<1> DEFINE client == Reconnecting(clients[signaling])
<1>1. signaling \in DOMAIN clients /\ client \in Client /\ client.task = 0
  BY ClientChanges DEF NetworkChanged, Inv, TypeOK
<1>2. clients' = [clients EXCEPT ![signaling] = client]
  BY DEF NetworkChanged
<1> HIDE DEF client
<1>3. /\ clients' \in Seq(Client) /\ Len(clients') = Len(clients)
      /\ DOMAIN clients' = DOMAIN clients
      /\ \A i \in DOMAIN clients :
           clients'[i] = IF i = signaling THEN client ELSE clients[i]
  BY <1>1, <1>2, Replaced
<1>4. /\ sockets' \in Seq(Socket) /\ Len(sockets') = Len(sockets)
      /\ DOMAIN sockets' = DOMAIN sockets
      /\ \A s \in DOMAIN sockets : sockets'[s].client = sockets[s].client
      /\ \A s \in DOMAIN sockets : ~sockets'[s].open
  BY NoneOpen DEF NetworkChanged
<1>5. \A i \in DOMAIN clients' : clients'[i].task = 0
  BY <1>1, <1>3 DEF Inv, OneSocketEach
<1>6. budget' \in [Kind -> Nat] /\ Len(sockets) \in Nat
  BY SpentType, LenProperties DEF NetworkChanged, Inv, TypeOK, Kind
<1>7. TypeOK'
  <2>1. \A i \in DOMAIN clients' : i # signaling' => clients'[i].intentionallyClosed
    BY <1>3 DEF NetworkChanged, Inv, TypeOK
  <2>2. \A s \in DOMAIN sockets' : sockets'[s].client \in DOMAIN clients'
    BY <1>3, <1>4 DEF Inv, TypeOK
  <2>3. \A i \in DOMAIN clients' : clients'[i].task \in 0..Len(sockets')
    BY <1>4, <1>5, <1>6
  <2> QED
    BY <1>3, <1>4, <1>5, <1>6, <2>1, <2>2, <2>3 DEF NetworkChanged, Inv, TypeOK
<1>8. OneConnection' /\ OneSocketEach'
  BY <1>4, <1>5 DEF OneConnection, OneSocketEach
<1> QED
  BY <1>7, <1>8 DEF Inv

-----------------------------------------------------------------------------
(* The tasks of a SignalingClient.                                         *)

LEMMA RetryIsDueInv ==
  ASSUME Inv, NEW i \in DOMAIN clients, RetryIsDue(i)
  PROVE  Inv'
<1> DEFINE more == clients[i].due + 1
           client == [clients[i] EXCEPT !.armed = FALSE, !.due = more]
<1>1. clients[i] \in Client /\ more \in Nat
  <2>1. clients[i] \in Client
    BY DEF Inv, TypeOK
  <2>2. clients[i].due \in Nat
    BY <2>1 DEF Client
  <2> QED
    BY <2>1, <2>2
<1>2. clients' = [clients EXCEPT ![i] = client]
  BY Zenon DEF RetryIsDue
<1> HIDE DEF more
<1>3. /\ client \in Client /\ client.task = clients[i].task
      /\ client.intentionallyClosed = clients[i].intentionallyClosed
      /\ client.generation = clients[i].generation
      /\ client.fetching = clients[i].fetching
  BY <1>1 DEF Client
<1> HIDE DEF client
<1>4. budget' \in [Kind -> Nat]
  BY DEF RetryIsDue, Inv, TypeOK
<1> QED
  BY <1>2, <1>3, <1>4, ClientChangesOnly DEF RetryIsDue

LEMMA RetryInv ==
  ASSUME Inv, NEW i \in DOMAIN clients, Retry(i)
  PROVE  Inv'
<1> DEFINE fewer == clients[i].due - 1
           woken == [clients[i] EXCEPT !.due = fewer]
           client == IF woken.intentionallyClosed THEN woken ELSE Connecting(woken)
<1>1. clients[i] \in Client /\ fewer \in Nat
  <2>1. clients[i] \in Client
    BY DEF Inv, TypeOK
  <2>2. clients[i].due \in Nat
    BY <2>1 DEF Client
  <2>3. clients[i].due > 0
    BY Zenon DEF Retry
  <2> QED
    BY <2>1, <2>2, <2>3
<1>2. clients' = [clients EXCEPT ![i] = client]
  BY DEF Retry
<1> HIDE DEF fewer
<1>3. /\ woken \in Client /\ woken.task = clients[i].task
      /\ woken.intentionallyClosed = clients[i].intentionallyClosed
      /\ woken.generation = clients[i].generation
      /\ woken.fetching = clients[i].fetching
  BY <1>1 DEF Client
<1> HIDE DEF woken
<1>4. /\ client \in Client /\ client.task = clients[i].task
      /\ clients[i].intentionallyClosed => client.intentionallyClosed
      /\ client.task # 0 => client.generation = clients[i].generation
                            /\ client.fetching = clients[i].fetching
  <2>1. CASE woken.intentionallyClosed
    <3>1. client = woken
      BY <2>1
    <3> HIDE DEF client
    <3> QED
      BY <1>3, <3>1
  <2>2. CASE ~woken.intentionallyClosed
    <3>1. client = Connecting(woken)
      BY <2>2
    <3> HIDE DEF client
    <3>2. /\ client \in Client /\ client.task = woken.task
          /\ woken.task # 0 => client = woken
      BY <1>3, <3>1, ClientChanges
    <3> QED
      BY <1>3, <2>2, <3>2
  <2> QED
    BY <2>1, <2>2
<1> HIDE DEF client
<1>5. budget' \in [Kind -> Nat]
  BY DEF Retry, Inv, TypeOK
<1> QED
  BY <1>2, <1>4, <1>5, ClientChangesOnly DEF Retry

\* The socket that is opened is the only one: its client is the current one, and had none.
LEMMA OpenedInv ==
  ASSUME Inv, NEW i \in DOMAIN clients, NEW generation \in clients[i].fetching,
         generation = clients[i].generation, ~clients[i].intentionallyClosed,
         NEW client \in Client, clients' = [clients EXCEPT ![i] = client],
         sockets' = Append(sockets, NewSocket(i, generation)),
         client.task = Len(sockets'), client.generation = clients[i].generation,
         client.fetching = clients[i].fetching \ {generation},
         UNCHANGED <<signaling, rooms, met, there, budget>>
  PROVE  Inv'
<1>1. i = signaling /\ i \in Nat \ {0} /\ generation \in Nat
  <2>1. i = signaling /\ i \in Nat \ {0} /\ clients[i] \in Client
    BY DEF Inv, TypeOK
  <2>2. clients[i].fetching \in SUBSET Nat
    BY <2>1 DEF Client
  <2> QED
    BY <2>1, <2>2
<1>2. \A j \in DOMAIN clients : clients[j].task = 0
  BY <1>1 DEF Inv, OneSocketEach
<1>3. \A s \in DOMAIN sockets : ~sockets[s].open
  <2>1. \A s \in DOMAIN sockets : s # 0
    BY DEF Inv, TypeOK
  <2> QED
    BY <1>1, <1>2, <2>1 DEF Inv, OneConnection
<1>4. NewSocket(i, generation) \in Socket /\ NewSocket(i, generation).client = i
  BY <1>1, NewTypes DEF NewSocket
<1> DEFINE new == NewSocket(i, generation)
<1> HIDE DEF new
<1>5. /\ sockets' \in Seq(Socket) /\ Len(sockets') = Len(sockets) + 1
      /\ DOMAIN sockets' = DOMAIN sockets \union {Len(sockets')}
      /\ \A s \in DOMAIN sockets : sockets'[s] = sockets[s] /\ s # Len(sockets')
      /\ sockets'[Len(sockets')] = new
  <2>1. sockets \in Seq(Socket) /\ new \in Socket /\ sockets' = Append(sockets, new)
    BY <1>4 DEF Inv, TypeOK, new
  <2> QED
    BY <2>1, Appended
<1>6. /\ clients' \in Seq(Client) /\ Len(clients') = Len(clients)
      /\ DOMAIN clients' = DOMAIN clients
      /\ \A j \in DOMAIN clients : clients'[j] = IF j = i THEN client ELSE clients[j]
  BY Replaced
<1>7. Len(sockets) \in Nat /\ Len(sockets') \in Nat
  BY <1>5, LenProperties DEF Inv, TypeOK
<1>8. new.client = i
  BY <1>4 DEF new
<1>9. \A j \in DOMAIN clients' :
        /\ j = i => clients'[j].task = Len(sockets')
        /\ j # i => clients'[j].task = 0 /\ clients'[j] = clients[j]
  BY <1>2, <1>6
<1>10. TypeOK'
  <2>1. \A j \in DOMAIN clients' :
          /\ clients'[j].task \in 0..Len(sockets')
          /\ clients'[j].task # 0 => sockets'[clients'[j].task].client = j
          /\ j # signaling' => clients'[j].intentionallyClosed
    <3>1. \A j \in DOMAIN clients' : clients'[j].task \in 0..Len(sockets')
      BY <1>7, <1>9
    <3>2. \A j \in DOMAIN clients' :
            clients'[j].task # 0 => sockets'[clients'[j].task].client = j
      BY <1>5, <1>8, <1>9
    <3>3. \A j \in DOMAIN clients' : j # signaling' => clients'[j].intentionallyClosed
      BY <1>1, <1>6, <1>9 DEF Inv, TypeOK
    <3> QED
      BY <3>1, <3>2, <3>3
  <2>2. \A s \in DOMAIN sockets' : sockets'[s].client \in DOMAIN clients'
    BY <1>5, <1>6, <1>8 DEF Inv, TypeOK
  <2>3. met' \in [Remote -> 0..Len(sockets')]
    <3>1. 0..Len(sockets) \subseteq 0..Len(sockets')
      BY <1>5, <1>7
    <3> QED
      BY <3>1 DEF Inv, TypeOK
  <2> QED
    BY <1>5, <1>6, <2>1, <2>2, <2>3 DEF Inv, TypeOK
<1>11. OneConnection'
  BY <1>1, <1>3, <1>5, <1>6, <1>9 DEF OneConnection
<1>12. OneSocketEach'
  BY <1>1, <1>6, <1>9 DEF OneSocketEach
<1> QED
  BY <1>10, <1>11, <1>12 DEF Inv

LEMMA ConfigFetchedInv ==
  ASSUME Inv, NEW i \in DOMAIN clients, NEW generation \in clients[i].fetching,
         ConfigFetched(i, generation)
  PROVE  Inv'
<1> DEFINE awaited == clients[i].fetching \ {generation}
           client == [clients[i] EXCEPT !.fetching = awaited]
           stale == generation # client.generation \/ client.intentionallyClosed
<1>1. clients[i] \in Client
  BY DEF Inv, TypeOK
<1>2. awaited \in SUBSET Nat /\ awaited \subseteq clients[i].fetching
  BY <1>1 DEF Client
<1>3. \/ /\ clients' = [clients EXCEPT ![i] = client]
         /\ UNCHANGED <<sockets, budget>>
      \/ /\ ~stale
         /\ sockets' = Append(sockets, NewSocket(i, generation))
         /\ clients' = [clients EXCEPT ![i] = [client EXCEPT !.task = Len(sockets')]]
         /\ UNCHANGED budget
      \/ /\ Spend("badConfig")
         /\ clients' = [clients EXCEPT ![i] = [client EXCEPT !.state = "failed"]]
         /\ UNCHANGED sockets
  BY Zenon DEF ConfigFetched
<1>4. UNCHANGED <<signaling, rooms, met, there>>
  BY DEF ConfigFetched
<1> HIDE DEF awaited
<1>5. /\ client \in Client /\ client.task = clients[i].task
      /\ client.intentionallyClosed = clients[i].intentionallyClosed
      /\ client.generation = clients[i].generation
      /\ client.fetching = awaited
  BY <1>1, <1>2 DEF Client
<1>6. CASE /\ clients' = [clients EXCEPT ![i] = client]
           /\ UNCHANGED <<sockets, budget>>
  <2> HIDE DEF client
  <2>1. budget' \in [Kind -> Nat]
    BY <1>6 DEF Inv, TypeOK
  <2> QED
    BY <1>2, <1>4, <1>5, <1>6, <2>1, ClientChangesOnly
<1>7. CASE /\ ~stale
           /\ sockets' = Append(sockets, NewSocket(i, generation))
           /\ clients' = [clients EXCEPT ![i] = [client EXCEPT !.task = Len(sockets')]]
           /\ UNCHANGED budget
  <2>1. generation = clients[i].generation /\ ~clients[i].intentionallyClosed
    BY <1>5, <1>7
  <2> HIDE DEF client
  <2>2. Len(sockets') \in Nat
    <3>1. i \in Nat \ {0} /\ sockets \in Seq(Socket)
      BY DEF Inv, TypeOK
    <3>2. generation \in Nat
      BY <1>1 DEF Client
    <3>3. NewSocket(i, generation) \in Socket
      BY <3>1, <3>2, NewTypes
    <3> HIDE DEF NewSocket
    <3> QED
      BY <1>7, <3>1, <3>3
  <2> DEFINE last == Len(sockets')
             opening == [client EXCEPT !.task = last]
  <2>3. clients' = [clients EXCEPT ![i] = opening]
    BY <1>7
  <2> HIDE DEF last
  <2>4. /\ opening \in Client /\ opening.task = last
        /\ opening.generation = client.generation /\ opening.fetching = client.fetching
    BY <1>5, <2>2 DEF Client, last
  <2> HIDE DEF opening
  <2> QED
    <3>1. /\ opening.task = Len(sockets')
          /\ opening.generation = clients[i].generation
          /\ opening.fetching = clients[i].fetching \ {generation}
      BY <1>5, <2>4 DEF awaited, last
    <3>2. UNCHANGED <<signaling, rooms, met, there, budget>>
      BY <1>4, <1>7
    <3>3. sockets' = Append(sockets, NewSocket(i, generation))
      BY <1>7
    <3> HIDE DEF awaited, stale
    <3> QED
      BY <2>1, <2>3, <2>4, <3>1, <3>2, <3>3, OpenedInv
<1>8. CASE /\ Spend("badConfig")
           /\ clients' = [clients EXCEPT ![i] = [client EXCEPT !.state = "failed"]]
           /\ UNCHANGED sockets
  <2> DEFINE given == [client EXCEPT !.state = "failed"]
  <2> HIDE DEF client
  <2>1. /\ given \in Client /\ given.task = client.task
        /\ given.intentionallyClosed = client.intentionallyClosed
        /\ given.generation = client.generation /\ given.fetching = client.fetching
    BY <1>5 DEF Client
  <2>2. clients' = [clients EXCEPT ![i] = given] /\ UNCHANGED sockets
    BY <1>8
  <2> HIDE DEF given
  <2>3. budget' \in [Kind -> Nat]
    BY <1>8, SpentType DEF Inv, Kind
  <2> QED
    BY <1>2, <1>4, <1>5, <2>1, <2>2, <2>3, ClientChangesOnly
<1> QED
  BY <1>3, <1>6, <1>7, <1>8

LEMMA IgnoreStaleInv ==
  ASSUME Inv, NEW s \in DOMAIN sockets, IgnoreStale(s)
  PROVE  Inv'
<1> DEFINE nothing == <<>>
           socket == [sockets[s] EXCEPT !.inbox = nothing]
<1>1. sockets[s] \in Socket /\ nothing \in Seq(Frame)
  BY DEF Inv, TypeOK
<1> HIDE DEF nothing
<1>2. /\ socket \in Socket /\ socket.client = sockets[s].client
      /\ socket.open = sockets[s].open
  BY <1>1 DEF Socket
<1>3. sockets' = [sockets EXCEPT ![s] = socket]
  BY DEF IgnoreStale, nothing
<1> HIDE DEF socket
<1>4. budget' \in [Kind -> Nat]
  BY DEF IgnoreStale, Inv, TypeOK
<1> QED
  BY <1>2, <1>3, <1>4, SocketChangesOnly DEF IgnoreStale

\* The client that loses its socket is the current one: no other has any.
LEMMA HandleDropInv ==
  ASSUME Inv, NEW s \in DOMAIN sockets, HandleDrop(s)
  PROVE  Inv'
<1> DEFINE i == sockets[s].client
           client == [clients[i] EXCEPT !.task = 0, !.state = "waitingToRetry",
                        !.armed = TRUE]
<1>1. i \in DOMAIN clients /\ clients[i] \in Client /\ s # 0
  BY DEF Inv, TypeOK
<1>2. clients' = [clients EXCEPT ![i] = client]
  BY Zenon DEF HandleDrop
<1>3. clients[i].task = s /\ ~sockets[s].open
  BY DEF HandleDrop, Owner
<1> HIDE DEF i
<1>4. i = signaling
  BY <1>1, <1>3 DEF Inv, OneSocketEach
<1>5. client \in Client /\ client.task = 0
  BY <1>1 DEF Client
<1> HIDE DEF client
<1>6. /\ clients' \in Seq(Client) /\ Len(clients') = Len(clients)
      /\ DOMAIN clients' = DOMAIN clients
      /\ \A j \in DOMAIN clients : clients'[j] = IF j = i THEN client ELSE clients[j]
  BY <1>1, <1>2, <1>5, Replaced
<1>7. \A j \in DOMAIN clients' : clients'[j].task = 0
  BY <1>4, <1>5, <1>6 DEF Inv, OneSocketEach
<1>8. \A t \in DOMAIN sockets : ~sockets[t].open
  BY <1>3, <1>4 DEF Inv, OneConnection
<1>9. /\ UNCHANGED <<signaling, sockets, there, budget, met>>
      /\ rooms' \in [Remote -> SUBSET Room]
  BY DEF HandleDrop, NoPeers
<1>10. TypeOK'
  <2>1. \A j \in DOMAIN clients' : j # signaling' => clients'[j].intentionallyClosed
    BY <1>4, <1>6, <1>9 DEF Inv, TypeOK
  <2>2. Len(sockets) \in Nat
    BY LenProperties DEF Inv, TypeOK
  <2>3. \A j \in DOMAIN clients' : clients'[j].task \in 0..Len(sockets')
    BY <1>7, <1>9, <2>2
  <2> QED
    BY <1>6, <1>7, <1>9, <2>1, <2>3 DEF Inv, TypeOK
<1>11. OneConnection' /\ OneSocketEach'
  BY <1>7, <1>8, <1>9 DEF OneConnection, OneSocketEach
<1> QED
  BY <1>10, <1>11 DEF Inv

-----------------------------------------------------------------------------
(* The frames.                                                             *)

\* A socket whose first frame was taken off: nothing else about it changed.
LEMMA ConsumedSocket ==
  ASSUME Inv, NEW s \in DOMAIN sockets, sockets[s].inbox # <<>>
  PROVE  /\ Consumed(s) \in Socket
         /\ Consumed(s).client = sockets[s].client
         /\ Consumed(s).open = sockets[s].open
         /\ Head(sockets[s].inbox) \in Frame
<1>1. sockets[s] \in Socket
  BY DEF Inv, TypeOK
<1>2. sockets[s].inbox \in Seq(Frame)
  BY <1>1 DEF Socket
<1> DEFINE left == Tail(sockets[s].inbox)
<1>3. left \in Seq(Frame) /\ Head(sockets[s].inbox) \in Frame
  BY <1>2, HeadTailProperties
<1>4. Consumed(s) = [sockets[s] EXCEPT !.inbox = left]
  BY DEF Consumed
<1> HIDE DEF left
<1>5. /\ [sockets[s] EXCEPT !.inbox = left] \in Socket
      /\ [sockets[s] EXCEPT !.inbox = left].client = sockets[s].client
      /\ [sockets[s] EXCEPT !.inbox = left].open = sockets[s].open
  BY <1>1, <1>3 DEF Socket
<1> QED
  BY <1>3, <1>4, <1>5

\* What all frames have in common, whatever they do to the list of peers.
LEMMA FrameHandled ==
  ASSUME Inv, NEW s \in DOMAIN sockets, NEW type, Handles(s, type),
         NEW socket \in Socket, sockets' = [sockets EXCEPT ![s] = socket],
         socket.client = sockets[s].client, socket.open = sockets[s].open,
         rooms' \in [Remote -> SUBSET Room], met' \in [Remote -> 0..Len(sockets)]
  PROVE  Inv'
<1> DEFINE i == sockets[s].client
           client == [clients[i] EXCEPT !.state = "connected"]
<1>1. i \in DOMAIN clients /\ clients[i] \in Client
  BY DEF Inv, TypeOK
<1>2. clients' = [clients EXCEPT ![i] = client]
  BY Zenon DEF Handles
<1>3. UNCHANGED <<signaling, there, budget>>
  BY DEF Handles
<1> HIDE DEF i
<1>4. /\ client \in Client /\ client.task = clients[i].task
      /\ client.intentionallyClosed = clients[i].intentionallyClosed
      /\ client.generation = clients[i].generation
      /\ client.fetching = clients[i].fetching
  BY <1>1 DEF Client
<1> HIDE DEF client
<1>5. /\ clients' \in Seq(Client) /\ Len(clients') = Len(clients)
      /\ DOMAIN clients' = DOMAIN clients
      /\ \A j \in DOMAIN clients : clients'[j] = IF j = i THEN client ELSE clients[j]
  BY <1>1, <1>2, <1>4, Replaced
<1>6. /\ sockets' \in Seq(Socket) /\ Len(sockets') = Len(sockets)
      /\ DOMAIN sockets' = DOMAIN sockets /\ DOMAIN sockets = 1..Len(sockets)
      /\ \A t \in DOMAIN sockets : sockets'[t] = IF t = s THEN socket ELSE sockets[t]
  BY ExceptSeq DEF Inv, TypeOK
<1>7. \A j \in DOMAIN clients : clients'[j].task = clients[j].task
  BY <1>4, <1>5
<1>8. \A t \in DOMAIN sockets : sockets'[t].client = sockets[t].client
  BY <1>6
<1>9. TypeOK'
  <2>1. \A j \in DOMAIN clients' :
          /\ clients'[j].task \in 0..Len(sockets')
          /\ clients'[j].task # 0 => sockets'[clients'[j].task].client = j
    BY <1>5, <1>6, <1>7, <1>8 DEF Inv, TypeOK
  <2>2. \A j \in DOMAIN clients' : j # signaling' => clients'[j].intentionallyClosed
    BY <1>3, <1>4, <1>5 DEF Inv, TypeOK
  <2>3. \A t \in DOMAIN sockets' : sockets'[t].client \in DOMAIN clients'
    BY <1>5, <1>6, <1>8 DEF Inv, TypeOK
  <2> QED
    BY <1>3, <1>5, <1>6, <2>1, <2>2, <2>3 DEF Inv, TypeOK
<1>10. Calm
  BY <1>3, <1>4, <1>5, <1>6 DEF Calm
<1> QED
  BY <1>9, <1>10, CalmSteps

LEMMA HandleDisplayNameInv ==
  ASSUME Inv, NEW s \in DOMAIN sockets, HandleDisplayName(s)
  PROVE  Inv'
<1> DEFINE asks == IF sockets[s].open THEN Room ELSE {}
           socket == [Consumed(s) EXCEPT !.asked = asks]
<1>1. /\ Consumed(s) \in Socket
      /\ Consumed(s).client = sockets[s].client /\ Consumed(s).open = sockets[s].open
  BY ConsumedSocket DEF HandleDisplayName, Handles
<1>2. sockets' = [sockets EXCEPT ![s] = socket]
  BY Zenon DEF HandleDisplayName
<1>3. asks \in SUBSET Room
  OBVIOUS
<1> HIDE DEF asks
<1>4. /\ socket \in Socket
      /\ socket.client = sockets[s].client /\ socket.open = sockets[s].open
  BY <1>1, <1>3 DEF Socket
<1> HIDE DEF socket
<1>5. rooms' \in [Remote -> SUBSET Room] /\ met' \in [Remote -> 0..Len(sockets)]
  BY DEF HandleDisplayName, Inv, TypeOK
<1> QED
  BY <1>2, <1>4, <1>5, FrameHandled DEF HandleDisplayName

LEMMA Refreshed ==
  ASSUME Inv, NEW s \in DOMAIN sockets, NEW present \in SUBSET Remote, NEW room \in Room,
         CreateOrRefresh(s, present, room)
  PROVE  rooms' \in [Remote -> SUBSET Room] /\ met' \in [Remote -> 0..Len(sockets)]
<1>1. s \in 0..Len(sockets)
  BY DEF Inv, TypeOK
<1> QED
  BY <1>1 DEF CreateOrRefresh, Inv, TypeOK

LEMMA HandlePeersInv ==
  ASSUME Inv, NEW s \in DOMAIN sockets, HandlePeers(s)
  PROVE  Inv'
<1> DEFINE frame == Head(sockets[s].inbox)
<1>1. /\ Consumed(s) \in Socket
      /\ Consumed(s).client = sockets[s].client /\ Consumed(s).open = sockets[s].open
      /\ frame \in Frame
  BY ConsumedSocket DEF HandlePeers, Handles
<1>2. frame.type = "Peers" /\ CreateOrRefresh(s, frame.peers, frame.room)
  BY DEF HandlePeers, Handles
<1> HIDE DEF frame
<1>3. frame.room \in Room /\ frame.peers \in SUBSET Remote
  BY <1>1, <1>2, FrameFields
<1>4. rooms' \in [Remote -> SUBSET Room] /\ met' \in [Remote -> 0..Len(sockets)]
  BY <1>2, <1>3, Refreshed
<1> QED
  BY <1>1, <1>4, FrameHandled DEF HandlePeers

LEMMA HandlePeerJoinedInv ==
  ASSUME Inv, NEW s \in DOMAIN sockets, HandlePeerJoined(s)
  PROVE  Inv'
<1> DEFINE frame == Head(sockets[s].inbox)
<1>1. /\ Consumed(s) \in Socket
      /\ Consumed(s).client = sockets[s].client /\ Consumed(s).open = sockets[s].open
      /\ frame \in Frame
  BY ConsumedSocket DEF HandlePeerJoined, Handles
<1>2. frame.type = "PeerJoined" /\ CreateOrRefresh(s, {frame.peer}, frame.room)
  BY DEF HandlePeerJoined, Handles
<1> HIDE DEF frame
<1>3. frame.room \in Room /\ {frame.peer} \in SUBSET Remote
  BY <1>1, <1>2, FrameFields
<1>4. rooms' \in [Remote -> SUBSET Room] /\ met' \in [Remote -> 0..Len(sockets)]
  BY <1>2, <1>3, Refreshed
<1> QED
  BY <1>1, <1>4, FrameHandled DEF HandlePeerJoined

LEMMA HandlePeerLeftInv ==
  ASSUME Inv, NEW s \in DOMAIN sockets, HandlePeerLeft(s)
  PROVE  Inv'
<1> DEFINE frame == Head(sockets[s].inbox)
<1>1. /\ Consumed(s) \in Socket
      /\ Consumed(s).client = sockets[s].client /\ Consumed(s).open = sockets[s].open
      /\ frame \in Frame
  BY ConsumedSocket DEF HandlePeerLeft, Handles
<1> DEFINE left == Without(rooms[frame.peer], frame.room, frame.disconnect)
<1>2. frame.type = "PeerLeft" /\ rooms' = [rooms EXCEPT ![frame.peer] = left]
  BY DEF HandlePeerLeft, Handles
<1> HIDE DEF frame
<1>3. frame.peer \in Remote
  BY <1>1, <1>2, FrameFields
<1>4. left \in SUBSET Room
  BY <1>3 DEF Without, Inv, TypeOK
<1> HIDE DEF left
<1>5. rooms' \in [Remote -> SUBSET Room] /\ met' \in [Remote -> 0..Len(sockets)]
  BY <1>2, <1>3, <1>4 DEF HandlePeerLeft, Inv, TypeOK
<1> QED
  BY <1>1, <1>5, FrameHandled DEF HandlePeerLeft

-----------------------------------------------------------------------------
(* The server.                                                             *)

LEMMA DropInv ==
  ASSUME Inv, NEW s \in DOMAIN sockets, Drop(s)
  PROVE  Inv'
<1>1. PICK n \in 0..Len(sockets[s].inbox) :
        sockets' = [sockets EXCEPT ![s] =
          [sockets[s] EXCEPT !.open = FALSE, !.asked = {}, !.joined = {},
                             !.inbox = SubSeq(@, 1, n)]]
  BY Zenon DEF Drop
<1> DEFINE kept == SubSeq(sockets[s].inbox, 1, n)
           socket == [sockets[s] EXCEPT !.open = FALSE, !.asked = {}, !.joined = {},
                                        !.inbox = kept]
<1>2. sockets[s] \in Socket
  BY DEF Inv, TypeOK
<1>3. kept \in Seq(Frame)
  <2>1. sockets[s].inbox \in Seq(Frame)
    BY <1>2 DEF Socket
  <2> QED
    BY <2>1, SubSeqProperties, LenProperties
<1>4. sockets' = [sockets EXCEPT ![s] = socket]
  BY <1>1
<1> HIDE DEF kept
<1>5. /\ socket \in Socket
      /\ socket.client = sockets[s].client /\ socket.open = FALSE
  BY <1>2, <1>3 DEF Socket
<1> HIDE DEF socket
<1>6. budget' \in [Kind -> Nat]
  BY SpentType DEF Drop, Inv, Kind
<1> QED
  BY <1>4, <1>5, <1>6, SocketChangesOnly DEF Drop

LEMMA AdmitInv ==
  ASSUME Inv, NEW s \in DOMAIN sockets, NEW room \in Room, Admit(s, room)
  PROVE  Inv'
<1> DEFINE told == [type |-> "Peers", room |-> room, peers |-> there[room]]
           heard == IF there[room] = {} THEN sockets[s].inbox
                    ELSE Append(sockets[s].inbox, told)
           joined == sockets[s].joined \union {room}
           socket == [sockets[s] EXCEPT !.joined = joined, !.inbox = heard]
<1>1. sockets[s] \in Socket
  BY DEF Inv, TypeOK
<1>2. there[room] \in SUBSET Remote
  BY DEF Inv, TypeOK
<1>3. heard \in Seq(Frame)
  <2>1. told \in Frame
    BY <1>2, FrameTypes
  <2>2. sockets[s].inbox \in Seq(Frame)
    BY <1>1 DEF Socket
  <2> HIDE DEF told
  <2>3. Append(sockets[s].inbox, told) \in Seq(Frame)
    BY <2>1, <2>2, AppendProperties
  <2> QED
    BY <2>2, <2>3
<1>4. joined \in SUBSET Room
  BY <1>1 DEF Socket
<1>5. sockets' = [sockets EXCEPT ![s] = socket]
  BY Zenon DEF Admit
<1> HIDE DEF heard, joined
<1>6. /\ socket \in Socket
      /\ socket.client = sockets[s].client /\ socket.open = sockets[s].open
  BY <1>1, <1>3, <1>4 DEF Socket
<1> HIDE DEF socket
<1>7. budget' \in [Kind -> Nat]
  BY DEF Admit, Inv, TypeOK
<1> QED
  BY <1>5, <1>6, <1>7, SocketChangesOnly DEF Admit

LEMMA ToldInv ==
  ASSUME Inv, NEW room \in Room, NEW frame \in Frame, Tell(room, frame),
         UNCHANGED <<clients, signaling, rooms, met>>,
         there' \in [Room -> SUBSET Remote], budget' \in [Kind -> Nat]
  PROVE  Inv'
<1> DEFINE now(s) == IF room \in sockets[s].joined
                     THEN [sockets[s] EXCEPT !.inbox = Append(@, frame)]
                     ELSE sockets[s]
<1>1. ASSUME NEW s \in DOMAIN sockets
      PROVE  /\ now(s) \in Socket
             /\ now(s).client = sockets[s].client /\ now(s).open = sockets[s].open
  <2> DEFINE longer == Append(sockets[s].inbox, frame)
             socket == [sockets[s] EXCEPT !.inbox = longer]
  <2>1. sockets[s] \in Socket
    BY DEF Inv, TypeOK
  <2>2. longer \in Seq(Frame)
    BY <2>1, AppendProperties DEF Socket
  <2>3. now(s) = IF room \in sockets[s].joined THEN socket ELSE sockets[s]
    OBVIOUS
  <2> HIDE DEF longer, now
  <2>4. /\ socket \in Socket
        /\ socket.client = sockets[s].client /\ socket.open = sockets[s].open
    BY <2>1, <2>2 DEF Socket
  <2> HIDE DEF socket
  <2> QED
    BY <2>1, <2>3, <2>4
<1>2. sockets' = [s \in DOMAIN sockets |-> now(s)]
  BY DEF Tell
<1> HIDE DEF now
<1>3. /\ DOMAIN sockets = 1..Len(sockets) /\ Len(sockets) \in Nat
  BY LenProperties DEF Inv, TypeOK
<1>4. sockets' \in Seq(Socket) /\ Len(sockets') = Len(sockets)
  BY <1>1, <1>2, <1>3
<1>5. /\ DOMAIN sockets' = DOMAIN sockets
      /\ \A s \in DOMAIN sockets : /\ sockets'[s].client = sockets[s].client
                                   /\ sockets'[s].open = sockets[s].open
  BY <1>1, <1>2
<1>6. TypeOK'
  <2>1. \A i \in DOMAIN clients :
          clients[i].task # 0 => clients[i].task \in DOMAIN sockets
    BY <1>3 DEF Inv, TypeOK
  <2> QED
    BY <1>4, <1>5, <2>1 DEF Inv, TypeOK
<1>7. Calm
  BY <1>5 DEF Calm
<1> QED
  BY <1>6, <1>7, CalmSteps

LEMMA RemoteEntersInv ==
  ASSUME Inv, NEW e \in Remote, NEW room \in Room, RemoteEnters(e, room)
  PROVE  Inv'
<1> DEFINE frame == [type |-> "PeerJoined", room |-> room, peer |-> e]
<1>1. frame \in Frame /\ Tell(room, frame)
  BY FrameTypes DEF RemoteEnters
<1> HIDE DEF frame
<1>2. there' \in [Room -> SUBSET Remote] /\ budget' \in [Kind -> Nat]
  BY SpentType DEF RemoteEnters, Inv, TypeOK, Kind
<1> QED
  BY <1>1, <1>2, ToldInv DEF RemoteEnters

LEMMA RemoteLeavesInv ==
  ASSUME Inv, NEW e \in Remote, NEW room \in Room, RemoteLeaves(e, room)
  PROVE  Inv'
<1>1. PICK disconnect \in BOOLEAN :
        Tell(room, [type |-> "PeerLeft", room |-> room, peer |-> e,
                    disconnect |-> disconnect])
  BY DEF RemoteLeaves
<1> DEFINE frame == [type |-> "PeerLeft", room |-> room, peer |-> e,
                     disconnect |-> disconnect]
<1>2. frame \in Frame /\ Tell(room, frame)
  BY <1>1, FrameTypes
<1> HIDE DEF frame
<1>3. there' \in [Room -> SUBSET Remote] /\ budget' \in [Kind -> Nat]
  BY SpentType DEF RemoteLeaves, Inv, TypeOK, Kind
<1> QED
  BY <1>2, <1>3, ToldInv DEF RemoteLeaves

-----------------------------------------------------------------------------
(* The specification.                                                      *)

LEMMA InitInv ==
  ASSUME Init
  PROVE  Inv
<1>1. TypeOK
  BY LimitsAssumption DEF Init, TypeOK
<1>2. OneConnection /\ OneSocketEach
  BY DEF Init, OneConnection, OneSocketEach
<1> QED
  BY <1>1, <1>2 DEF Inv

LEMMA TasksInv ==
  ASSUME Inv, Tasks
  PROVE  Inv'
<1>1. CASE \E i \in DOMAIN clients :
             \/ RetryIsDue(i) \/ Retry(i)
             \/ \E generation \in clients[i].fetching : ConfigFetched(i, generation)
  BY <1>1, RetryIsDueInv, RetryInv, ConfigFetchedInv
<1>2. CASE \E s \in DOMAIN sockets : SocketTask(s)
  BY <1>2, IgnoreStaleInv, HandleDropInv, HandleDisplayNameInv, HandlePeersInv,
     HandlePeerJoinedInv, HandlePeerLeftInv DEF SocketTask
<1> QED
  BY <1>1, <1>2 DEF Tasks

LEMMA StepInv ==
  ASSUME Inv, [Next]_vars
  PROVE  Inv'
<1>1. CASE User
  BY <1>1, StartInv, StopInv, RestartInv, NetworkChangedInv DEF User
<1>2. CASE Tasks
  BY <1>2, TasksInv
<1>3. CASE Server
  BY <1>3, DropInv, AdmitInv, RemoteEntersInv, RemoteLeavesInv DEF Server, Admissions
<1>4. CASE UNCHANGED vars
  BY <1>4 DEF vars, Inv, TypeOK, OneConnection, OneSocketEach
<1> QED
  BY <1>1, <1>2, <1>3, <1>4 DEF Next

\* Every client's socket is one it opened itself, and a client that was replaced or
\* stopped stays closed, through every retry, fetch and report that comes back late.
THEOREM TypeCorrect == Spec => []TypeOK
<1>1. Inv => TypeOK
  BY DEF Inv
<1> QED
  BY <1>1, InitInv, StepInv, PTL DEF Spec

\* "Guards against acting on callbacks from a socket we already replaced": the server
\* never sees two connections of this device, nor one of a device that was stopped.
THEOREM OneConnectionHolds == Spec => []OneConnection
<1>1. Inv => OneConnection
  BY DEF Inv
<1> QED
  BY <1>1, InitInv, StepInv, PTL DEF Spec

-----------------------------------------------------------------------------
(* The list of peers.                                                      *)

\* The frames that put a peer in a room of the list, and those that take it out.
Adds(frame, e, room) ==
  \/ frame.type = "Peers" /\ frame.room = room /\ e \in frame.peers
  \/ frame.type = "PeerJoined" /\ frame.room = room /\ frame.peer = e

Removes(frame, e, room) ==
  frame.type = "PeerLeft" /\ frame.peer = e /\ (frame.room = room \/ frame.disconnect)

AddedAfter(i, q, e, room) == \E j \in DOMAIN q : j > i /\ Adds(q[j], e, room)
RemovedAfter(i, q, e, room) == \E j \in DOMAIN q : j > i /\ Removes(q[j], e, room)

\* What the list says once these frames are handled, whatever it says before.
WillList(q, listed, e, room) ==
  /\ \A i \in DOMAIN q : Removes(q[i], e, room) => AddedAfter(i, q, e, room)
  /\ listed \/ AddedAfter(0, q, e, room)

WillNotList(q, listed, e, room) ==
  /\ \A i \in DOMAIN q : Adds(q[i], e, room) => RemovedAfter(i, q, e, room)
  /\ ~listed \/ RemovedAfter(0, q, e, room)

\* What a socket still delivers of a device and a room makes the list agree with the server.
Told(q, admitted, here, listed, e, room) ==
  /\ ~admitted => ~listed /\ ~AddedAfter(0, q, e, room)
  /\ admitted /\ here => WillList(q, listed, e, room)
  /\ admitted /\ ~here => WillNotList(q, listed, e, room)

\* A socket is heard as long as it is its client's, and one that was closed is in no room.
Heeded ==
  \A s \in DOMAIN sockets :
    /\ sockets[s].generation <= Owner(s).generation
    /\ Owner(s).task = s => IsCurrent(s)
    /\ IsCurrent(s) => Owner(s).task = s \/ (sockets[s].inbox = <<>> /\ ~sockets[s].open)
    /\ ~sockets[s].open => sockets[s].asked = {} /\ sockets[s].joined = {}

SessionKnown ==
  SameNetwork => \A e \in Remote : rooms[e] # {} =>
    signaling # 0 /\ clients[signaling].task # 0 /\ met[e] = clients[signaling].task

ListsKnown ==
  SameNetwork => \A s \in DOMAIN sockets : sockets[s].open =>
    \A e \in Remote, room \in Room :
      Told(sockets[s].inbox, room \in sockets[s].joined, e \in there[room],
           room \in rooms[e], e, room)

Within == budget.networkChange <= Limits.networkChange

ListInv == Heeded /\ SessionKnown /\ ListsKnown /\ Within

-----------------------------------------------------------------------------
(* Frames put last and taken first.                                        *)

LEMMA FrameNotBoth ==
  ASSUME NEW frame, NEW e, NEW room
  PROVE  ~(Adds(frame, e, room) /\ Removes(frame, e, room))
BY DEF Adds, Removes

LEMMA PutLast ==
  ASSUME NEW q \in Seq(Frame), NEW frame \in Frame, NEW longer, longer = Append(q, frame)
  PROVE  /\ longer \in Seq(Frame)
         /\ DOMAIN longer = DOMAIN q \union {Len(q) + 1}
         /\ \A i \in DOMAIN q : longer[i] = q[i] /\ i \in Nat /\ Len(q) + 1 > i
         /\ longer[Len(q) + 1] = frame
         /\ Len(q) + 1 > 0
<1>1. DOMAIN q = 1..Len(q) /\ Len(q) \in Nat
  BY LenProperties
<1>2. longer \in Seq(Frame) /\ Len(longer) = Len(q) + 1
  BY AppendProperties
<1>3. DOMAIN longer = 1..(Len(q) + 1)
  BY <1>2, LenProperties
<1> QED
  BY <1>1, <1>2, <1>3, AppendProperties

LEMMA TakenFirst ==
  ASSUME NEW q \in Seq(Frame), q # <<>>, NEW left, left = Tail(q)
  PROVE  /\ left \in Seq(Frame)
         /\ \A i \in DOMAIN q : i = 1 \/ (i - 1 \in DOMAIN left /\ i \in Nat /\ i > 1)
         /\ \A i \in DOMAIN left : i \in Nat /\ i > 0 /\ i + 1 \in DOMAIN q /\ left[i] = q[i + 1]
         /\ 1 \in DOMAIN q /\ q[1] = Head(q)
<1>1. DOMAIN q = 1..Len(q) /\ Len(q) \in Nat /\ Len(q) # 0
  BY LenProperties, EmptySeq
<1>2. left \in Seq(Frame) /\ Len(left) = Len(q) - 1
  BY HeadTailProperties
<1>3. DOMAIN left = 1..(Len(q) - 1)
  BY <1>2, LenProperties
<1>4. \A i \in DOMAIN left : left[i] = q[i + 1]
  BY <1>3, HeadTailProperties
<1> QED
  BY <1>1, <1>2, <1>3, <1>4

\* What a frame that is put last makes of what was to be said.
LEMMA NewsPutLast ==
  ASSUME NEW q \in Seq(Frame), NEW frame \in Frame, NEW longer, longer = Append(q, frame),
         NEW e, NEW room, NEW listed
  PROVE  /\ WillList(q, listed, e, room) /\ ~Removes(frame, e, room)
              => WillList(longer, listed, e, room)
         /\ Adds(frame, e, room) => WillList(longer, listed, e, room)
         /\ WillNotList(q, listed, e, room) /\ ~Adds(frame, e, room)
              => WillNotList(longer, listed, e, room)
         /\ Removes(frame, e, room) => WillNotList(longer, listed, e, room)
         /\ ~AddedAfter(0, q, e, room) /\ ~Adds(frame, e, room)
              => ~AddedAfter(0, longer, e, room)
<1> DEFINE last == Len(q) + 1
<1>1. /\ DOMAIN longer = DOMAIN q \union {last}
      /\ \A i \in DOMAIN q : longer[i] = q[i] /\ i \in Nat /\ last > i
      /\ longer[last] = frame
      /\ last > 0
  BY PutLast
<1> HIDE DEF last
<1>2. ~(Adds(frame, e, room) /\ Removes(frame, e, room))
  BY FrameNotBoth
<1>3. \A i : AddedAfter(i, q, e, room) => AddedAfter(i, longer, e, room)
  BY <1>1 DEF AddedAfter
<1>4. \A i : RemovedAfter(i, q, e, room) => RemovedAfter(i, longer, e, room)
  BY <1>1 DEF RemovedAfter
<1>5. Adds(frame, e, room) =>
        /\ AddedAfter(0, longer, e, room)
        /\ \A i \in DOMAIN q : AddedAfter(i, longer, e, room)
  BY <1>1 DEF AddedAfter
<1>6. Removes(frame, e, room) =>
        /\ RemovedAfter(0, longer, e, room)
        /\ \A i \in DOMAIN q : RemovedAfter(i, longer, e, room)
  BY <1>1 DEF RemovedAfter
<1>7. WillList(q, listed, e, room) /\ ~Removes(frame, e, room)
        => WillList(longer, listed, e, room)
  BY <1>1, <1>3 DEF WillList
<1>8. Adds(frame, e, room) => WillList(longer, listed, e, room)
  BY <1>1, <1>2, <1>5 DEF WillList
<1>9. WillNotList(q, listed, e, room) /\ ~Adds(frame, e, room)
        => WillNotList(longer, listed, e, room)
  BY <1>1, <1>4 DEF WillNotList
<1>10. Removes(frame, e, room) => WillNotList(longer, listed, e, room)
  BY <1>1, <1>2, <1>6 DEF WillNotList
<1>11. ~AddedAfter(0, q, e, room) /\ ~Adds(frame, e, room) => ~AddedAfter(0, longer, e, room)
  BY <1>1 DEF AddedAfter
<1> QED
  BY <1>7, <1>8, <1>9, <1>10, <1>11

\* A frame that says nothing of this device in this room changes nothing of it.
LEMMA NoNews ==
  ASSUME NEW q \in Seq(Frame), NEW frame \in Frame, NEW longer, longer = Append(q, frame),
         NEW e, NEW room, NEW listed, NEW admitted, NEW here,
         Told(q, admitted, here, listed, e, room),
         ~Adds(frame, e, room), ~Removes(frame, e, room)
  PROVE  Told(longer, admitted, here, listed, e, room)
BY NewsPutLast DEF Told

\* What the list says changes with the first frame as the frame says.
LEMMA NewsTakenFirst ==
  ASSUME NEW q \in Seq(Frame), q # <<>>, NEW left, left = Tail(q),
         NEW e, NEW room, NEW listed, NEW now, NEW admitted, NEW here,
         Told(q, admitted, here, listed, e, room),
         now <=> (listed \/ Adds(Head(q), e, room)) /\ ~Removes(Head(q), e, room)
  PROVE  Told(left, admitted, here, now, e, room)
<1> DEFINE first == Head(q)
<1>1. /\ \A i \in DOMAIN q : i = 1 \/ (i - 1 \in DOMAIN left /\ i \in Nat /\ i > 1)
      /\ \A i \in DOMAIN left :
           i \in Nat /\ i > 0 /\ i + 1 \in DOMAIN q /\ left[i] = q[i + 1]
      /\ 1 \in DOMAIN q /\ q[1] = first
  BY TakenFirst
<1>2. ~(Adds(first, e, room) /\ Removes(first, e, room))
  BY FrameNotBoth
<1>3. now <=> (listed \/ Adds(first, e, room)) /\ ~Removes(first, e, room)
  OBVIOUS
<1> HIDE DEF first
<1>4. /\ \A i \in DOMAIN left : AddedAfter(i + 1, q, e, room) => AddedAfter(i, left, e, room)
      /\ AddedAfter(1, q, e, room) => AddedAfter(0, left, e, room)
  <2>1. ASSUME NEW i \in Nat, AddedAfter(i + 1, q, e, room)
        PROVE  AddedAfter(i, left, e, room)
    <3>1. PICK j \in DOMAIN q : j > i + 1 /\ Adds(q[j], e, room)
      BY <2>1 DEF AddedAfter
    <3>2. j - 1 \in DOMAIN left /\ j \in Nat /\ j - 1 > i
      BY <1>1, <3>1
    <3>3. left[j - 1] = q[j]
      BY <1>1, <3>2
    <3> QED
      BY <3>1, <3>2, <3>3 DEF AddedAfter
  <2>2. \A i \in DOMAIN left : i \in Nat
    BY <1>1
  <2>3. AddedAfter(0 + 1, q, e, room) => AddedAfter(0, left, e, room)
    BY <2>1
  <2>4. 0 + 1 = 1
    OBVIOUS
  <2> QED
    BY <2>1, <2>2, <2>3, <2>4
<1>5. /\ \A i \in DOMAIN left :
           RemovedAfter(i + 1, q, e, room) => RemovedAfter(i, left, e, room)
      /\ RemovedAfter(1, q, e, room) => RemovedAfter(0, left, e, room)
  <2>1. ASSUME NEW i \in Nat, RemovedAfter(i + 1, q, e, room)
        PROVE  RemovedAfter(i, left, e, room)
    <3>1. PICK j \in DOMAIN q : j > i + 1 /\ Removes(q[j], e, room)
      BY <2>1 DEF RemovedAfter
    <3>2. j - 1 \in DOMAIN left /\ j \in Nat /\ j - 1 > i
      BY <1>1, <3>1
    <3>3. left[j - 1] = q[j]
      BY <1>1, <3>2
    <3> QED
      BY <3>1, <3>2, <3>3 DEF RemovedAfter
  <2>2. \A i \in DOMAIN left : i \in Nat
    BY <1>1
  <2>3. RemovedAfter(0 + 1, q, e, room) => RemovedAfter(0, left, e, room)
    BY <2>1
  <2>4. 0 + 1 = 1
    OBVIOUS
  <2> QED
    BY <2>1, <2>2, <2>3, <2>4
<1>6. AddedAfter(0, q, e, room) <=> Adds(first, e, room) \/ AddedAfter(0, left, e, room)
  <2>1. AddedAfter(0, q, e, room) => Adds(first, e, room) \/ AddedAfter(0, left, e, room)
    <3>1. AddedAfter(0, q, e, room) => Adds(first, e, room) \/ AddedAfter(1, q, e, room)
      BY <1>1 DEF AddedAfter
    <3> QED
      BY <1>4, <3>1
  <2>2. Adds(first, e, room) => AddedAfter(0, q, e, room)
    BY <1>1 DEF AddedAfter
  <2>3. AddedAfter(0, left, e, room) => AddedAfter(0, q, e, room)
    <3> SUFFICES ASSUME NEW j \in DOMAIN left, Adds(left[j], e, room)
                 PROVE  AddedAfter(0, q, e, room)
      BY DEF AddedAfter
    <3>1. j + 1 \in DOMAIN q /\ j + 1 > 0 /\ q[j + 1] = left[j]
      BY <1>1
    <3> QED
      BY <3>1 DEF AddedAfter
  <2> QED
    BY <2>1, <2>2, <2>3
<1>7. RemovedAfter(0, q, e, room) => Removes(first, e, room) \/ RemovedAfter(0, left, e, room)
  <2>1. RemovedAfter(0, q, e, room) => Removes(first, e, room) \/ RemovedAfter(1, q, e, room)
    BY <1>1 DEF RemovedAfter
  <2> QED
    BY <1>5, <2>1
<1>8. ASSUME WillList(q, listed, e, room)
      PROVE  WillList(left, now, e, room)
  <2>1. \A i \in DOMAIN left : Removes(left[i], e, room) => AddedAfter(i, left, e, room)
    BY <1>1, <1>4, <1>8 DEF WillList
  <2>2. Removes(first, e, room) => AddedAfter(1, q, e, room)
    BY <1>1, <1>8 DEF WillList
  <2>3. now \/ AddedAfter(0, left, e, room)
    BY <1>2, <1>3, <1>4, <1>6, <1>8, <2>2 DEF WillList
  <2> QED
    BY <2>1, <2>3 DEF WillList
<1>9. ASSUME WillNotList(q, listed, e, room)
      PROVE  WillNotList(left, now, e, room)
  <2>1. \A i \in DOMAIN left : Adds(left[i], e, room) => RemovedAfter(i, left, e, room)
    BY <1>1, <1>5, <1>9 DEF WillNotList
  <2>2. Adds(first, e, room) => RemovedAfter(1, q, e, room)
    BY <1>1, <1>9 DEF WillNotList
  <2>3. ~now \/ RemovedAfter(0, left, e, room)
    BY <1>2, <1>3, <1>5, <1>7, <1>9, <2>2 DEF WillNotList
  <2> QED
    BY <2>1, <2>3 DEF WillNotList
<1>10. ~listed /\ ~AddedAfter(0, q, e, room) => ~now /\ ~AddedAfter(0, left, e, room)
  BY <1>3, <1>6
<1> QED
  BY <1>8, <1>9, <1>10 DEF Told

-----------------------------------------------------------------------------
(* What steps make of the list.                                            *)

\* A client keeps its socket and its generation, or has none and a later one.
ClientsMove ==
  /\ DOMAIN clients \subseteq DOMAIN clients'
  /\ \A i \in DOMAIN clients :
       \/ /\ clients'[i].task = clients[i].task
          /\ clients'[i].generation = clients[i].generation
       \/ /\ clients'[i].task = 0
          /\ clients'[i].generation > clients[i].generation

\* No socket is opened, and one that is closed gets no more frames.
SocketsMove ==
  /\ DOMAIN sockets' = DOMAIN sockets
  /\ \A s \in DOMAIN sockets :
       /\ sockets'[s].client = sockets[s].client
       /\ sockets'[s].generation = sockets[s].generation
       /\ sockets'[s].open => sockets[s].open
       /\ ~sockets'[s].open => sockets'[s].asked = {} /\ sockets'[s].joined = {}
       /\ ~sockets[s].open /\ sockets[s].inbox = <<>> => sockets'[s].inbox = <<>>

LEMMA HeededSteps ==
  ASSUME Inv, Inv', Heeded, ClientsMove, SocketsMove
  PROVE  Heeded'
<1> SUFFICES ASSUME NEW s \in DOMAIN sockets
             PROVE  /\ sockets'[s].generation <= clients'[sockets'[s].client].generation
                    /\ clients'[sockets'[s].client].task = s =>
                         sockets'[s].generation = clients'[sockets'[s].client].generation
                    /\ sockets'[s].generation = clients'[sockets'[s].client].generation =>
                         \/ clients'[sockets'[s].client].task = s
                         \/ sockets'[s].inbox = <<>> /\ ~sockets'[s].open
                    /\ ~sockets'[s].open => sockets'[s].asked = {} /\ sockets'[s].joined = {}
  BY DEF Heeded, IsCurrent, Owner, SocketsMove
<1> DEFINE i == sockets[s].client
<1>1. /\ i \in DOMAIN clients /\ i \in DOMAIN clients' /\ s # 0
      /\ sockets[s].generation \in Nat
  <2>1. sockets[s] \in Socket /\ s # 0 /\ i \in DOMAIN clients
    BY DEF Inv, TypeOK
  <2> QED
    BY <2>1 DEF Socket, ClientsMove
<1>2. clients[i].generation \in Nat /\ clients'[i].generation \in Nat
  <2>1. clients[i] \in Client /\ clients'[i] \in Client
    BY <1>1 DEF Inv, TypeOK
  <2> QED
    BY <2>1 DEF Client
<1>3. /\ sockets'[s].client = i
      /\ sockets'[s].generation = sockets[s].generation
      /\ sockets'[s].open => sockets[s].open
      /\ ~sockets'[s].open => sockets'[s].asked = {} /\ sockets'[s].joined = {}
      /\ ~sockets[s].open /\ sockets[s].inbox = <<>> => sockets'[s].inbox = <<>>
  BY DEF SocketsMove
<1>4. \/ /\ clients'[i].task = clients[i].task
         /\ clients'[i].generation = clients[i].generation
      \/ /\ clients'[i].task = 0
         /\ clients'[i].generation > clients[i].generation
  BY <1>1 DEF ClientsMove
<1>5. /\ sockets[s].generation <= clients[i].generation
      /\ clients[i].task = s => sockets[s].generation = clients[i].generation
      /\ sockets[s].generation = clients[i].generation =>
           clients[i].task = s \/ (sockets[s].inbox = <<>> /\ ~sockets[s].open)
  BY DEF Heeded, IsCurrent, Owner
<1> HIDE DEF i
<1> QED
  BY <1>1, <1>2, <1>3, <1>4, <1>5

\* The network stays the same only as long as no change is spent.
LEMMA Spending ==
  ASSUME Inv, Within, UNCHANGED budget \/ \E kind \in Kind : Spend(kind)
  PROVE  Within' /\ (SameNetwork' => SameNetwork)
<1>1. budget.networkChange \in Nat /\ Limits.networkChange \in Nat
  BY LimitsAssumption DEF Inv, TypeOK, Kind
<1>2. CASE UNCHANGED budget
  BY <1>2 DEF Within, SameNetwork
<1>3. ASSUME NEW kind \in Kind, Spend(kind)
      PROVE  Within' /\ (SameNetwork' => SameNetwork)
  <2>1. budget' = [budget EXCEPT ![kind] = @ - 1] /\ budget \in [Kind -> Nat]
    BY <1>3 DEF Spend, Inv, TypeOK
  <2>2. \/ budget'.networkChange = budget.networkChange
        \/ budget'.networkChange = budget.networkChange - 1
    BY <2>1 DEF Kind
  <2> QED
    BY <1>1, <2>2 DEF Within, SameNetwork
<1> QED
  BY <1>2, <1>3

\* The socket that is open is the one of the current client.
LEMMA OpenIsCurrent ==
  ASSUME Inv, NEW s \in DOMAIN sockets, sockets[s].open
  PROVE  /\ signaling # 0 /\ signaling \in DOMAIN clients
         /\ clients[signaling].task = s /\ s # 0
BY DEF Inv, TypeOK, OneConnection

\* Nobody is listed and nothing is open.
LEMMA NoneListed ==
  ASSUME rooms' = [e \in Remote |-> {}], \A s \in DOMAIN sockets' : ~sockets'[s].open
  PROVE  SessionKnown' /\ ListsKnown'
BY DEF SessionKnown, ListsKnown

LEMMA OtherNetwork ==
  ASSUME ~SameNetwork'
  PROVE  SessionKnown' /\ ListsKnown'
BY DEF SessionKnown, ListsKnown

\* The list stays as it is, and so does what an open socket is about to say.
LEMMA NothingHeard ==
  ASSUME Inv, ListInv, SameNetwork' => SameNetwork,
         UNCHANGED <<signaling, rooms, met, there>>, DOMAIN sockets' = DOMAIN sockets,
         signaling # 0 => clients'[signaling].task = clients[signaling].task,
         \A s \in DOMAIN sockets : sockets'[s].open =>
           /\ sockets[s].open /\ sockets'[s].inbox = sockets[s].inbox
           /\ sockets'[s].joined = sockets[s].joined
  PROVE  SessionKnown' /\ ListsKnown'
<1>1. SessionKnown'
  BY DEF SessionKnown, ListInv
<1>2. ListsKnown'
  BY DEF ListsKnown, ListInv
<1> QED
  BY <1>1, <1>2

LEMMA OneClientMoves ==
  ASSUME Inv, NEW i \in DOMAIN clients, NEW client \in Client,
         clients' = [clients EXCEPT ![i] = client],
         \/ client.task = clients[i].task /\ client.generation = clients[i].generation
         \/ client.task = 0 /\ client.generation > clients[i].generation
  PROVE  ClientsMove
<1>1. /\ DOMAIN clients' = DOMAIN clients
      /\ \A j \in DOMAIN clients : clients'[j] = IF j = i THEN client ELSE clients[j]
  BY Replaced
<1> QED
  BY <1>1 DEF ClientsMove

LEMMA OneSocketMoves ==
  ASSUME Inv, Heeded, NEW s \in DOMAIN sockets, NEW socket \in Socket,
         sockets' = [sockets EXCEPT ![s] = socket],
         socket.client = sockets[s].client, socket.generation = sockets[s].generation,
         socket.open => sockets[s].open,
         ~socket.open => socket.asked = {} /\ socket.joined = {},
         ~sockets[s].open /\ sockets[s].inbox = <<>> => socket.inbox = <<>>
  PROVE  /\ SocketsMove
         /\ \A t \in DOMAIN sockets : sockets'[t] = IF t = s THEN socket ELSE sockets[t]
<1>1. /\ DOMAIN sockets' = DOMAIN sockets
      /\ \A t \in DOMAIN sockets : sockets'[t] = IF t = s THEN socket ELSE sockets[t]
  BY ExceptSeq DEF Inv, TypeOK
<1>2. \A t \in DOMAIN sockets :
        ~sockets[t].open => sockets[t].asked = {} /\ sockets[t].joined = {}
  BY DEF Heeded
<1> QED
  BY <1>1, <1>2 DEF SocketsMove

LEMMA Generations ==
  ASSUME NEW client \in Client
  PROVE  /\ client.task = 0 => Connecting(client).generation > client.generation
         /\ Disconnected(client).generation > client.generation
         /\ Reconnecting(client).generation > client.generation
<1>1. client.generation \in Nat
  BY DEF Client
<1>2. ASSUME NEW c \in Client, c.task = 0
      PROVE  Connecting(c).generation = c.generation + 1
  <2> DEFINE next == c.generation + 1
             fetches == c.fetching \union {c.generation + 1}
  <2>1. Connecting(c) =
          [c EXCEPT !.state = "connecting", !.intentionallyClosed = FALSE,
             !.armed = FALSE, !.generation = next, !.fetching = fetches]
    BY <1>2 DEF Connecting
  <2> HIDE DEF next, fetches
  <2>2. Connecting(c).generation = next
    BY <2>1 DEF Client
  <2> QED
    BY <2>2 DEF next
<1> DEFINE later == client.generation + 1
           dropped == [client EXCEPT !.generation = later, !.task = 0]
<1>3. /\ Disconnected(client) =
           [client EXCEPT !.state = "idle", !.intentionallyClosed = TRUE, !.armed = FALSE,
              !.generation = later, !.task = 0]
      /\ Reconnecting(client) = Connecting(dropped)
  BY DEF Disconnected, Reconnecting
<1>4. later \in Nat /\ later = client.generation + 1
  BY <1>1
<1> HIDE DEF later
<1>5. dropped \in Client /\ dropped.task = 0 /\ dropped.generation = later
  BY <1>4 DEF Client
<1>6. Disconnected(client).generation = later
  BY <1>3, <1>4 DEF Client
<1> HIDE DEF dropped
<1>7. Connecting(dropped).generation = later + 1
  BY <1>2, <1>5
<1>8. Connecting(client).generation = client.generation + 1 \/ client.task # 0
  BY <1>2
<1> QED
  BY <1>1, <1>3, <1>4, <1>6, <1>7, <1>8

-----------------------------------------------------------------------------
(* The user and the network.                                               *)

LEMMA SocketsStay ==
  ASSUME Heeded, UNCHANGED sockets
  PROVE  SocketsMove
BY DEF Heeded, SocketsMove

LEMMA StartList ==
  ASSUME Inv, Inv', ListInv, Start
  PROVE  ListInv'
<1>1. clients \in Seq(Client) /\ Connecting(NewClient) \in Client
  BY NewTypes, ClientChanges DEF Inv, TypeOK
<1> DEFINE started == Connecting(NewClient)
<1>2. clients' = Append(clients, started)
  BY DEF Start
<1> HIDE DEF started
<1>3. /\ DOMAIN clients' = DOMAIN clients \union {Len(clients')}
      /\ \A j \in DOMAIN clients : clients'[j] = clients[j]
  BY <1>1, <1>2, Appended DEF started
<1>4. ClientsMove
  BY <1>3 DEF ClientsMove
<1>5. SocketsMove
  BY SocketsStay DEF Start, ListInv
<1>6. Heeded'
  BY <1>4, <1>5, HeededSteps DEF ListInv
<1>7. Within' /\ (SameNetwork' => SameNetwork)
  BY Spending DEF Start, ListInv, Kind
<1>8. CASE SameNetwork'
  <2>1. \A e \in Remote : rooms[e] = {}
    BY <1>7, <1>8 DEF Start, ListInv, SessionKnown
  <2>2. rooms' = [e \in Remote |-> {}]
    BY <2>1 DEF Start, Inv, TypeOK
  <2>3. \A s \in DOMAIN sockets' : ~sockets'[s].open
    BY DEF Start, Inv, OneConnection
  <2> QED
    BY <1>6, <1>7, <2>2, <2>3, NoneListed DEF ListInv
<1>9. CASE ~SameNetwork'
  BY <1>6, <1>7, <1>9, OtherNetwork DEF ListInv
<1> QED
  BY <1>8, <1>9

\* The socket that is let go.
LEMMA CancelledMoves ==
  ASSUME Inv, Heeded, signaling # 0, sockets' = Cancelled(clients[signaling].task)
  PROVE  SocketsMove
<1> DEFINE s == clients[signaling].task
<1>1. s \in 0..Len(sockets) /\ sockets' = Cancelled(s)
  BY DEF Inv, TypeOK
<1> HIDE DEF s
<1>2. CASE s = 0
  BY <1>1, <1>2, SocketsStay DEF Cancelled
<1>3. CASE s # 0
  <2> DEFINE none == {}
             socket == [sockets[s] EXCEPT !.open = FALSE, !.asked = none, !.joined = none]
  <2>1. s \in DOMAIN sockets /\ sockets[s] \in Socket
    BY <1>1, <1>3 DEF Inv, TypeOK
  <2>2. sockets' = [sockets EXCEPT ![s] = socket]
    BY <1>1, <1>3, Zenon DEF Cancelled
  <2>3. none \in SUBSET Room
    OBVIOUS
  <2> HIDE DEF none
  <2>4. /\ socket \in Socket /\ socket.client = sockets[s].client
        /\ socket.generation = sockets[s].generation /\ socket.open = FALSE
        /\ socket.asked = none /\ socket.joined = none /\ socket.inbox = sockets[s].inbox
    BY <2>1, <2>3 DEF Socket
  <2> HIDE DEF socket
  <2>5. socket.asked = {} /\ socket.joined = {}
    BY <2>4 DEF none
  <2> QED
    BY <2>1, <2>2, <2>4, <2>5, OneSocketMoves
<1> QED
  BY <1>2, <1>3

LEMMA StopList ==
  ASSUME Inv, Inv', ListInv, Stop
  PROVE  ListInv'
<1> DEFINE gone == Disconnected(clients[signaling])
<1>1. signaling \in DOMAIN clients /\ clients[signaling] \in Client
  BY DEF Stop, Inv, TypeOK
<1>2. /\ gone \in Client /\ gone.task = 0
      /\ gone.generation > clients[signaling].generation
  BY <1>1, ClientChanges, Generations
<1>3. clients' = [clients EXCEPT ![signaling] = gone]
  BY DEF Stop
<1> HIDE DEF gone
<1>4. ClientsMove
  BY <1>1, <1>2, <1>3, OneClientMoves
<1>5. Heeded'
  BY <1>4, CancelledMoves, HeededSteps DEF Stop, ListInv
<1>6. Within' /\ (SameNetwork' => SameNetwork)
  BY Spending DEF Stop, ListInv, Kind
<1>7. SessionKnown' /\ ListsKnown'
  BY NoneOpen, NoneListed DEF Stop, NoPeers
<1> QED
  BY <1>5, <1>6, <1>7 DEF ListInv

LEMMA RestartList ==
  ASSUME Inv, Inv', ListInv, Restart
  PROVE  ListInv'
<1> DEFINE gone == Disconnected(clients[signaling])
           old == [clients EXCEPT ![signaling] = gone]
           started == Connecting(NewClient)
<1>1. signaling \in DOMAIN clients /\ clients[signaling] \in Client
  BY DEF Restart, Inv, TypeOK
<1>2. /\ gone \in Client /\ gone.task = 0
      /\ gone.generation > clients[signaling].generation
  BY <1>1, ClientChanges, Generations
<1>3. clients' = Append(old, started)
  BY DEF Restart
<1>4. started \in Client
  BY NewTypes, ClientChanges
<1> HIDE DEF gone, started
<1>5. /\ old \in Seq(Client) /\ DOMAIN old = DOMAIN clients
      /\ \A j \in DOMAIN clients : old[j] = IF j = signaling THEN gone ELSE clients[j]
  BY <1>1, <1>2, Replaced
<1> HIDE DEF old
<1>6. /\ DOMAIN clients' = DOMAIN old \union {Len(clients')}
      /\ \A j \in DOMAIN old : clients'[j] = old[j]
  BY <1>3, <1>4, <1>5, Appended
<1>7. ClientsMove
  BY <1>2, <1>5, <1>6 DEF ClientsMove
<1>8. Heeded'
  BY <1>7, CancelledMoves, HeededSteps DEF Restart, ListInv
<1>9. Within' /\ (SameNetwork' => SameNetwork)
  BY Spending DEF Restart, ListInv, Kind
<1>10. SessionKnown' /\ ListsKnown'
  BY NoneOpen, NoneListed DEF Restart, NoPeers
<1> QED
  BY <1>8, <1>9, <1>10 DEF ListInv

LEMMA NetworkChangedList ==
  ASSUME Inv, Inv', ListInv, NetworkChanged
  PROVE  ListInv'
<1> DEFINE client == Reconnecting(clients[signaling])
<1>1. signaling \in DOMAIN clients /\ clients[signaling] \in Client
  BY DEF NetworkChanged, Inv, TypeOK
<1>2. /\ client \in Client /\ client.task = 0
      /\ client.generation > clients[signaling].generation
  BY <1>1, ClientChanges, Generations
<1>3. clients' = [clients EXCEPT ![signaling] = client]
  BY DEF NetworkChanged
<1> HIDE DEF client
<1>4. ClientsMove
  BY <1>1, <1>2, <1>3, OneClientMoves
<1>5. Heeded'
  BY <1>4, CancelledMoves, HeededSteps DEF NetworkChanged, ListInv
<1>6. Within' /\ ~SameNetwork'
  <2>1. /\ budget.networkChange \in Nat /\ Limits.networkChange \in Nat
        /\ budget'.networkChange = budget.networkChange - 1
    BY LimitsAssumption DEF NetworkChanged, Spend, Inv, TypeOK, Kind
  <2> QED
    BY <2>1 DEF Within, SameNetwork, ListInv
<1> QED
  BY <1>5, <1>6, OtherNetwork DEF ListInv

-----------------------------------------------------------------------------
(* The tasks of a SignalingClient.                                         *)

\* A client changes and keeps its socket, and nothing is heard.
LEMMA ClientList ==
  ASSUME Inv, Inv', ListInv, NEW i \in DOMAIN clients, NEW client \in Client,
         clients' = [clients EXCEPT ![i] = client],
         client.task = clients[i].task,
         \/ client.generation = clients[i].generation
         \/ client.task = 0 /\ client.generation > clients[i].generation,
         UNCHANGED <<signaling, rooms, met, sockets, there>>,
         UNCHANGED budget \/ \E kind \in Kind : Spend(kind)
  PROVE  ListInv'
<1>1. ClientsMove
  BY OneClientMoves
<1>2. Heeded'
  BY <1>1, SocketsStay, HeededSteps DEF ListInv
<1>3. Within' /\ (SameNetwork' => SameNetwork)
  BY Spending DEF ListInv
<1>4. \A j \in DOMAIN clients : clients'[j].task = clients[j].task
  BY Replaced
<1>5. signaling # 0 => clients'[signaling].task = clients[signaling].task
  BY <1>4 DEF Inv, TypeOK
<1>6. SessionKnown' /\ ListsKnown'
  BY <1>3, <1>5, NothingHeard
<1> QED
  BY <1>2, <1>3, <1>6 DEF ListInv

LEMMA RetryIsDueList ==
  ASSUME Inv, Inv', ListInv, NEW i \in DOMAIN clients, RetryIsDue(i)
  PROVE  ListInv'
<1> DEFINE more == clients[i].due + 1
           client == [clients[i] EXCEPT !.armed = FALSE, !.due = more]
<1>1. clients[i] \in Client /\ more \in Nat
  <2>1. clients[i] \in Client
    BY DEF Inv, TypeOK
  <2>2. clients[i].due \in Nat
    BY <2>1 DEF Client
  <2> QED
    BY <2>1, <2>2
<1>2. clients' = [clients EXCEPT ![i] = client]
  BY Zenon DEF RetryIsDue
<1> HIDE DEF more
<1>3. /\ client \in Client /\ client.task = clients[i].task
      /\ client.generation = clients[i].generation
  BY <1>1 DEF Client
<1> HIDE DEF client
<1>4. UNCHANGED <<signaling, rooms, met, sockets, there>> /\ UNCHANGED budget
  BY DEF RetryIsDue
<1> QED
  BY <1>2, <1>3, <1>4, ClientList

LEMMA RetryList ==
  ASSUME Inv, Inv', ListInv, NEW i \in DOMAIN clients, Retry(i)
  PROVE  ListInv'
<1> DEFINE fewer == clients[i].due - 1
           woken == [clients[i] EXCEPT !.due = fewer]
           client == IF woken.intentionallyClosed THEN woken ELSE Connecting(woken)
<1>1. clients[i] \in Client /\ fewer \in Nat
  <2>1. clients[i] \in Client
    BY DEF Inv, TypeOK
  <2>2. clients[i].due \in Nat
    BY <2>1 DEF Client
  <2>3. clients[i].due > 0
    BY Zenon DEF Retry
  <2> QED
    BY <2>1, <2>2, <2>3
<1>2. clients' = [clients EXCEPT ![i] = client]
  BY DEF Retry
<1> HIDE DEF fewer
<1>3. /\ woken \in Client /\ woken.task = clients[i].task
      /\ woken.generation = clients[i].generation
  BY <1>1 DEF Client
<1> HIDE DEF woken
<1>4. client = woken \/ client = Connecting(woken)
  OBVIOUS
<1>5. /\ Connecting(woken) \in Client /\ Connecting(woken).task = woken.task
      /\ woken.task # 0 => Connecting(woken) = woken
      /\ woken.task = 0 => Connecting(woken).generation > woken.generation
  BY <1>3, ClientChanges, Generations
<1> HIDE DEF client
<1>6. /\ client \in Client /\ client.task = clients[i].task
      /\ \/ client.generation = clients[i].generation
         \/ client.task = 0 /\ client.generation > clients[i].generation
  BY <1>3, <1>4, <1>5
<1>7. UNCHANGED <<signaling, rooms, met, sockets, there>> /\ UNCHANGED budget
  BY DEF Retry
<1> QED
  BY <1>2, <1>6, <1>7, ClientList

\* The new socket is heard and the others are not; nobody is listed yet.
LEMMA OpenedList ==
  ASSUME Inv, Inv', ListInv, NEW i \in DOMAIN clients, NEW generation \in clients[i].fetching,
         generation = clients[i].generation, ~clients[i].intentionallyClosed,
         NEW client \in Client, clients' = [clients EXCEPT ![i] = client],
         sockets' = Append(sockets, NewSocket(i, generation)),
         client.task = Len(sockets'), client.generation = clients[i].generation,
         UNCHANGED <<signaling, rooms, met, there, budget>>
  PROVE  ListInv'
<1> DEFINE new == NewSocket(i, generation)
           opened == Len(sockets')
<1>1. i = signaling /\ i \in Nat \ {0} /\ generation \in Nat
  <2>1. i = signaling /\ i \in Nat \ {0} /\ clients[i] \in Client
    BY DEF Inv, TypeOK
  <2>2. clients[i].fetching \in SUBSET Nat
    BY <2>1 DEF Client
  <2> QED
    BY <2>1, <2>2
<1>2. \A j \in DOMAIN clients : clients[j].task = 0
  BY <1>1 DEF Inv, OneSocketEach
<1>3. new \in Socket
  BY <1>1, NewTypes
<1>4. /\ new.client = i /\ new.generation = generation /\ new.joined = {} /\ new.open
      /\ new.inbox = <<[type |-> "DisplayName"]>>
  BY DEF NewSocket
<1>5. sockets \in Seq(Socket) /\ sockets' = Append(sockets, new)
  BY DEF Inv, TypeOK
<1> HIDE DEF new
<1>6. /\ DOMAIN sockets' = DOMAIN sockets \union {opened}
      /\ \A s \in DOMAIN sockets : sockets'[s] = sockets[s] /\ s # opened
      /\ sockets'[opened] = new
  BY <1>3, <1>5, Appended
<1>7. client.task = opened
  OBVIOUS
<1> HIDE DEF opened
<1>8. /\ DOMAIN clients' = DOMAIN clients
      /\ \A j \in DOMAIN clients : clients'[j] = IF j = i THEN client ELSE clients[j]
  BY Replaced
<1>9. \A s \in DOMAIN sockets : ~sockets[s].open
  BY <1>1, <1>2 DEF Inv, OneConnection, TypeOK
<1>10. Heeded'
  <2>1. \A j \in DOMAIN clients : clients'[j].generation = clients[j].generation
    BY <1>8
  <2>2. ASSUME NEW s \in DOMAIN sockets
        PROVE  /\ sockets'[s].generation <= clients'[sockets'[s].client].generation
               /\ clients'[sockets'[s].client].task # s
               /\ sockets'[s].generation = clients'[sockets'[s].client].generation =>
                    sockets'[s].inbox = <<>> /\ ~sockets'[s].open
               /\ ~sockets'[s].open => sockets'[s].asked = {} /\ sockets'[s].joined = {}
    <3> DEFINE j == sockets[s].client
    <3>1. j \in DOMAIN clients /\ s # 0 /\ s # opened /\ sockets'[s] = sockets[s]
      BY <1>6 DEF Inv, TypeOK
    <3>2. /\ sockets[s].generation <= clients[j].generation
          /\ sockets[s].generation = clients[j].generation =>
               clients[j].task = s \/ (sockets[s].inbox = <<>> /\ ~sockets[s].open)
          /\ ~sockets[s].open => sockets[s].asked = {} /\ sockets[s].joined = {}
      BY DEF ListInv, Heeded, IsCurrent, Owner
    <3>3. sockets'[s].client = j
      BY <3>1
    <3> HIDE DEF j
    <3>4. clients[j].task = 0 /\ clients'[j].generation = clients[j].generation
      BY <1>2, <2>1, <3>1
    <3>5. clients'[j].task = opened \/ clients'[j].task = 0
      BY <1>7, <1>8, <3>1, <3>4
    <3> QED
      BY <3>1, <3>2, <3>3, <3>4, <3>5
  <2>3. /\ sockets'[opened].client = i /\ sockets'[opened].generation = generation
        /\ sockets'[opened].open
    BY <1>4, <1>6
  <2>4. clients'[i].generation = generation /\ clients'[i].task = opened
    BY <1>7, <1>8
  <2>5. ASSUME NEW s \in DOMAIN sockets'
        PROVE  /\ sockets'[s].generation <= clients'[sockets'[s].client].generation
               /\ clients'[sockets'[s].client].task = s =>
                    sockets'[s].generation = clients'[sockets'[s].client].generation
               /\ sockets'[s].generation = clients'[sockets'[s].client].generation =>
                    \/ clients'[sockets'[s].client].task = s
                    \/ sockets'[s].inbox = <<>> /\ ~sockets'[s].open
               /\ ~sockets'[s].open => sockets'[s].asked = {} /\ sockets'[s].joined = {}
    <3>1. CASE s = opened
      BY <1>1, <2>3, <2>4, <3>1
    <3>2. CASE s # opened
      BY <1>6, <2>2, <3>2
    <3> QED
      BY <3>1, <3>2
  <2> QED
    BY <2>5 DEF Heeded, IsCurrent, Owner
<1>11. Within'
  BY DEF ListInv, Within
<1>12. SameNetwork => \A e \in Remote : rooms[e] = {}
  BY <1>1, <1>2 DEF ListInv, SessionKnown
<1>13. SessionKnown'
  BY <1>12 DEF SessionKnown, SameNetwork
<1>14. ListsKnown'
  <2> SUFFICES ASSUME SameNetwork', NEW s \in DOMAIN sockets', sockets'[s].open,
                      NEW e \in Remote, NEW room \in Room
               PROVE  Told(sockets'[s].inbox, room \in sockets'[s].joined, e \in there'[room],
                           room \in rooms'[e], e, room)
    BY Zenon DEF ListsKnown
  <2>1. s = opened /\ sockets'[s] = new
    BY <1>6, <1>9
  <2>2. room \notin rooms'[e]
    BY <1>12 DEF SameNetwork
  <2>3. room \notin sockets'[s].joined /\ sockets'[s].inbox = <<[type |-> "DisplayName"]>>
    BY <1>4, <2>1
  <2>4. ~AddedAfter(0, sockets'[s].inbox, e, room)
    BY <2>3 DEF AddedAfter, Adds
  <2> QED
    BY <2>2, <2>3, <2>4 DEF Told
<1> QED
  BY <1>10, <1>11, <1>13, <1>14 DEF ListInv

LEMMA ConfigFetchedList ==
  ASSUME Inv, Inv', ListInv, NEW i \in DOMAIN clients, NEW generation \in clients[i].fetching,
         ConfigFetched(i, generation)
  PROVE  ListInv'
<1> DEFINE awaited == clients[i].fetching \ {generation}
           client == [clients[i] EXCEPT !.fetching = awaited]
           stale == generation # client.generation \/ client.intentionallyClosed
<1>1. clients[i] \in Client
  BY DEF Inv, TypeOK
<1>2. awaited \in SUBSET Nat
  BY <1>1 DEF Client
<1>3. \/ /\ clients' = [clients EXCEPT ![i] = client]
         /\ UNCHANGED <<sockets, budget>>
      \/ /\ ~stale
         /\ sockets' = Append(sockets, NewSocket(i, generation))
         /\ clients' = [clients EXCEPT ![i] = [client EXCEPT !.task = Len(sockets')]]
         /\ UNCHANGED budget
      \/ /\ Spend("badConfig")
         /\ clients' = [clients EXCEPT ![i] = [client EXCEPT !.state = "failed"]]
         /\ UNCHANGED sockets
  BY Zenon DEF ConfigFetched
<1>4. UNCHANGED <<signaling, rooms, met, there>>
  BY DEF ConfigFetched
<1> HIDE DEF awaited
<1>5. /\ client \in Client /\ client.task = clients[i].task
      /\ client.intentionallyClosed = clients[i].intentionallyClosed
      /\ client.generation = clients[i].generation
  BY <1>1, <1>2 DEF Client
<1>6. CASE /\ clients' = [clients EXCEPT ![i] = client]
           /\ UNCHANGED <<sockets, budget>>
  <2> HIDE DEF client
  <2> QED
    BY <1>4, <1>5, <1>6, ClientList
<1>7. CASE /\ ~stale
           /\ sockets' = Append(sockets, NewSocket(i, generation))
           /\ clients' = [clients EXCEPT ![i] = [client EXCEPT !.task = Len(sockets')]]
           /\ UNCHANGED budget
  <2>1. generation = clients[i].generation /\ ~clients[i].intentionallyClosed
    BY <1>5, <1>7
  <2> HIDE DEF client
  <2>2. Len(sockets') \in Nat
    BY LenProperties DEF Inv, TypeOK
  <2> DEFINE last == Len(sockets')
             opening == [client EXCEPT !.task = last]
  <2>3. clients' = [clients EXCEPT ![i] = opening]
    BY <1>7
  <2>4. last = Len(sockets') /\ last \in Nat
    BY <2>2
  <2> HIDE DEF last
  <2>5. /\ opening \in Client /\ opening.task = last
        /\ opening.generation = client.generation
    BY <1>5, <2>4 DEF Client
  <2> HIDE DEF opening
  <2>6. opening.task = Len(sockets') /\ opening.generation = clients[i].generation
    BY <1>5, <2>4, <2>5
  <2>7. UNCHANGED <<signaling, rooms, met, there, budget>>
    BY <1>4, <1>7
  <2>8. sockets' = Append(sockets, NewSocket(i, generation))
    BY <1>7
  <2> HIDE DEF stale
  <2> QED
    BY <2>1, <2>3, <2>5, <2>6, <2>7, <2>8, OpenedList
<1>8. CASE /\ Spend("badConfig")
           /\ clients' = [clients EXCEPT ![i] = [client EXCEPT !.state = "failed"]]
           /\ UNCHANGED sockets
  <2> DEFINE given == [client EXCEPT !.state = "failed"]
  <2> HIDE DEF client
  <2>1. /\ given \in Client /\ given.task = client.task
        /\ given.generation = client.generation
    BY <1>5 DEF Client
  <2>2. clients' = [clients EXCEPT ![i] = given] /\ UNCHANGED sockets
    BY <1>8
  <2> HIDE DEF given
  <2>3. \E kind \in Kind : Spend(kind)
    BY <1>8 DEF Kind
  <2> QED
    BY <1>4, <1>5, <2>1, <2>2, <2>3, ClientList
<1> QED
  BY <1>3, <1>6, <1>7, <1>8

LEMMA ClientsStay ==
  ASSUME UNCHANGED clients
  PROVE  ClientsMove
BY DEF ClientsMove

LEMMA IgnoreStaleList ==
  ASSUME Inv, Inv', ListInv, NEW s \in DOMAIN sockets, IgnoreStale(s)
  PROVE  ListInv'
<1> DEFINE nothing == <<>>
           socket == [sockets[s] EXCEPT !.inbox = nothing]
<1>1. sockets[s] \in Socket /\ nothing \in Seq(Frame) /\ nothing = <<>>
  BY DEF Inv, TypeOK
<1> HIDE DEF nothing
<1>2. /\ socket \in Socket /\ socket.client = sockets[s].client
      /\ socket.generation = sockets[s].generation
      /\ socket.open = sockets[s].open /\ socket.inbox = nothing
      /\ socket.asked = sockets[s].asked /\ socket.joined = sockets[s].joined
  BY <1>1 DEF Socket
<1>3. sockets' = [sockets EXCEPT ![s] = socket]
  BY DEF IgnoreStale, nothing
<1> HIDE DEF socket
<1>4. ~sockets[s].open
  <2>1. ~IsCurrent(s)
    BY DEF IgnoreStale
  <2>2. Owner(s).task # s
    BY <2>1 DEF ListInv, Heeded
  <2>3. sockets[s].open => clients[signaling].task = s /\ s # 0 /\ signaling \in DOMAIN clients
    BY OpenIsCurrent
  <2>4. sockets[s].open => sockets[s].client = signaling
    BY <2>3 DEF Inv, TypeOK
  <2> QED
    BY <2>2, <2>3, <2>4 DEF Owner
<1>5. /\ SocketsMove
      /\ \A t \in DOMAIN sockets : sockets'[t] = IF t = s THEN socket ELSE sockets[t]
  <2>1. ~sockets[s].open => sockets[s].asked = {} /\ sockets[s].joined = {}
    BY DEF ListInv, Heeded
  <2> QED
    BY <1>1, <1>2, <1>3, <2>1, OneSocketMoves DEF ListInv
<1>6. Heeded'
  BY <1>5, ClientsStay, HeededSteps DEF IgnoreStale, ListInv
<1>7. Within' /\ (SameNetwork' => SameNetwork)
  BY Spending DEF IgnoreStale, ListInv
<1>8. DOMAIN sockets' = DOMAIN sockets
  BY <1>5 DEF SocketsMove
<1>9. \A t \in DOMAIN sockets : sockets'[t].open =>
        /\ sockets[t].open /\ sockets'[t].inbox = sockets[t].inbox
        /\ sockets'[t].joined = sockets[t].joined
  BY <1>2, <1>4, <1>5
<1>10. SessionKnown' /\ ListsKnown'
  BY <1>7, <1>8, <1>9, NothingHeard DEF IgnoreStale
<1> QED
  BY <1>6, <1>7, <1>10 DEF ListInv

\* The client has no socket any more, and the one that it had has delivered everything.
LEMMA HandleDropList ==
  ASSUME Inv, Inv', ListInv, NEW s \in DOMAIN sockets, HandleDrop(s)
  PROVE  ListInv'
<1> DEFINE i == sockets[s].client
           client == [clients[i] EXCEPT !.task = 0, !.state = "waitingToRetry",
                        !.armed = TRUE]
<1>1. i \in DOMAIN clients /\ clients[i] \in Client /\ s # 0
  BY DEF Inv, TypeOK
<1>2. clients' = [clients EXCEPT ![i] = client]
  BY Zenon DEF HandleDrop
<1>3. clients[i].task = s /\ ~sockets[s].open /\ sockets[s].inbox = <<>>
  BY DEF HandleDrop, Owner
<1> HIDE DEF i
<1>4. i = signaling
  BY <1>1, <1>3 DEF Inv, OneSocketEach
<1>5. client \in Client /\ client.task = 0 /\ client.generation = clients[i].generation
  BY <1>1 DEF Client
<1> HIDE DEF client
<1>6. \A j \in DOMAIN clients : clients'[j] = IF j = i THEN client ELSE clients[j]
  BY <1>1, <1>2, <1>5, Replaced
<1>7. \A t \in DOMAIN sockets : ~sockets[t].open
  BY <1>3, <1>4 DEF Inv, OneConnection
<1>8. /\ UNCHANGED <<signaling, sockets, there, budget, met>>
      /\ rooms' = [e \in Remote |-> {}]
  BY DEF HandleDrop, NoPeers
<1>9. Heeded'
  <2>1. ASSUME NEW t \in DOMAIN sockets
        PROVE  /\ sockets[t].generation <= clients'[sockets[t].client].generation
               /\ clients'[sockets[t].client].task = t =>
                    sockets[t].generation = clients'[sockets[t].client].generation
               /\ sockets[t].generation = clients'[sockets[t].client].generation =>
                    \/ clients'[sockets[t].client].task = t
                    \/ sockets[t].inbox = <<>> /\ ~sockets[t].open
               /\ ~sockets[t].open => sockets[t].asked = {} /\ sockets[t].joined = {}
    <3> DEFINE j == sockets[t].client
    <3>1. j \in DOMAIN clients /\ t # 0
      BY DEF Inv, TypeOK
    <3>2. /\ sockets[t].generation <= clients[j].generation
          /\ clients[j].task = t => sockets[t].generation = clients[j].generation
          /\ sockets[t].generation = clients[j].generation =>
               clients[j].task = t \/ (sockets[t].inbox = <<>> /\ ~sockets[t].open)
          /\ ~sockets[t].open => sockets[t].asked = {} /\ sockets[t].joined = {}
      BY DEF ListInv, Heeded, IsCurrent, Owner
    <3> HIDE DEF j
    <3>3. clients'[j].generation = clients[j].generation
      BY <1>5, <1>6, <3>1
    <3>4. clients'[j].task = clients[j].task \/ (j = i /\ clients'[j].task = 0)
      BY <1>5, <1>6, <3>1
    <3>5. CASE clients'[j].task = clients[j].task
      BY <3>2, <3>3, <3>5 DEF j
    <3>6. CASE j = i /\ clients'[j].task = 0
      <4>1. clients[j].task = t => sockets[t].inbox = <<>>
        BY <1>3, <3>6
      <4> QED
        BY <1>7, <3>1, <3>2, <3>3, <3>6, <4>1 DEF j
    <3> QED
      BY <3>4, <3>5, <3>6
  <2> QED
    BY <1>8, <2>1 DEF Heeded, IsCurrent, Owner
<1>10. Within'
  BY <1>8 DEF ListInv, Within
<1>11. SessionKnown' /\ ListsKnown'
  BY <1>7, <1>8, NoneListed
<1> QED
  BY <1>9, <1>10, <1>11 DEF ListInv

-----------------------------------------------------------------------------
(* The frames.                                                             *)

\* Only the present socket is heard.
LEMMA HeardIsCurrent ==
  ASSUME Inv, ListInv, NEW s \in DOMAIN sockets, IsCurrent(s), sockets[s].inbox # <<>>
  PROVE  /\ signaling # 0 /\ signaling \in DOMAIN clients
         /\ clients[signaling].task = s /\ s # 0 /\ sockets[s].client = signaling
<1>1. clients[sockets[s].client].task = s
  BY DEF ListInv, Heeded, Owner
<1>2. s # 0 /\ sockets[s].client \in DOMAIN clients
  BY DEF Inv, TypeOK
<1>3. sockets[s].client = signaling
  BY <1>1, <1>2 DEF Inv, OneSocketEach
<1> QED
  BY <1>1, <1>2, <1>3 DEF Inv, TypeOK

\* The list changes with the first frame of the present socket as the frame says.
LEMMA FrameHeard ==
  ASSUME Inv, Inv', ListInv, NEW s \in DOMAIN sockets, NEW type, Handles(s, type),
         NEW socket \in Socket, sockets' = [sockets EXCEPT ![s] = socket],
         socket.client = sockets[s].client, socket.generation = sockets[s].generation,
         socket.open = sockets[s].open, socket.joined = sockets[s].joined,
         socket.inbox = Tail(sockets[s].inbox), ~socket.open => socket.asked = {},
         \A e \in Remote : rooms'[e] # {} =>
           met'[e] = s \/ (rooms[e] # {} /\ met'[e] = met[e]),
         \A e \in Remote, room \in Room :
           room \in rooms'[e] <=>
             /\ room \in rooms[e] \/ Adds(Head(sockets[s].inbox), e, room)
             /\ ~Removes(Head(sockets[s].inbox), e, room)
  PROVE  ListInv'
<1> DEFINE i == sockets[s].client
           client == [clients[i] EXCEPT !.state = "connected"]
           first == Head(sockets[s].inbox)
<1>1. sockets[s].inbox # <<>> /\ IsCurrent(s) /\ UNCHANGED <<signaling, there, budget>>
  BY DEF Handles
<1>2. /\ signaling # 0 /\ signaling \in DOMAIN clients
      /\ clients[signaling].task = s /\ s # 0 /\ i = signaling
  BY <1>1, HeardIsCurrent
<1>3. clients[i] \in Client
  BY <1>2 DEF Inv, TypeOK
<1>4. clients' = [clients EXCEPT ![i] = client]
  BY Zenon DEF Handles
<1> HIDE DEF i
<1>5. /\ client \in Client /\ client.task = clients[i].task
      /\ client.generation = clients[i].generation
  BY <1>3 DEF Client
<1> HIDE DEF client
<1>6. ClientsMove
  BY <1>2, <1>4, <1>5, OneClientMoves
<1>7. sockets[s] \in Socket /\ sockets[s].inbox \in Seq(Frame)
  <2>1. sockets[s] \in Socket
    BY DEF Inv, TypeOK
  <2> QED
    BY <2>1 DEF Socket
<1>8. /\ SocketsMove
      /\ \A t \in DOMAIN sockets : sockets'[t] = IF t = s THEN socket ELSE sockets[t]
  <2>1. ~sockets[s].open => sockets[s].joined = {}
    BY DEF ListInv, Heeded
  <2> QED
    BY <1>1, <2>1, OneSocketMoves DEF ListInv
<1>9. Heeded'
  BY <1>6, <1>8, HeededSteps DEF ListInv
<1>10. Within' /\ (SameNetwork' => SameNetwork)
  BY <1>1, Spending DEF ListInv
<1>11. clients'[signaling'].task = s
  BY <1>1, <1>2, <1>4, <1>5, Replaced
<1>12. SessionKnown'
  <2> SUFFICES ASSUME SameNetwork', NEW e \in Remote, rooms'[e] # {}
               PROVE  met'[e] = s
    BY <1>1, <1>2, <1>11, Zenon DEF SessionKnown
  <2>1. rooms[e] # {} => met[e] = s
    BY <1>2, <1>10 DEF ListInv, SessionKnown
  <2> QED
    BY <2>1
<1>13. ListsKnown'
  <2> SUFFICES ASSUME SameNetwork', NEW t \in DOMAIN sockets', sockets'[t].open,
                      NEW e \in Remote, NEW room \in Room
               PROVE  Told(sockets'[t].inbox, room \in sockets'[t].joined, e \in there'[room],
                           room \in rooms'[e], e, room)
    BY Zenon DEF ListsKnown
  <2>1. t \in DOMAIN sockets /\ sockets[t].open
    BY <1>8 DEF SocketsMove
  <2>2. t = s
    BY <1>2, <2>1, OpenIsCurrent
  <2>3. Told(sockets[s].inbox, room \in sockets[s].joined, e \in there[room],
             room \in rooms[e], e, room)
    BY <1>10, <2>1, <2>2 DEF ListInv, ListsKnown
  <2> DEFINE listed == room \in rooms[e]
             now == room \in rooms'[e]
             admitted == room \in sockets[s].joined
             here == e \in there[room]
             q == sockets[s].inbox
             left == Tail(q)
  <2>4. /\ q \in Seq(Frame) /\ q # <<>> /\ left = Tail(q)
        /\ Told(q, admitted, here, listed, e, room)
        /\ now <=> (listed \/ Adds(Head(q), e, room)) /\ ~Removes(Head(q), e, room)
    BY <1>1, <1>7, <2>3
  <2>5. sockets'[t] = socket
    BY <1>8, <2>1, <2>2
  <2>6. sockets'[t].inbox = left /\ (room \in sockets'[t].joined <=> admitted)
    BY <2>5
  <2>7. e \in there'[room] <=> here
    BY <1>1
  <2> HIDE DEF listed, now, admitted, here, q, left
  <2>8. Told(left, admitted, here, now, e, room)
    BY <2>4, NewsTakenFirst
  <2> QED
    BY <2>6, <2>7, <2>8 DEF now, Told
<1> QED
  BY <1>9, <1>10, <1>12, <1>13 DEF ListInv

\* The rest of what a socket keeps when its first frame is taken off.
LEMMA ConsumedRest ==
  ASSUME Inv, ListInv, NEW s \in DOMAIN sockets, sockets[s].inbox # <<>>
  PROVE  /\ Consumed(s).generation = sockets[s].generation
         /\ Consumed(s).joined = sockets[s].joined
         /\ Consumed(s).asked = sockets[s].asked
         /\ Consumed(s).inbox = Tail(sockets[s].inbox)
         /\ ~Consumed(s).open => Consumed(s).asked = {}
<1>1. sockets[s] \in Socket
  BY DEF Inv, TypeOK
<1> DEFINE left == Tail(sockets[s].inbox)
<1>2. Consumed(s) = [sockets[s] EXCEPT !.inbox = left]
  BY DEF Consumed
<1>3. ~sockets[s].open => sockets[s].asked = {}
  BY DEF ListInv, Heeded
<1> HIDE DEF left
<1>4. /\ Consumed(s).generation = sockets[s].generation
      /\ Consumed(s).joined = sockets[s].joined
      /\ Consumed(s).asked = sockets[s].asked
      /\ Consumed(s).inbox = left
      /\ Consumed(s).open = sockets[s].open
  BY <1>1, <1>2 DEF Socket
<1> QED
  BY <1>3, <1>4 DEF left

LEMMA HandleDisplayNameList ==
  ASSUME Inv, Inv', ListInv, NEW s \in DOMAIN sockets, HandleDisplayName(s)
  PROVE  ListInv'
<1> DEFINE asks == IF sockets[s].open THEN Room ELSE {}
           socket == [Consumed(s) EXCEPT !.asked = asks]
           first == Head(sockets[s].inbox)
<1>1. Handles(s, "DisplayName") /\ sockets[s].inbox # <<>> /\ first.type = "DisplayName"
  BY DEF HandleDisplayName, Handles
<1>2. /\ Consumed(s) \in Socket
      /\ Consumed(s).client = sockets[s].client /\ Consumed(s).open = sockets[s].open
      /\ Consumed(s).generation = sockets[s].generation
      /\ Consumed(s).joined = sockets[s].joined
      /\ Consumed(s).inbox = Tail(sockets[s].inbox)
  BY <1>1, ConsumedSocket, ConsumedRest
<1>3. sockets' = [sockets EXCEPT ![s] = socket]
  BY Zenon DEF HandleDisplayName
<1>4. asks \in SUBSET Room /\ (~sockets[s].open => asks = {})
  OBVIOUS
<1> HIDE DEF asks
<1>5. /\ socket \in Socket /\ socket.client = Consumed(s).client
      /\ socket.generation = Consumed(s).generation /\ socket.open = Consumed(s).open
      /\ socket.joined = Consumed(s).joined /\ socket.inbox = Consumed(s).inbox
      /\ socket.asked = asks
  BY <1>2, <1>4 DEF Socket
<1> HIDE DEF socket
<1>6. /\ socket.client = sockets[s].client /\ socket.generation = sockets[s].generation
      /\ socket.open = sockets[s].open /\ socket.joined = sockets[s].joined
      /\ socket.inbox = Tail(sockets[s].inbox) /\ (~socket.open => socket.asked = {})
  BY <1>2, <1>4, <1>5
<1>7. \A e \in Remote, room \in Room : ~Adds(first, e, room) /\ ~Removes(first, e, room)
  BY <1>1 DEF Adds, Removes
<1>8. UNCHANGED <<rooms, met>>
  BY DEF HandleDisplayName
<1> HIDE DEF first
<1>9. \A e \in Remote : rooms'[e] # {} =>
        met'[e] = s \/ (rooms[e] # {} /\ met'[e] = met[e])
  BY <1>8
<1>10. \A e \in Remote, room \in Room :
         room \in rooms'[e] <=>
           /\ room \in rooms[e] \/ Adds(Head(sockets[s].inbox), e, room)
           /\ ~Removes(Head(sockets[s].inbox), e, room)
  BY <1>7, <1>8 DEF first
<1> QED
  BY <1>1, <1>3, <1>5, <1>6, <1>9, <1>10, FrameHeard

\* A frame that tells of these devices in this room.
Presents(frame, present, room) ==
  \A e \in Remote, known \in Room :
    /\ Adds(frame, e, known) <=> e \in present /\ known = room
    /\ ~Removes(frame, e, known)

LEMMA RefreshList ==
  ASSUME Inv, Inv', ListInv, NEW s \in DOMAIN sockets, NEW type, Handles(s, type),
         sockets' = [sockets EXCEPT ![s] = Consumed(s)],
         NEW present \in SUBSET Remote, NEW room \in Room, CreateOrRefresh(s, present, room),
         Presents(Head(sockets[s].inbox), present, room)
  PROVE  ListInv'
<1>1. sockets[s].inbox # <<>>
  BY DEF Handles
<1>2. /\ Consumed(s) \in Socket
      /\ Consumed(s).client = sockets[s].client /\ Consumed(s).open = sockets[s].open
      /\ Consumed(s).generation = sockets[s].generation
      /\ Consumed(s).joined = sockets[s].joined
      /\ Consumed(s).inbox = Tail(sockets[s].inbox)
      /\ ~Consumed(s).open => Consumed(s).asked = {}
  BY <1>1, ConsumedSocket, ConsumedRest
<1>3. \A e \in Remote :
        /\ rooms'[e] = IF e \in present THEN rooms[e] \union {room} ELSE rooms[e]
        /\ met'[e] = IF e \in present /\ rooms[e] = {} THEN s ELSE met[e]
  BY DEF CreateOrRefresh
<1>4. \A e \in Remote : rooms'[e] # {} =>
        met'[e] = s \/ (rooms[e] # {} /\ met'[e] = met[e])
  BY <1>3
<1>5. \A e \in Remote, known \in Room :
        known \in rooms'[e] <=>
          /\ known \in rooms[e] \/ Adds(Head(sockets[s].inbox), e, known)
          /\ ~Removes(Head(sockets[s].inbox), e, known)
  BY <1>3 DEF Presents
<1> QED
  BY <1>2, <1>4, <1>5, FrameHeard

LEMMA HandlePeersList ==
  ASSUME Inv, Inv', ListInv, NEW s \in DOMAIN sockets, HandlePeers(s)
  PROVE  ListInv'
<1> DEFINE frame == Head(sockets[s].inbox)
<1>1. Handles(s, "Peers") /\ frame \in Frame /\ frame.type = "Peers"
  BY ConsumedSocket DEF HandlePeers, Handles
<1>2. frame.room \in Room /\ frame.peers \in SUBSET Remote
  BY <1>1, FrameFields
<1>3. PICK present \in SUBSET Remote, room \in Room :
        frame.peers = present /\ frame.room = room
  BY <1>2
<1>4. CreateOrRefresh(s, present, room)
  BY <1>3 DEF HandlePeers, CreateOrRefresh
<1>5. sockets' = [sockets EXCEPT ![s] = Consumed(s)]
  BY DEF HandlePeers
<1>6. Presents(Head(sockets[s].inbox), present, room)
  BY <1>1, <1>3 DEF Presents, Adds, Removes
<1> QED
  BY <1>1, <1>4, <1>5, <1>6, RefreshList

LEMMA HandlePeerJoinedList ==
  ASSUME Inv, Inv', ListInv, NEW s \in DOMAIN sockets, HandlePeerJoined(s)
  PROVE  ListInv'
<1> DEFINE frame == Head(sockets[s].inbox)
<1>1. Handles(s, "PeerJoined") /\ frame \in Frame /\ frame.type = "PeerJoined"
  BY ConsumedSocket DEF HandlePeerJoined, Handles
<1>2. frame.room \in Room /\ {frame.peer} \in SUBSET Remote
  BY <1>1, FrameFields
<1>3. PICK present \in SUBSET Remote, room \in Room :
        {frame.peer} = present /\ frame.room = room
  BY <1>2
<1>4. CreateOrRefresh(s, present, room)
  BY <1>3 DEF HandlePeerJoined, CreateOrRefresh
<1>5. sockets' = [sockets EXCEPT ![s] = Consumed(s)]
  BY DEF HandlePeerJoined
<1>6. Presents(Head(sockets[s].inbox), present, room)
  BY <1>1, <1>3 DEF Presents, Adds, Removes
<1> QED
  BY <1>1, <1>4, <1>5, <1>6, RefreshList

LEMMA HandlePeerLeftList ==
  ASSUME Inv, Inv', ListInv, NEW s \in DOMAIN sockets, HandlePeerLeft(s)
  PROVE  ListInv'
<1> DEFINE frame == Head(sockets[s].inbox)
           left == Without(rooms[frame.peer], frame.room, frame.disconnect)
<1>1. /\ Handles(s, "PeerLeft") /\ sockets[s].inbox # <<>>
      /\ frame \in Frame /\ frame.type = "PeerLeft"
  BY ConsumedSocket DEF HandlePeerLeft, Handles
<1>2. /\ rooms' = [rooms EXCEPT ![frame.peer] = left]
      /\ sockets' = [sockets EXCEPT ![s] = Consumed(s)] /\ UNCHANGED met
  BY DEF HandlePeerLeft
<1>3. /\ Consumed(s) \in Socket
      /\ Consumed(s).client = sockets[s].client /\ Consumed(s).open = sockets[s].open
      /\ Consumed(s).generation = sockets[s].generation
      /\ Consumed(s).joined = sockets[s].joined
      /\ Consumed(s).inbox = Tail(sockets[s].inbox)
      /\ ~Consumed(s).open => Consumed(s).asked = {}
  BY <1>1, ConsumedSocket, ConsumedRest
<1>4. frame.room \in Room /\ frame.peer \in Remote
  BY <1>1, FrameFields
<1>5. \A e \in Remote, known \in Room :
        /\ ~Adds(frame, e, known)
        /\ Removes(frame, e, known) <=>
             e = frame.peer /\ (known = frame.room \/ frame.disconnect)
  BY <1>1 DEF Adds, Removes
<1>6. \A known : known \in left <=>
        known \in rooms[frame.peer] /\ known # frame.room /\ ~frame.disconnect
  BY DEF Without
<1>7. \A e \in Remote : rooms'[e] = IF e = frame.peer THEN left ELSE rooms[e]
  BY <1>2, <1>4 DEF Inv, TypeOK
<1> HIDE DEF left
<1>8. \A e \in Remote : rooms'[e] # {} => rooms[e] # {} /\ met'[e] = met[e]
  BY <1>2, <1>6, <1>7
<1>9. \A e \in Remote, known \in Room :
        known \in rooms'[e] <=>
          /\ known \in rooms[e] \/ Adds(frame, e, known)
          /\ ~Removes(frame, e, known)
  BY <1>5, <1>6, <1>7
<1> QED
  BY <1>1, <1>2, <1>3, <1>8, <1>9, FrameHeard

-----------------------------------------------------------------------------
(* The server.                                                             *)

\* A socket that is dropped says nothing more that counts.
LEMMA DropList ==
  ASSUME Inv, Inv', ListInv, NEW s \in DOMAIN sockets, Drop(s)
  PROVE  ListInv'
<1>1. PICK n \in 0..Len(sockets[s].inbox) :
        sockets' = [sockets EXCEPT ![s] =
          [sockets[s] EXCEPT !.open = FALSE, !.asked = {}, !.joined = {},
                             !.inbox = SubSeq(@, 1, n)]]
  BY Zenon DEF Drop
<1> DEFINE kept == SubSeq(sockets[s].inbox, 1, n)
           none == {}
           socket == [sockets[s] EXCEPT !.open = FALSE, !.asked = none, !.joined = none,
                                        !.inbox = kept]
<1>2. sockets[s] \in Socket
  BY DEF Inv, TypeOK
<1>3. kept \in Seq(Frame)
  <2>1. sockets[s].inbox \in Seq(Frame)
    BY <1>2 DEF Socket
  <2> QED
    BY <2>1, SubSeqProperties, LenProperties
<1>4. sockets' = [sockets EXCEPT ![s] = socket]
  BY <1>1
<1>5. none \in SUBSET Room /\ none = {}
  OBVIOUS
<1> HIDE DEF kept, none
<1>6. /\ socket \in Socket /\ socket.client = sockets[s].client
      /\ socket.generation = sockets[s].generation /\ socket.open = FALSE
      /\ socket.asked = none /\ socket.joined = none
  BY <1>2, <1>3, <1>5 DEF Socket
<1> HIDE DEF socket
<1>7. sockets[s].open
  BY DEF Drop
<1>8. /\ SocketsMove
      /\ \A t \in DOMAIN sockets : sockets'[t] = IF t = s THEN socket ELSE sockets[t]
  BY <1>4, <1>5, <1>6, <1>7, OneSocketMoves DEF ListInv
<1>9. Heeded'
  BY <1>8, ClientsStay, HeededSteps DEF Drop, ListInv
<1>10. Within' /\ (SameNetwork' => SameNetwork)
  BY Spending DEF Drop, ListInv, Kind
<1>11. DOMAIN sockets' = DOMAIN sockets
  BY <1>8 DEF SocketsMove
<1>12. \A t \in DOMAIN sockets : sockets'[t].open =>
         /\ sockets[t].open /\ sockets'[t].inbox = sockets[t].inbox
         /\ sockets'[t].joined = sockets[t].joined
  BY <1>6, <1>8
<1>13. SessionKnown' /\ ListsKnown'
  BY <1>10, <1>11, <1>12, NothingHeard DEF Drop
<1> QED
  BY <1>9, <1>10, <1>13 DEF ListInv

LEMMA AdmitList ==
  ASSUME Inv, Inv', ListInv, NEW s \in DOMAIN sockets, NEW room \in Room, Admit(s, room)
  PROVE  ListInv'
<1> DEFINE told == [type |-> "Peers", room |-> room, peers |-> there[room]]
           heard == IF there[room] = {} THEN sockets[s].inbox
                    ELSE Append(sockets[s].inbox, told)
           joined == sockets[s].joined \union {room}
           socket == [sockets[s] EXCEPT !.joined = joined, !.inbox = heard]
<1>1. sockets[s] \in Socket /\ there[room] \in SUBSET Remote
  BY DEF Inv, TypeOK
<1>2. sockets[s].inbox \in Seq(Frame) /\ told \in Frame
  BY <1>1, FrameTypes DEF Socket
<1>3. joined \in SUBSET Room /\ joined = sockets[s].joined \union {room}
  BY <1>1 DEF Socket
<1>4. /\ there[room] = {} => heard = sockets[s].inbox
      /\ there[room] # {} => heard = Append(sockets[s].inbox, told)
  OBVIOUS
<1>5. sockets' = [sockets EXCEPT ![s] = socket]
  BY Zenon DEF Admit
<1>6. \A e \in Remote, other \in Room :
        /\ Adds(told, e, other) <=> other = room /\ e \in there[room]
        /\ ~Removes(told, e, other)
  BY DEF Adds, Removes
<1> HIDE DEF told
<1>7. heard \in Seq(Frame)
  BY <1>2, AppendProperties
<1> HIDE DEF heard, joined
<1>8. /\ socket \in Socket /\ socket.client = sockets[s].client
      /\ socket.generation = sockets[s].generation /\ socket.open = sockets[s].open
      /\ socket.asked = sockets[s].asked /\ socket.joined = joined
      /\ socket.inbox = heard
  BY <1>1, <1>3, <1>7 DEF Socket
<1> HIDE DEF socket
<1>9. room \in sockets[s].asked /\ room \notin sockets[s].joined
  BY DEF Admit
<1>10. sockets[s].open
  BY <1>9 DEF ListInv, Heeded
<1>11. /\ SocketsMove
       /\ \A t \in DOMAIN sockets : sockets'[t] = IF t = s THEN socket ELSE sockets[t]
  BY <1>5, <1>8, <1>10, OneSocketMoves DEF ListInv
<1>12. UNCHANGED <<clients, signaling, rooms, met, there, budget>>
  BY DEF Admit
<1>13. Heeded'
  BY <1>11, <1>12, ClientsStay, HeededSteps DEF ListInv
<1>14. Within' /\ SessionKnown' /\ (SameNetwork' => SameNetwork)
  BY <1>12 DEF ListInv, Within, SessionKnown, SameNetwork
<1>15. ListsKnown'
  <2> SUFFICES ASSUME SameNetwork', NEW t \in DOMAIN sockets', sockets'[t].open,
                      NEW e \in Remote, NEW other \in Room
               PROVE  Told(sockets'[t].inbox, other \in sockets'[t].joined, e \in there'[other],
                           other \in rooms'[e], e, other)
    BY Zenon DEF ListsKnown
  <2>1. t \in DOMAIN sockets /\ sockets[t].open
    BY <1>11 DEF SocketsMove
  <2>2. t = s
    BY <1>10, <2>1, OpenIsCurrent
  <2>3. sockets'[t].inbox = heard /\ sockets'[t].joined = joined
    BY <1>8, <1>11, <2>2
  <2>4. rooms' = rooms /\ there' = there
    BY <1>12
  <2>5. Told(sockets[s].inbox, other \in sockets[s].joined, e \in there[other],
             other \in rooms[e], e, other)
    BY <1>10, <1>14 DEF ListInv, ListsKnown
  <2>6. Told(heard, other \in joined, e \in there[other], other \in rooms[e], e, other)
    <3> DEFINE q == sockets[s].inbox
               listed == other \in rooms[e]
    <3>1. CASE other # room
      <4>1. ~Adds(told, e, other) /\ ~Removes(told, e, other)
        BY <1>6, <3>1
      <4>2. Told(heard, other \in sockets[s].joined, e \in there[other], listed, e, other)
        BY <1>2, <1>4, <2>5, <4>1, NoNews
      <4> QED
        BY <1>3, <3>1, <4>2 DEF Told
    <3>2. CASE other = room /\ e \in there[room]
      <4>1. heard = Append(q, told) /\ Adds(told, e, other)
        BY <1>4, <1>6, <3>2
      <4>2. WillList(heard, listed, e, other)
        BY <1>2, <4>1, NewsPutLast
      <4> QED
        BY <1>3, <3>2, <4>2 DEF Told
    <3>3. CASE other = room /\ e \notin there[room]
      <4>1. ~listed /\ ~AddedAfter(0, q, e, other)
        BY <1>9, <2>5, <3>3 DEF Told
      <4>2. \A i \in DOMAIN q : i > 0
        BY <1>2, LenProperties
      <4>3. WillNotList(q, listed, e, other)
        BY <4>1, <4>2 DEF WillNotList, AddedAfter
      <4>4. ~Adds(told, e, other)
        BY <1>6, <3>3
      <4>5. WillNotList(heard, listed, e, other)
        BY <1>2, <1>4, <4>3, <4>4, NewsPutLast
      <4> QED
        BY <1>3, <3>3, <4>5 DEF Told
    <3> QED
      BY <3>1, <3>2, <3>3
  <2> QED
    BY <2>3, <2>4, <2>6
<1> QED
  BY <1>13, <1>14, <1>15 DEF ListInv

\* A socket hears a frame of a room once it is in it.
LEMMA ToldSockets ==
  ASSUME Inv, Heeded, NEW room \in Room, NEW frame \in Frame, Tell(room, frame)
  PROVE  /\ SocketsMove
         /\ \A s \in DOMAIN sockets :
              /\ sockets'[s].open = sockets[s].open
              /\ sockets'[s].joined = sockets[s].joined
              /\ room \in sockets[s].joined =>
                   sockets'[s].inbox = Append(sockets[s].inbox, frame)
              /\ room \notin sockets[s].joined => sockets'[s].inbox = sockets[s].inbox
<1>1. DOMAIN sockets' = DOMAIN sockets
  BY DEF Tell
<1>2. ASSUME NEW s \in DOMAIN sockets
      PROVE  /\ sockets'[s].client = sockets[s].client
             /\ sockets'[s].generation = sockets[s].generation
             /\ sockets'[s].open = sockets[s].open
             /\ sockets'[s].asked = sockets[s].asked
             /\ sockets'[s].joined = sockets[s].joined
             /\ room \in sockets[s].joined =>
                  sockets'[s].inbox = Append(sockets[s].inbox, frame)
             /\ room \notin sockets[s].joined => sockets'[s].inbox = sockets[s].inbox
  <2> DEFINE longer == Append(sockets[s].inbox, frame)
             socket == [sockets[s] EXCEPT !.inbox = longer]
  <2>1. sockets[s] \in Socket
    BY DEF Inv, TypeOK
  <2>2. sockets'[s] = IF room \in sockets[s].joined THEN socket ELSE sockets[s]
    BY DEF Tell
  <2>3. longer = Append(sockets[s].inbox, frame)
    OBVIOUS
  <2> HIDE DEF longer
  <2>4. /\ socket.client = sockets[s].client /\ socket.generation = sockets[s].generation
        /\ socket.open = sockets[s].open /\ socket.asked = sockets[s].asked
        /\ socket.joined = sockets[s].joined /\ socket.inbox = longer
    BY <2>1 DEF Socket
  <2> HIDE DEF socket
  <2> QED
    BY <2>2, <2>3, <2>4
<1>3. \A s \in DOMAIN sockets : ~sockets[s].open => sockets[s].asked = {} /\ sockets[s].joined = {}
  BY DEF Heeded
<1>4. SocketsMove
  BY <1>1, <1>2, <1>3 DEF SocketsMove
<1> QED
  BY <1>2, <1>4

\* A device comes or goes: who hears of it in the room is put right by the frame, and the
\* frame says nothing that is wrong of the other rooms.
LEMMA ToldList ==
  ASSUME Inv, Inv', ListInv, NEW room \in Room, NEW frame \in Frame, Tell(room, frame),
         UNCHANGED <<clients, signaling, rooms, met>>,
         \E kind \in Kind : Spend(kind),
         \A e \in Remote, other \in Room :
           \/ /\ e \in there'[other] <=> e \in there[other]
              /\ ~Adds(frame, e, other)
              /\ e \in there[other] => ~Removes(frame, e, other)
           \/ other = room /\ e \in there'[other] /\ Adds(frame, e, other)
           \/ other = room /\ e \notin there'[other] /\ Removes(frame, e, other)
  PROVE  ListInv'
<1>1. /\ SocketsMove
      /\ \A s \in DOMAIN sockets :
           /\ sockets'[s].open = sockets[s].open
           /\ sockets'[s].joined = sockets[s].joined
           /\ room \in sockets[s].joined =>
                sockets'[s].inbox = Append(sockets[s].inbox, frame)
           /\ room \notin sockets[s].joined => sockets'[s].inbox = sockets[s].inbox
  BY ToldSockets DEF ListInv
<1>2. Heeded'
  BY <1>1, ClientsStay, HeededSteps DEF ListInv
<1>3. Within' /\ (SameNetwork' => SameNetwork)
  BY Spending DEF ListInv
<1>4. SessionKnown'
  BY <1>3 DEF ListInv, SessionKnown
<1>5. ListsKnown'
  <2> SUFFICES ASSUME SameNetwork', NEW s \in DOMAIN sockets', sockets'[s].open,
                      NEW e \in Remote, NEW other \in Room
               PROVE  Told(sockets'[s].inbox, other \in sockets'[s].joined, e \in there'[other],
                           other \in rooms'[e], e, other)
    BY Zenon DEF ListsKnown
  <2>1. s \in DOMAIN sockets /\ sockets[s].open
    BY <1>1 DEF SocketsMove
  <2> DEFINE q == sockets[s].inbox
             longer == Append(q, frame)
             listed == other \in rooms[e]
             admitted == other \in sockets[s].joined
             here == e \in there[other]
  <2>2. q \in Seq(Frame) /\ longer = Append(q, frame)
    <3>1. sockets[s] \in Socket
      BY <2>1 DEF Inv, TypeOK
    <3> QED
      BY <3>1 DEF Socket
  <2>3. Told(q, admitted, here, listed, e, other)
    BY <1>3, <2>1 DEF ListInv, ListsKnown
  <2>4. rooms' = rooms /\ (other \in sockets'[s].joined <=> admitted)
    BY <1>1, <2>1
  <2>5. /\ room \in sockets[s].joined => sockets'[s].inbox = longer
        /\ room \notin sockets[s].joined => sockets'[s].inbox = q
    BY <1>1, <2>1
  <2>6. \/ /\ e \in there'[other] <=> here
           /\ ~Adds(frame, e, other)
           /\ here => ~Removes(frame, e, other)
        \/ other = room /\ e \in there'[other] /\ Adds(frame, e, other)
        \/ other = room /\ e \notin there'[other] /\ Removes(frame, e, other)
    OBVIOUS
  <2>7. other = room => (admitted <=> room \in sockets[s].joined)
    OBVIOUS
  <2> HIDE DEF q, longer, listed, admitted, here
  <2>8. /\ WillList(q, listed, e, other) /\ ~Removes(frame, e, other)
             => WillList(longer, listed, e, other)
        /\ Adds(frame, e, other) => WillList(longer, listed, e, other)
        /\ WillNotList(q, listed, e, other) /\ ~Adds(frame, e, other)
             => WillNotList(longer, listed, e, other)
        /\ Removes(frame, e, other) => WillNotList(longer, listed, e, other)
        /\ ~AddedAfter(0, q, e, other) /\ ~Adds(frame, e, other)
             => ~AddedAfter(0, longer, e, other)
    BY <2>2, NewsPutLast
  <2>9. CASE room \notin sockets[s].joined
    <3>1. Told(q, admitted, e \in there'[other], listed, e, other)
      BY <2>3, <2>6, <2>7, <2>9 DEF Told
    <3> QED
      BY <2>4, <2>5, <2>9, <3>1 DEF Told, listed
  <2>10. CASE room \in sockets[s].joined
    <3>1. Told(longer, admitted, e \in there'[other], listed, e, other)
      BY <2>3, <2>6, <2>7, <2>8, <2>10 DEF Told
    <3> QED
      BY <2>4, <2>5, <2>10, <3>1 DEF Told, listed
  <2> QED
    BY <2>9, <2>10
<1> QED
  BY <1>2, <1>3, <1>4, <1>5 DEF ListInv

LEMMA RemoteEntersList ==
  ASSUME Inv, Inv', ListInv, NEW e \in Remote, NEW room \in Room, RemoteEnters(e, room)
  PROVE  ListInv'
<1> DEFINE frame == [type |-> "PeerJoined", room |-> room, peer |-> e]
<1>1. frame \in Frame /\ Tell(room, frame)
  BY FrameTypes DEF RemoteEnters
<1>2. \A d \in Remote, other \in Room :
        /\ Adds(frame, d, other) <=> d = e /\ other = room
        /\ ~Removes(frame, d, other)
  BY DEF Adds, Removes
<1> HIDE DEF frame
<1>3. there' = [there EXCEPT ![room] = there[room] \union {e}]
  BY DEF RemoteEnters
<1>4. \A other \in Room :
        there'[other] = IF other = room THEN there[room] \union {e} ELSE there[other]
  BY <1>3 DEF Inv, TypeOK
<1>5. ASSUME NEW d \in Remote, NEW other \in Room
      PROVE  \/ /\ d \in there'[other] <=> d \in there[other]
                /\ ~Adds(frame, d, other)
                /\ d \in there[other] => ~Removes(frame, d, other)
             \/ other = room /\ d \in there'[other] /\ Adds(frame, d, other)
  BY <1>2, <1>4
<1>6. UNCHANGED <<clients, signaling, rooms, met>> /\ \E kind \in Kind : Spend(kind)
  BY DEF RemoteEnters, Kind
<1> QED
  BY <1>1, <1>5, <1>6, ToldList

LEMMA RemoteLeavesList ==
  ASSUME Inv, Inv', ListInv, NEW e \in Remote, NEW room \in Room, RemoteLeaves(e, room)
  PROVE  ListInv'
<1>1. PICK disconnect \in BOOLEAN :
        /\ disconnect => \A other \in Room : e \notin there'[other]
        /\ Tell(room, [type |-> "PeerLeft", room |-> room, peer |-> e,
                       disconnect |-> disconnect])
  BY DEF RemoteLeaves
<1> DEFINE frame == [type |-> "PeerLeft", room |-> room, peer |-> e,
                     disconnect |-> disconnect]
<1>2. frame \in Frame /\ Tell(room, frame)
  BY <1>1, FrameTypes
<1>3. \A d \in Remote, other \in Room :
        /\ ~Adds(frame, d, other)
        /\ Removes(frame, d, other) <=> d = e /\ (other = room \/ disconnect)
  BY DEF Adds, Removes
<1> HIDE DEF frame
<1>4. there' = [there EXCEPT ![room] = there[room] \ {e}]
  BY DEF RemoteLeaves
<1>5. \A other \in Room :
        there'[other] = IF other = room THEN there[room] \ {e} ELSE there[other]
  BY <1>4 DEF Inv, TypeOK
<1>6. ASSUME NEW d \in Remote, NEW other \in Room
      PROVE  \/ /\ d \in there'[other] <=> d \in there[other]
                /\ ~Adds(frame, d, other)
                /\ d \in there[other] => ~Removes(frame, d, other)
             \/ other = room /\ d \notin there'[other] /\ Removes(frame, d, other)
  <2>1. CASE d = e /\ other = room
    BY <1>3, <1>5, <2>1
  <2>2. CASE ~(d = e /\ other = room)
    <3>1. d \in there'[other] <=> d \in there[other]
      BY <1>5, <2>2
    <3>2. d \in there[other] => ~Removes(frame, d, other)
      BY <1>1, <1>3, <2>2, <3>1
    <3> QED
      BY <1>3, <3>1, <3>2
  <2> QED
    BY <2>1, <2>2
<1>7. UNCHANGED <<clients, signaling, rooms, met>> /\ \E kind \in Kind : Spend(kind)
  BY DEF RemoteLeaves, Kind
<1> QED
  BY <1>2, <1>6, <1>7, ToldList

-----------------------------------------------------------------------------
(* The specification.                                                      *)

LEMMA InitList ==
  ASSUME Init
  PROVE  ListInv
<1>1. budget.networkChange \in Nat /\ budget = Limits
  BY LimitsAssumption DEF Init, Kind
<1> QED
  BY <1>1 DEF Init, ListInv, Heeded, SessionKnown, ListsKnown, Within

LEMMA StepList ==
  ASSUME Inv, Inv', ListInv, [Next]_vars
  PROVE  ListInv'
<1>1. CASE User
  BY <1>1, StartList, StopList, RestartList, NetworkChangedList DEF User
<1>2. CASE \E i \in DOMAIN clients :
             \/ RetryIsDue(i) \/ Retry(i)
             \/ \E generation \in clients[i].fetching : ConfigFetched(i, generation)
  BY <1>2, RetryIsDueList, RetryList, ConfigFetchedList
<1>3. CASE \E s \in DOMAIN sockets : SocketTask(s)
  BY <1>3, IgnoreStaleList, HandleDropList, HandleDisplayNameList, HandlePeersList,
     HandlePeerJoinedList, HandlePeerLeftList DEF SocketTask
<1>4. CASE Server
  BY <1>4, DropList, AdmitList, RemoteEntersList, RemoteLeavesList DEF Server, Admissions
<1>5. CASE UNCHANGED vars
  <2>1. UNCHANGED <<clients, signaling, rooms, met, sockets, there, budget>>
    BY <1>5 DEF vars
  <2>2. Heeded'
    BY <2>1, ClientsStay, SocketsStay, HeededSteps DEF ListInv
  <2>3. SessionKnown' /\ Within'
    BY <2>1 DEF ListInv, SessionKnown, SameNetwork, Within
  <2>4. ListsKnown'
    BY <2>1 DEF ListInv, ListsKnown, SameNetwork
  <2> QED
    BY <2>2, <2>3, <2>4 DEF ListInv
<1> QED
  BY <1>1, <1>2, <1>3, <1>4, <1>5 DEF Next, Tasks

\* "Peers only exist while we share a signalling session with them": whatever sockets were
\* fetched, dropped and replaced, a listed peer was met under the present one.
THEOREM ListedInThisSession == Spec => []PeersAreOfThisSession
<1>1. ListInv => PeersAreOfThisSession
  BY DEF ListInv, SessionKnown, PeersAreOfThisSession
<1> QED
  BY <1>1, InitInv, StepInv, InitList, StepList, PTL DEF Spec

\* "Only tear the connection down when we no longer share any room with them": once the
\* client has heard all there is to hear, its list is what the server knows.
THEOREM ListIsRight == Spec => []ListedWhereShared
<1>1. ASSUME Inv, ListInv
      PROVE  ListedWhereShared
  <2> SUFFICES ASSUME CaughtUp, SameNetwork, NEW e \in Remote
               PROVE  rooms[e] = {room \in Room : e \in there[room]}
    BY DEF ListedWhereShared
  <2> DEFINE s == clients[signaling].task
  <2>1. /\ s # 0 /\ sockets[s].open /\ sockets[s].joined = Room /\ sockets[s].inbox = <<>>
        /\ signaling \in DOMAIN clients
    BY <1>1 DEF CaughtUp, Inv, TypeOK
  <2>2. s \in DOMAIN sockets
    BY <1>1, <2>1 DEF Inv, TypeOK
  <2>3. \A room \in Room :
          Told(sockets[s].inbox, room \in sockets[s].joined, e \in there[room],
               room \in rooms[e], e, room)
    BY <1>1, <2>1, <2>2 DEF ListInv, ListsKnown
  <2>4. \A room \in Room : room \in rooms[e] <=> e \in there[room]
    BY <2>1, <2>3 DEF Told, WillList, WillNotList, AddedAfter, RemovedAfter
  <2>5. rooms[e] \in SUBSET Room
    BY <1>1 DEF Inv, TypeOK
  <2> QED
    BY <2>4, <2>5
<1> QED
  BY <1>1, InitInv, StepInv, InitList, StepList, PTL DEF Spec
=============================================================================
