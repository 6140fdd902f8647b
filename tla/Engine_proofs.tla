---------------------------- MODULE Engine_proofs ----------------------------
(***************************************************************************)
(* Proofs about Engine, for any devices, rooms and secrets, wherever the   *)
(* devices are and however often each thing outside their control happens. *)
(***************************************************************************)
EXTENDS Engine, SequenceTheorems, TLAPS

SessionsOK == sessions \in [Device -> [Device -> Seq(Session)]]
PeersOK == peers \in [Device -> [Device -> Peer \union {None}]]
CurrentOK == \A d \in Device : \A e \in Known(d) : peers[d][e].session \in DOMAIN sessions[d][e]

-----------------------------------------------------------------------------
(* Sequences and messages.                                                 *)

LEMMA HeadAndTail ==
  ASSUME NEW S, NEW q \in Seq(S), q # <<>>
  PROVE  Head(q) \in S /\ Tail(q) \in Seq(S)
OBVIOUS

LEMMA Sequences ==
  ASSUME NEW S, NEW x \in S, NEW y \in S
  PROVE  <<>> \in Seq(S) /\ <<x>> \in Seq(S) /\ <<x, y>> \in Seq(S)
OBVIOUS

LEMMA Concats ==
  ASSUME NEW S, NEW p \in Seq(S), NEW q \in Seq(S), NEW x \in S
  PROVE  p \o q \in Seq(S) /\ Append(p, x) \in Seq(S)
OBVIOUS

LEMMA Truncated ==
  ASSUME NEW S, NEW q \in Seq(S), NEW n \in 0..Len(q)
  PROVE  SubSeq(q, n + 1, Len(q)) \in Seq(S) /\ SubSeq(q, 1, n) \in Seq(S)
OBVIOUS

LEMMA Mapped ==
  ASSUME NEW S, NEW q \in Seq(S), NEW f \in [DOMAIN q -> S]
  PROVE  f \in Seq(S)
<1>1. DOMAIN q = 1..Len(q) /\ Len(q) \in Nat
  OBVIOUS
<1>2. f \in [1..Len(q) -> S]
  BY <1>1, Zenon
<1> QED
  BY <1>1, <1>2, SeqDef

LEMMA Updated ==
  ASSUME NEW S, NEW q \in Seq(S), NEW n, NEW v, n \in DOMAIN q => v \in S
  PROVE  /\ [q EXCEPT ![n] = v] \in Seq(S)
         /\ DOMAIN [q EXCEPT ![n] = v] = DOMAIN q
         /\ \A k \in DOMAIN q : [q EXCEPT ![n] = v][k] = IF k = n THEN v ELSE q[k]
<1> DEFINE f == [q EXCEPT ![n] = v]
<1>1. DOMAIN f = DOMAIN q /\ \A k \in DOMAIN q : f[k] = IF k = n THEN v ELSE q[k]
  OBVIOUS
<1>2. \A k \in DOMAIN q : q[k] \in S
  OBVIOUS
<1>3. f \in [DOMAIN q -> S]
  <2>1. f = [k \in DOMAIN q |-> f[k]]
    OBVIOUS
  <2> HIDE DEF f
  <2> QED
    BY <1>1, <1>2, <2>1
<1> HIDE DEF f
<1>4. f \in Seq(S)
  BY <1>3, Mapped
<1> QED
  BY <1>1, <1>4 DEF f

LEMMA ConstantTypes ==
  /\ Secret \subseteq Room /\ Ip \subseteq Room /\ None \notin Room /\ None \notin Device
  /\ Ip \cap Secret = {}
BY RoomAssumption DEF Room

LEMMA ClientMessages ==
  /\ [type |-> "JoinIpRoom"] \in ClientMessage
  /\ \A secrets \in SUBSET Secret : RoomSecrets(secrets) \in ClientMessage
  /\ \A s \in Secret : [type |-> "RoomSecretsDeleted", secret |-> s] \in ClientMessage
  /\ \A e \in Device, n \in Nat \ {0}, m \in Nat, room \in Room :
       [type |-> "Signal", peer |-> e, session |-> n, room |-> room, answers |-> m]
         \in ClientMessage
BY DEF ClientMessage, RoomSecrets

LEMMA ServerMessages ==
  /\ [type |-> "WaitingToRetry"] \in ServerMessage
  /\ [type |-> "Identity"] \in ServerMessage
  /\ \A d \in Device : [type |-> "PeerLeft", peer |-> d] \in ServerMessage
  /\ \A room \in Room, present \in SUBSET Device :
       [type |-> "Peers", room |-> room, peers |-> present] \in ServerMessage
  /\ \A room \in Room, d \in Device :
       [type |-> "PeerJoined", room |-> room, peer |-> d] \in ServerMessage
  /\ \A s \in Secret : [type |-> "Deleted", secret |-> s] \in ServerMessage
  /\ \A s \in Secret, d \in Device :
       [type |-> "Paired", secret |-> s, peer |-> d] \in ServerMessage
  /\ \A old, new \in Secret :
       [type |-> "Regenerated", old |-> old, new |-> new] \in ServerMessage
  /\ \A d \in Device, n \in Nat \ {0}, m \in Nat :
       [type |-> "Signal", peer |-> d, session |-> n, answers |-> m] \in ServerMessage
BY DEF ServerMessage, Signal

\* What a frame or a message carries.
LEMMA CarriedDown ==
  ASSUME NEW frame \in ServerMessage
  PROVE  /\ frame.type = "Peers" => frame.room \in Room /\ frame.peers \subseteq Device
         /\ frame.type = "PeerJoined" => frame.room \in Room /\ frame.peer \in Device
         /\ frame.type \in {"PeerLeft", "Signal", "Paired"} => frame.peer \in Device
         /\ frame.type \in {"Paired", "Deleted"} => frame.secret \in Secret
         /\ frame.type = "Regenerated" => frame.old \in Secret /\ frame.new \in Secret
         /\ frame.type = "Signal" => frame.session \in Nat \ {0} /\ frame.answers \in Nat
BY DEF ServerMessage, Signal

LEMMA CarriedUp ==
  ASSUME NEW message \in ClientMessage
  PROVE  /\ message.type = "RoomSecrets" => message.secrets \subseteq Secret
         /\ message.type = "RoomSecretsDeleted" => message.secret \in Secret
         /\ message.type = "Signal" =>
              /\ message.peer \in Device /\ message.session \in Nat \ {0}
              /\ message.answers \in Nat /\ message.room \in Room
BY DEF ClientMessage

-----------------------------------------------------------------------------
(* What the steps share keeps the types.                                   *)

LEMMA SpendType ==
  ASSUME budget \in [Kind -> Nat], NEW kinds, Spend(kinds)
  PROVE  budget' \in [Kind -> Nat]
BY DEF Spend

LEMMA SendType ==
  ASSUME TypeOK, NEW d \in Device, NEW messages \in Seq(ClientMessage), Send(d, messages)
  PROVE  up' \in [Device -> Seq(ClientMessage)]
<1>1. up[d] \o messages \in Seq(ClientMessage)
  BY Concats DEF TypeOK
<1> QED
  BY <1>1 DEF TypeOK, Send

LEMMA HandledType ==
  ASSUME TypeOK, NEW d \in Device, NEW type, Arrives(d, type), Handled(d)
  PROVE  /\ down' \in [Device -> Seq(ServerMessage)]
         /\ Head(down[d]) \in ServerMessage /\ Head(down[d]).type = type
<1>1. down[d] \in Seq(ServerMessage) /\ down[d] # <<>>
  BY DEF TypeOK, Arrives
<1>2. Tail(down[d]) \in Seq(ServerMessage) /\ Head(down[d]) \in ServerMessage
  BY <1>1, HeadAndTail
<1>3. Head(down[d]).type = type
  BY DEF Arrives
<1> QED
  BY <1>2, <1>3 DEF TypeOK, Handled

LEMMA ReadType ==
  ASSUME TypeOK, NEW d \in Device, NEW type, Reads(d, type)
  PROVE  /\ Head(up[d]) \in ClientMessage /\ Head(up[d]).type = type
         /\ Read(d) => up' \in [Device -> Seq(ClientMessage)]
<1>1. up[d] \in Seq(ClientMessage) /\ up[d] # <<>> /\ Head(up[d]).type = type
  BY DEF TypeOK, Reads
<1>2. Tail(up[d]) \in Seq(ClientMessage) /\ Head(up[d]) \in ClientMessage
  BY <1>1, HeadAndTail
<1>3. up \in [Device -> Seq(ClientMessage)]
  BY DEF TypeOK
<1> QED
  BY <1>1, <1>2, <1>3 DEF Read

LEMMA ClosedType ==
  ASSUME NEW session \in Session
  PROVE  ClosedSession(session) \in Session /\ ClosedSession(session).state = "closed"
<1>1. Append(session.reports, "Closed") \in Seq(Report)
  BY DEF Session, Report
<1> DEFINE reports == Append(session.reports, "Closed")
<1>2. ClosedSession(session) = [session EXCEPT !.state = "closed", !.reports = reports]
  BY DEF ClosedSession
<1> HIDE DEF reports
<1> QED
  BY <1>1, <1>2 DEF Session, reports

\* Closing keeps every session, and closes the current ones with those that leave.
LEMMA ClosingType ==
  ASSUME TypeOK, NEW d \in Device, NEW leaving
  PROVE  /\ Closing(d, leaving) \in [Device -> Seq(Session)]
         /\ \A e \in Device : DOMAIN Closing(d, leaving)[e] = DOMAIN sessions[d][e]
         /\ \A e \in Device : \A n \in DOMAIN sessions[d][e] :
              Closing(d, leaving)[e][n].state # "closed" =>
                /\ sessions[d][e][n].state # "closed"
                /\ ~(e \in leaving /\ peers[d][e].session = n)
<1> DEFINE Ended(e, n) ==
      IF e \in leaving /\ peers[d][e].session = n /\ sessions[d][e][n].state # "closed"
      THEN ClosedSession(sessions[d][e][n]) ELSE sessions[d][e][n]
           List(e) == [n \in DOMAIN sessions[d][e] |-> Ended(e, n)]
<1>1. \A e \in Device : sessions[d][e] \in Seq(Session)
  BY DEF TypeOK
<1>2. ASSUME NEW e \in Device, NEW n \in DOMAIN sessions[d][e]
      PROVE  /\ Ended(e, n) \in Session
             /\ Ended(e, n).state # "closed" =>
                  /\ sessions[d][e][n].state # "closed"
                  /\ ~(e \in leaving /\ peers[d][e].session = n)
  <2>1. sessions[d][e][n] \in Session
    BY <1>1
  <2> QED
    BY <2>1, ClosedType
<1> HIDE DEF Ended
<1>3. ASSUME NEW e \in Device
      PROVE  List(e) \in Seq(Session)
  <2>1. List(e) \in [DOMAIN sessions[d][e] -> Session]
    BY <1>2
  <2> HIDE DEF List
  <2> QED
    BY <1>1, <2>1, Mapped
<1>4. Closing(d, leaving) = [e \in Device |-> List(e)]
  BY Zenon DEF Closing, Ended
<1> QED
  BY <1>2, <1>3, <1>4

-----------------------------------------------------------------------------
(* Steps on the sessions.                                                  *)

\* No session goes, none is opened again, and a new one is not counted here.
Kept ==
  \A d, e \in Device :
    /\ DOMAIN sessions[d][e] = DOMAIN sessions'[d][e]
    /\ \A n \in DOMAIN sessions[d][e] :
         sessions'[d][e][n].state # "closed" => sessions[d][e][n].state # "closed"

SamePeers ==
  \A d, e \in Device :
    /\ peers'[d][e] = None <=> peers[d][e] = None
    /\ peers[d][e] # None => peers'[d][e].session = peers[d][e].session

LEMMA KeptSafe ==
  ASSUME TypeOK, Kept, SamePeers
  PROVE  CurrentOK' /\ (NoSessionIsLeaked => NoSessionIsLeaked')
<1>1. CurrentOK'
  BY DEF TypeOK, Kept, SamePeers, CurrentOK, Known
<1>2. NoSessionIsLeaked => NoSessionIsLeaked'
  BY DEF Kept, SamePeers, NoSessionIsLeaked
<1> QED
  BY <1>1, <1>2

LEMMA Untouched ==
  ASSUME UNCHANGED <<sessions, peers>>
  PROVE  Kept /\ SamePeers
BY DEF Kept, SamePeers

LEMMA SessionUpdated ==
  ASSUME SessionsOK, NEW d \in Device, NEW e \in Device, NEW n, NEW v,
         n \in DOMAIN sessions[d][e] =>
           /\ v \in Session
           /\ v.state # "closed" => sessions[d][e][n].state # "closed",
         sessions' = [sessions EXCEPT ![d][e][n] = v]
  PROVE  SessionsOK' /\ Kept
<1> DEFINE list == [sessions[d][e] EXCEPT ![n] = v]
<1>1. sessions[d][e] \in Seq(Session)
  BY DEF SessionsOK
<1>2. /\ list \in Seq(Session) /\ DOMAIN list = DOMAIN sessions[d][e]
      /\ \A k \in DOMAIN sessions[d][e] : list[k] = IF k = n THEN v ELSE sessions[d][e][k]
  BY <1>1, Updated
<1>3. sessions' = [sessions EXCEPT ![d] = [sessions[d] EXCEPT ![e] = list]]
  OBVIOUS
<1> HIDE DEF list
<1>4. SessionsOK'
  <2>1. [sessions[d] EXCEPT ![e] = list] \in [Device -> Seq(Session)]
    BY <1>2 DEF SessionsOK
  <2> QED
    BY <1>3, <2>1 DEF SessionsOK
<1>5. \A x, y \in Device :
        sessions'[x][y] = IF x = d /\ y = e THEN list ELSE sessions[x][y]
  BY <1>3 DEF SessionsOK
<1>6. Kept
  BY <1>2, <1>5 DEF Kept
<1> QED
  BY <1>4, <1>6

LEMMA DropPeersType ==
  ASSUME TypeOK, NEW d \in Device, DropPeers(d)
  PROVE  /\ SessionsOK' /\ PeersOK' /\ CurrentOK'
         /\ NoSessionIsLeaked => NoSessionIsLeaked'
<1> DEFINE closing == Closing(d, Known(d))
<1>1. /\ closing \in [Device -> Seq(Session)]
      /\ \A e \in Device : DOMAIN closing[e] = DOMAIN sessions[d][e]
      /\ \A e \in Device : \A n \in DOMAIN sessions[d][e] :
           closing[e][n].state # "closed" =>
             /\ sessions[d][e][n].state # "closed"
             /\ ~(e \in Known(d) /\ peers[d][e].session = n)
  BY ClosingType
<1>2. /\ sessions' = [sessions EXCEPT ![d] = closing]
      /\ peers' = [peers EXCEPT ![d] = [e \in Device |-> None]]
  BY DEF DropPeers
<1> HIDE DEF closing
<1>3. SessionsOK' /\ PeersOK'
  BY <1>1, <1>2 DEF TypeOK, SessionsOK, PeersOK
<1>4. \A x, y \in Device :
        /\ sessions'[x][y] = IF x = d THEN closing[y] ELSE sessions[x][y]
        /\ peers'[x][y] = IF x = d THEN None ELSE peers[x][y]
  BY <1>1, <1>2 DEF TypeOK
<1>5. CurrentOK'
  BY <1>4, SMTT(20) DEF TypeOK, CurrentOK, Known
<1>6. NoSessionIsLeaked => NoSessionIsLeaked'
  <2> SUFFICES ASSUME NoSessionIsLeaked, NEW x \in Device, NEW y \in Device,
                      NEW n \in DOMAIN sessions'[x][y], sessions'[x][y][n].state # "closed"
               PROVE  peers'[x][y] # None /\ peers'[x][y].session = n
    BY DEF NoSessionIsLeaked
  <2>1. x # d
    BY <1>1, <1>4 DEF NoSessionIsLeaked, Known
  <2> QED
    BY <1>4, <2>1 DEF NoSessionIsLeaked
<1> QED
  BY <1>3, <1>5, <1>6

LEMMA NewTypes ==
  ASSUME TypeOK, NEW d \in Device, NEW e \in Device, NEW room \in Room, NEW isCaller \in BOOLEAN
  PROVE  /\ NewSession(isCaller) \in Session
         /\ NewPeer(d, e, room) \in Peer
         /\ NewPeer(d, e, room).session = Len(sessions[d][e]) + 1
         /\ NewPeer(d, e, room).autoAccept => NewPeer(d, e, room).secret \in trusted[d]
<1>1. NewSession(isCaller) \in Session
  <2>1. <<"LocalDescription">> \in Seq(Report) /\ <<>> \in Seq(Report)
    BY DEF Report
  <2>2. (IF isCaller THEN <<"LocalDescription">> ELSE <<>>) \in Seq(Report)
    BY <2>1
  <2> QED
    BY <2>2 DEF NewSession, Session
<1>2. Len(sessions[d][e]) + 1 \in Nat \ {0}
  <2>1. sessions[d][e] \in Seq(Session)
    BY DEF TypeOK
  <2> QED
    BY <2>1
<1> DEFINE secret == IF room \in Secret THEN room ELSE None
           index == Len(sessions[d][e]) + 1
           auto == secret \in trusted[d]
<1>3. secret \in Secret \union {None} /\ auto \in BOOLEAN
  OBVIOUS
<1>4. NewPeer(d, e, room) =
        [session |-> index, connected |-> FALSE, secret |-> secret, autoAccept |-> auto]
  BY DEF NewPeer
<1>5. auto => secret \in trusted[d]
  OBVIOUS
<1> HIDE DEF secret, index, auto
<1> QED
  BY <1>1, <1>2, <1>3, <1>4, <1>5 DEF Peer, index

\* Only peers without a session are dialled.
LEMMA DialType ==
  ASSUME TypeOK, NEW d \in Device, NEW called \in SUBSET (Device \ Known(d)),
         NEW isCaller \in BOOLEAN, NEW room \in Room, Dial(d, called, isCaller, room)
  PROVE  /\ SessionsOK' /\ PeersOK' /\ CurrentOK'
         /\ secretFor' \in [Device -> [Device -> Secret \union {None}]]
         /\ budget' \in [Kind -> Nat]
         /\ NoSessionIsLeaked => NoSessionIsLeaked'
<1> DEFINE new == NewSession(isCaller)
<1>1. PICK reached \in SUBSET called :
        /\ Spend(IF reached = called THEN {} ELSE {"dialFailure"})
        /\ sessions' = [sessions EXCEPT ![d] = [e \in Device |->
             IF e \in reached THEN Append(sessions[d][e], new) ELSE sessions[d][e]]]
        /\ peers' = [peers EXCEPT ![d] = [e \in Device |->
             IF e \in reached THEN NewPeer(d, e, room) ELSE peers[d][e]]]
        /\ secretFor' = [secretFor EXCEPT ![d] = [e \in Device |->
             IF e \in reached /\ room \in Secret THEN room ELSE secretFor[d][e]]]
  BY DEF Dial
<1>2. new \in Session /\ \A e \in Device : NewPeer(d, e, room) \in Peer
  BY NewTypes
<1>3. \A e \in Device : NewPeer(d, e, room).session = Len(sessions[d][e]) + 1
  BY NewTypes
<1> HIDE DEF new
<1>4. \A e \in Device : sessions[d][e] \in Seq(Session)
  BY DEF TypeOK
<1>5. ASSUME NEW e \in Device
      PROVE  /\ Append(sessions[d][e], new) \in Seq(Session)
             /\ DOMAIN Append(sessions[d][e], new) = 1..(Len(sessions[d][e]) + 1)
             /\ DOMAIN sessions[d][e] = 1..Len(sessions[d][e])
             /\ Len(sessions[d][e]) \in Nat
             /\ \A n \in DOMAIN sessions[d][e] : Append(sessions[d][e], new)[n] = sessions[d][e][n]
  BY <1>2, <1>4
<1>6. SessionsOK'
  <2> DEFINE lists == [e \in Device |->
               IF e \in reached THEN Append(sessions[d][e], new) ELSE sessions[d][e]]
  <2>1. lists \in [Device -> Seq(Session)]
    BY <1>4, <1>5
  <2>2. sessions' = [sessions EXCEPT ![d] = lists]
    BY <1>1
  <2> HIDE DEF lists
  <2> QED
    BY <2>1, <2>2 DEF TypeOK, SessionsOK
<1>7. PeersOK'
  BY <1>1, <1>2 DEF TypeOK, PeersOK
<1>8. secretFor' \in [Device -> [Device -> Secret \union {None}]]
  BY <1>1 DEF TypeOK
<1>9. budget' \in [Kind -> Nat]
  BY <1>1, SpendType DEF TypeOK
<1>10. \A x, y \in Device :
         /\ x = d /\ y \in reached =>
              /\ sessions'[x][y] = Append(sessions[d][y], new)
              /\ peers'[x][y] = NewPeer(d, y, room)
         /\ ~(x = d /\ y \in reached) =>
              sessions'[x][y] = sessions[x][y] /\ peers'[x][y] = peers[x][y]
  BY <1>1 DEF TypeOK
<1>11. CurrentOK'
  <2> SUFFICES ASSUME NEW x \in Device, NEW y \in Device, peers'[x][y] # None
               PROVE  peers'[x][y].session \in DOMAIN sessions'[x][y]
    BY DEF CurrentOK, Known
  <2>1. CASE x = d /\ y \in reached
    BY <1>3, <1>5, <1>10, <2>1
  <2>2. CASE ~(x = d /\ y \in reached)
    BY <1>10, <2>2, SMTT(20) DEF TypeOK, Known
  <2> QED
    BY <2>1, <2>2
<1>12. NoSessionIsLeaked => NoSessionIsLeaked'
  <2> SUFFICES ASSUME NoSessionIsLeaked, NEW x \in Device, NEW y \in Device,
                      NEW n \in DOMAIN sessions'[x][y], sessions'[x][y][n].state # "closed"
               PROVE  peers'[x][y] # None /\ peers'[x][y].session = n
    BY DEF NoSessionIsLeaked
  <2>1. CASE x = d /\ y \in reached
    <3>1. peers[d][y] = None
      BY <2>1 DEF Known
    <3>2. n \notin DOMAIN sessions[d][y]
      BY <1>5, <1>10, <2>1, <3>1 DEF NoSessionIsLeaked
    <3>3. n = Len(sessions[d][y]) + 1
      BY <1>5, <1>10, <2>1, <3>2
    <3>4. NewPeer(d, y, room) # None
      BY <1>2, NoneAssumption
    <3> QED
      BY <1>3, <1>10, <2>1, <3>3, <3>4
  <2>2. CASE ~(x = d /\ y \in reached)
    BY <1>10, <2>2 DEF NoSessionIsLeaked
  <2> QED
    BY <2>1, <2>2
<1> QED
  BY <1>6, <1>7, <1>8, <1>9, <1>11, <1>12

-----------------------------------------------------------------------------
(* Every action keeps the types, and leaks no session.                     *)

LEMMA TypeParts ==
  TypeOK => /\ SessionsOK /\ PeersOK /\ CurrentOK
            /\ \A d \in Device : home[d] \in Ip
<1>1. TypeOK => SessionsOK /\ PeersOK /\ CurrentOK
  BY DEF TypeOK, SessionsOK, PeersOK, CurrentOK
<1>2. TypeOK => home \in [Device -> Ip]
  BY RoomAssumption DEF TypeOK
<1> QED
  BY <1>1, <1>2

LEMMA SignalingTypes ==
  ASSUME TypeOK, NEW d \in Device, HandleSignaling(d)
  PROVE  TypeOK' /\ (NoSessionIsLeaked => NoSessionIsLeaked')
<1> DEFINE frame == Head(down[d])
<1>0. SessionsOK /\ PeersOK /\ CurrentOK
  BY TypeParts
<1>1. CASE HandleWaitingToRetry(d)
  <2>1. /\ SessionsOK' /\ PeersOK' /\ CurrentOK'
        /\ NoSessionIsLeaked => NoSessionIsLeaked'
    BY <1>1, DropPeersType DEF HandleWaitingToRetry
  <2>2. down' \in [Device -> Seq(ServerMessage)]
    BY <1>1, HandledType DEF HandleWaitingToRetry
  <2> QED
    BY <1>1, <2>1, <2>2 DEF HandleWaitingToRetry, TypeOK, SessionsOK, PeersOK, CurrentOK, task, server
<1>2. CASE HandleIdentity(d)
  <2> DEFINE rest == IF held[d] = {} THEN <<>> ELSE <<RoomSecrets(held[d])>>
             asked == <<[type |-> "JoinIpRoom"]>> \o rest
  <2>1. RoomSecrets(held[d]) \in ClientMessage
    BY ClientMessages DEF TypeOK
  <2>2. rest \in Seq(ClientMessage)
    BY <2>1, Sequences, Zenon
  <2>3. <<[type |-> "JoinIpRoom"]>> \in Seq(ClientMessage)
    BY ClientMessages, Sequences, Zenon
  <2>4. asked \in Seq(ClientMessage)
    BY <2>2, <2>3
  <2>5. Send(d, asked)
    BY <1>2 DEF HandleIdentity
  <2> HIDE DEF asked
  <2>6. up' \in [Device -> Seq(ClientMessage)]
    BY <2>4, <2>5, SendType
  <2>7. down' \in [Device -> Seq(ServerMessage)]
    BY <1>2, HandledType DEF HandleIdentity
  <2>8. UNCHANGED <<engine, sessions, task, server, budget>>
    BY <1>2 DEF HandleIdentity
  <2>9. NoSessionIsLeaked => NoSessionIsLeaked'
    BY <2>8 DEF NoSessionIsLeaked, engine
  <2> QED
    BY <2>6, <2>7, <2>8, <2>9 DEF TypeOK, Known, engine, task, server
<1>3. ASSUME NEW called \in SUBSET (Device \ Known(d)), NEW isCaller \in BOOLEAN,
             NEW room \in Room, Dial(d, called, isCaller, room),
             Handled(d), NEW type, Arrives(d, type), UNCHANGED <<held, trusted, task, up, server>>
      PROVE  TypeOK' /\ (NoSessionIsLeaked => NoSessionIsLeaked')
  <2>1. down' \in [Device -> Seq(ServerMessage)]
    BY <1>3, HandledType
  <2>2. /\ SessionsOK' /\ PeersOK' /\ CurrentOK'
        /\ secretFor' \in [Device -> [Device -> Secret \union {None}]]
        /\ budget' \in [Kind -> Nat]
        /\ NoSessionIsLeaked => NoSessionIsLeaked'
    BY <1>3, DialType
  <2> QED
    BY <1>3, <2>1, <2>2 DEF TypeOK, SessionsOK, PeersOK, CurrentOK, task, server
<1>4. CASE HandlePeers(d)
  <2>1. Arrives(d, "Peers") /\ Handled(d)
    BY <1>4 DEF HandlePeers
  <2>2. frame.peers \ Known(d) \in SUBSET (Device \ Known(d)) /\ frame.room \in Room
    BY <2>1, HandledType, CarriedDown
  <2> QED
    BY <1>3, <1>4, <2>1, <2>2 DEF HandlePeers
<1>5. CASE HandlePeerJoined(d)
  <2>1. Arrives(d, "PeerJoined") /\ Handled(d)
    BY <1>5 DEF HandlePeerJoined
  <2>2. {frame.peer} \ Known(d) \in SUBSET (Device \ Known(d)) /\ frame.room \in Room
    BY <2>1, HandledType, CarriedDown
  <2> QED
    BY <1>3, <1>5, <2>1, <2>2 DEF HandlePeerJoined
<1>6. CASE HandlePeerLeft(d)
  <2> DEFINE gone == {frame.peer} \intersect Known(d)
             closing == Closing(d, gone)
  <2>1. Arrives(d, "PeerLeft") /\ Handled(d)
    BY <1>6 DEF HandlePeerLeft
  <2>2. down' \in [Device -> Seq(ServerMessage)] /\ frame.peer \in Device
    BY <2>1, HandledType, CarriedDown
  <2>3. PICK e \in Device : e = frame.peer
    BY <2>2
  <2>4. /\ sessions' = [sessions EXCEPT ![d] = closing]
        /\ peers' = [peers EXCEPT ![d][e] = None]
    BY <1>6, <2>3 DEF HandlePeerLeft
  <2>5. /\ closing \in [Device -> Seq(Session)]
        /\ \A x \in Device : DOMAIN closing[x] = DOMAIN sessions[d][x]
        /\ \A x \in Device : \A n \in DOMAIN sessions[d][x] :
             closing[x][n].state # "closed" =>
               /\ sessions[d][x][n].state # "closed"
               /\ ~(x \in gone /\ peers[d][x].session = n)
    BY ClosingType
  <2>6. \A x \in Device : x \in gone <=> x = e /\ peers[d][x] # None
    BY <2>3 DEF Known
  <2> HIDE DEF closing, gone
  <2>7. SessionsOK' /\ PeersOK'
    BY <2>4, <2>5 DEF TypeOK, SessionsOK, PeersOK
  <2>8. \A x, y \in Device :
          /\ sessions'[x][y] = IF x = d THEN closing[y] ELSE sessions[x][y]
          /\ peers'[x][y] = IF x = d /\ y = e THEN None ELSE peers[x][y]
    BY <2>4, <2>5 DEF TypeOK
  <2>9. CurrentOK'
    BY <1>0, <2>5, <2>8 DEF CurrentOK, Known
  <2>10. NoSessionIsLeaked => NoSessionIsLeaked'
    <3> SUFFICES ASSUME NoSessionIsLeaked, NEW x \in Device, NEW y \in Device,
                        NEW n \in DOMAIN sessions'[x][y], sessions'[x][y][n].state # "closed"
                 PROVE  peers'[x][y] # None /\ peers'[x][y].session = n
      BY DEF NoSessionIsLeaked
    <3>1. CASE x = d
      <4>1. n \in DOMAIN sessions[d][y] /\ closing[y][n].state # "closed"
        BY <2>5, <2>8, <3>1
      <4>2. sessions[d][y][n].state # "closed" /\ ~(y \in gone /\ peers[d][y].session = n)
        BY <2>5, <4>1
      <4>3. peers[d][y] # None /\ peers[d][y].session = n
        BY <4>1, <4>2 DEF NoSessionIsLeaked
      <4>4. y # e
        BY <2>6, <4>2, <4>3
      <4> QED
        BY <2>8, <3>1, <4>3, <4>4
    <3>2. CASE x # d
      BY <2>8, <3>2 DEF NoSessionIsLeaked
    <3> QED
      BY <3>1, <3>2
  <2>11. UNCHANGED <<secretFor, held, trusted, task, up, server, budget>>
    BY <1>6 DEF HandlePeerLeft
  <2> QED
    BY <2>2, <2>7, <2>9, <2>10, <2>11 DEF TypeOK, SessionsOK, PeersOK, CurrentOK, task, server
<1>7. CASE HandleSignal(d)
  <2>1. Arrives(d, "Signal") /\ Handled(d)
    BY <1>7 DEF HandleSignal
  <2>2. /\ down' \in [Device -> Seq(ServerMessage)] /\ frame.peer \in Device
        /\ frame.session \in Nat \ {0} /\ frame.answers \in Nat
    BY <2>1, HandledType, CarriedDown
  <2>3. UNCHANGED <<engine, task, up, server, budget>>
    BY <1>7 DEF HandleSignal
  <2>4. PICK e \in Device : e = frame.peer
    BY <2>2
  <2>5. PICK n : n = peers[d][e].session
    OBVIOUS
  <2>6. CASE UNCHANGED sessions
    <3>1. NoSessionIsLeaked => NoSessionIsLeaked'
      BY <2>3, <2>6 DEF NoSessionIsLeaked, engine
    <3> QED
      BY <2>2, <2>3, <2>6, <3>1 DEF TypeOK, Known, engine, task, server
  <2>7. CASE /\ peers[d][e] # None /\ sessions[d][e][n].state = "new"
             /\ sessions' = [sessions EXCEPT ![d][e][n].remote = frame.session,
                  ![d][e][n].reports =
                    IF frame.answers = 0 THEN Append(@, "LocalDescription") ELSE @]
    <3> DEFINE old == sessions[d][e][n]
               reports == IF frame.answers = 0 THEN Append(old.reports, "LocalDescription")
                          ELSE old.reports
               v == [old EXCEPT !.remote = frame.session, !.reports = reports]
    <3>1. n \in DOMAIN sessions[d][e] /\ old \in Session
      <4>1. n \in DOMAIN sessions[d][e]
        BY <1>0, <2>5, <2>7 DEF CurrentOK, Known
      <4>2. sessions[d][e] \in Seq(Session)
        BY <1>0 DEF SessionsOK
      <4> QED
        BY <4>1, <4>2
    <3>2. reports \in Seq(Report)
      BY <3>1 DEF Session, Report
    <3>3. sessions' = [sessions EXCEPT ![d][e][n] = v]
      BY <1>0, <2>7, <3>1 DEF SessionsOK
    <3> HIDE DEF reports
    <3>4. v \in Session /\ v.state = old.state
      BY <2>2, <3>1, <3>2 DEF Session
    <3> HIDE DEF v
    <3>5. SessionsOK' /\ Kept
      BY <1>0, <3>3, <3>4, SessionUpdated
    <3>6. SamePeers
      BY <2>3 DEF SamePeers, engine
    <3>7. CurrentOK' /\ (NoSessionIsLeaked => NoSessionIsLeaked')
      BY <3>5, <3>6, KeptSafe
    <3> QED
      BY <2>2, <2>3, <3>5, <3>7 DEF TypeOK, SessionsOK, CurrentOK, engine, task, server
  <2> QED
    BY <1>7, <2>4, <2>5, <2>6, <2>7 DEF HandleSignal
<1>8. CASE HandlePaired(d)
  <2>1. Arrives(d, "Paired") /\ Handled(d)
    BY <1>8 DEF HandlePaired
  <2>2. /\ down' \in [Device -> Seq(ServerMessage)] /\ frame.peer \in Device
        /\ frame.secret \in Secret
    BY <2>1, HandledType, CarriedDown
  <2>3. <<RoomSecrets({frame.secret})>> \in Seq(ClientMessage)
    <3>1. {frame.secret} \in SUBSET Secret
      BY <2>2
    <3> QED
      BY <3>1, ClientMessages, Sequences, Zenon
  <2>4. up' \in [Device -> Seq(ClientMessage)]
    BY <1>8, <2>3, SendType DEF HandlePaired
  <2>5. /\ held' \in [Device -> SUBSET Secret]
        /\ secretFor' \in [Device -> [Device -> Secret \union {None}]]
    BY <1>8, <2>2 DEF HandlePaired, TypeOK
  <2>6. UNCHANGED <<peers, trusted, sessions, task, server, budget>>
    BY <1>8 DEF HandlePaired
  <2>7. NoSessionIsLeaked => NoSessionIsLeaked'
    BY <2>6 DEF NoSessionIsLeaked
  <2> QED
    BY <2>2, <2>4, <2>5, <2>6, <2>7 DEF TypeOK, Known, task, server
<1>9. CASE HandleDeleted(d)
  <2>1. down' \in [Device -> Seq(ServerMessage)]
    BY <1>9, HandledType DEF HandleDeleted
  <2>2. held' \in [Device -> SUBSET Secret] /\ trusted' \in [Device -> SUBSET Secret]
    BY <1>9 DEF HandleDeleted, TypeOK
  <2>3. UNCHANGED <<peers, secretFor, sessions, task, up, server, budget>>
    BY <1>9 DEF HandleDeleted
  <2>4. NoSessionIsLeaked => NoSessionIsLeaked'
    BY <2>3 DEF NoSessionIsLeaked
  <2> QED
    BY <2>1, <2>2, <2>3, <2>4 DEF TypeOK, Known, task, server
<1>10. CASE HandleRegenerated(d)
  <2> DEFINE Rotated(secrets) ==
        IF frame.old \in secrets THEN (secrets \ {frame.old}) \union {frame.new} ELSE secrets
             asked == IF frame.old \in held[d] THEN <<RoomSecrets(held'[d])>> ELSE <<>>
  <2>1. Arrives(d, "Regenerated") /\ Handled(d)
    BY <1>10 DEF HandleRegenerated
  <2>2. down' \in [Device -> Seq(ServerMessage)] /\ frame.old \in Secret /\ frame.new \in Secret
    BY <2>1, HandledType, CarriedDown
  <2>3. held' = [held EXCEPT ![d] = Rotated(held[d])]
    BY <1>10 DEF HandleRegenerated
  <2>4. trusted' = [trusted EXCEPT ![d] = Rotated(trusted[d])]
    BY <1>10 DEF HandleRegenerated
  <2>5. held' \in [Device -> SUBSET Secret]
    BY <2>2, <2>3 DEF TypeOK
  <2>6. trusted' \in [Device -> SUBSET Secret]
    BY <2>2, <2>4 DEF TypeOK
  <2>7. asked \in Seq(ClientMessage)
    <3>1. RoomSecrets(held'[d]) \in ClientMessage
      BY <2>5, ClientMessages
    <3> QED
      BY <3>1, Sequences, Zenon
  <2>8. up' \in [Device -> Seq(ClientMessage)]
    BY <1>10, <2>7, SendType DEF HandleRegenerated
  <2>9. UNCHANGED <<peers, secretFor, sessions, task, server, budget>>
    BY <1>10 DEF HandleRegenerated
  <2>10. NoSessionIsLeaked => NoSessionIsLeaked'
    BY <2>9 DEF NoSessionIsLeaked
  <2> QED
    BY <2>2, <2>5, <2>6, <2>8, <2>9, <2>10 DEF TypeOK, Known, task, server
<1> QED
  BY <1>1, <1>2, <1>4, <1>5, <1>6, <1>7, <1>8, <1>9, <1>10 DEF HandleSignaling

LEMMA RtcTypes ==
  ASSUME TypeOK, NEW d \in Device, HandleRtc(d)
  PROVE  TypeOK' /\ (NoSessionIsLeaked => NoSessionIsLeaked')
<1>0. SessionsOK /\ PeersOK /\ CurrentOK /\ home[d] \in Ip
  BY TypeParts
<1>1. PICK e \in Others(d) : \E n \in DOMAIN sessions[d][e] :
        HandleLocalDescription(d, e, n) \/ HandleOpen(d, e, n) \/ HandleClosed(d, e, n)
  BY DEF HandleRtc
<1>2. PICK n \in DOMAIN sessions[d][e] :
        HandleLocalDescription(d, e, n) \/ HandleOpen(d, e, n) \/ HandleClosed(d, e, n)
  BY <1>1
<1>3. /\ e \in Device /\ sessions[d][e] \in Seq(Session) /\ n \in Nat \ {0}
      /\ sessions[d][e][n] \in Session
  BY <1>2 DEF Others, TypeOK
<1>4. ASSUME NEW report, Reports(d, e, n, report)
      PROVE  /\ SessionsOK' /\ Kept
             /\ UNCHANGED <<secretFor, held, trusted, task, down, server, budget>>
  <2> DEFINE old == sessions[d][e][n]
             reports == Tail(old.reports)
             v == [old EXCEPT !.reports = reports]
  <2>1. old.reports \in Seq(Report) /\ old.reports # <<>>
    BY <1>3, <1>4 DEF Reports, Session
  <2>2. reports \in Seq(Report)
    BY <2>1, HeadAndTail
  <2>3. sessions' = [sessions EXCEPT ![d][e][n] = v]
    BY <1>4 DEF Reports
  <2> HIDE DEF reports
  <2>4. v \in Session /\ v.state = old.state
    BY <1>3, <2>2 DEF Session
  <2> HIDE DEF v
  <2>5. SessionsOK' /\ Kept
    BY <1>0, <1>3, <2>3, <2>4, SessionUpdated
  <2> QED
    BY <1>4, <2>5 DEF Reports
<1>5. ASSUME NEW report, Reports(d, e, n, report), NEW connected \in BOOLEAN,
             Connects(d, e, connected)
      PROVE  TypeOK' /\ (NoSessionIsLeaked => NoSessionIsLeaked')
  <2>1. /\ SessionsOK' /\ Kept
        /\ UNCHANGED <<secretFor, held, trusted, task, down, server, budget>>
    BY <1>4, <1>5
  <2>2. PeersOK' /\ SamePeers
    <3>1. CASE peers[d][e] = None
      BY <1>0, <1>5, <3>1 DEF Connects, PeersOK, SamePeers
    <3>2. CASE peers[d][e] # None
      <4> DEFINE p == [peers[d][e] EXCEPT !.connected = connected]
      <4>1. peers[d][e] \in Peer
        BY <1>0, <1>3, <3>2 DEF PeersOK
      <4>2. p \in Peer /\ p.session = peers[d][e].session
        BY <4>1 DEF Peer
      <4>3. peers' = [peers EXCEPT ![d][e] = p]
        BY <1>5, <3>2 DEF Connects
      <4> HIDE DEF p
      <4>4. p # None
        BY <4>2, NoneAssumption
      <4>5. [peers[d] EXCEPT ![e] = p] \in [Device -> Peer \union {None}]
        BY <1>0, <1>3, <4>2 DEF PeersOK
      <4>6. PeersOK'
        BY <1>0, <4>3, <4>5 DEF PeersOK
      <4>7. \A x, y \in Device : peers'[x][y] = IF x = d /\ y = e THEN p ELSE peers[x][y]
        BY <1>0, <4>3 DEF PeersOK
      <4>8. SamePeers
        BY <3>2, <4>2, <4>4, <4>7 DEF SamePeers
      <4> QED
        BY <4>6, <4>8
    <3> QED
      BY <3>1, <3>2
  <2>3. CurrentOK' /\ (NoSessionIsLeaked => NoSessionIsLeaked')
    BY <2>1, <2>2, KeptSafe
  <2>4. UNCHANGED up
    BY <1>5 DEF Connects
  <2> QED
    BY <2>1, <2>2, <2>3, <2>4 DEF TypeOK, SessionsOK, PeersOK, CurrentOK, task, server
<1>6. CASE HandleLocalDescription(d, e, n)
  <2> DEFINE answers == IF sessions[d][e][n].caller THEN 0 ELSE sessions[d][e][n].remote
             room == SignallingRoom(d, e)
             m == [type |-> "Signal", peer |-> e, session |-> n, room |-> room, answers |-> answers]
  <2>1. /\ SessionsOK' /\ Kept
        /\ UNCHANGED <<secretFor, held, trusted, task, down, server, budget>>
    BY <1>4, <1>6 DEF HandleLocalDescription
  <2>2. UNCHANGED peers /\ SamePeers
    BY <1>6 DEF HandleLocalDescription, SamePeers
  <2>3. answers \in Nat
    BY <1>3 DEF Session
  <2>4. room \in Room
    BY <1>0, <1>3, ConstantTypes DEF SignallingRoom, TypeOK
  <2>5. Send(d, <<m>>)
    BY <1>6 DEF HandleLocalDescription
  <2> HIDE DEF answers, room
  <2>6. m \in ClientMessage
    BY <1>3, <2>3, <2>4, ClientMessages
  <2> HIDE DEF m
  <2>7. <<m>> \in Seq(ClientMessage)
    BY <2>6, Sequences, Zenon
  <2>8. up' \in [Device -> Seq(ClientMessage)]
    BY <2>5, <2>7, SendType
  <2>9. CurrentOK' /\ (NoSessionIsLeaked => NoSessionIsLeaked')
    BY <2>1, <2>2, KeptSafe
  <2> QED
    BY <2>1, <2>2, <2>8, <2>9 DEF TypeOK, SessionsOK, CurrentOK, task, server
<1>7. CASE HandleOpen(d, e, n)
  BY <1>5, <1>7 DEF HandleOpen
<1>8. CASE HandleClosed(d, e, n)
  BY <1>5, <1>8 DEF HandleClosed
<1> QED
  BY <1>2, <1>6, <1>7, <1>8

LEMMA CommandTypes ==
  ASSUME TypeOK, NEW d \in Device, Command(d)
  PROVE  TypeOK' /\ (NoSessionIsLeaked => NoSessionIsLeaked')
<1>0. SessionsOK /\ PeersOK /\ CurrentOK
  BY TypeParts
<1>1. PICK secret \in Secret :
        Unpair(d, secret) \/ \E enabled \in BOOLEAN : SetAutoAccept(d, secret, enabled)
  BY DEF Command
<1>2. CASE Unpair(d, secret)
  <2> DEFINE deleted == [type |-> "RoomSecretsDeleted", secret |-> secret]
             again == RoomSecrets(held'[d])
  <2>1. held' \in [Device -> SUBSET Secret] /\ trusted' \in [Device -> SUBSET Secret]
    BY <1>2 DEF Unpair, TypeOK
  <2>2. deleted \in ClientMessage /\ again \in ClientMessage
    BY <2>1, ClientMessages
  <2>3. Send(d, <<deleted, again>>)
    BY <1>2 DEF Unpair
  <2> HIDE DEF deleted, again
  <2>4. <<deleted, again>> \in Seq(ClientMessage)
    BY <2>2, Sequences, Zenon
  <2>5. up' \in [Device -> Seq(ClientMessage)]
    BY <2>3, <2>4, SendType
  <2>6. budget' \in [Kind -> Nat]
    BY <1>2, SpendType DEF Unpair, TypeOK
  <2>7. UNCHANGED <<peers, secretFor, sessions, task, down, server>>
    BY <1>2 DEF Unpair
  <2>8. NoSessionIsLeaked => NoSessionIsLeaked'
    BY <2>7 DEF NoSessionIsLeaked
  <2> QED
    BY <2>1, <2>5, <2>6, <2>7, <2>8 DEF TypeOK, Known, task, server
<1>3. ASSUME NEW enabled \in BOOLEAN, SetAutoAccept(d, secret, enabled)
      PROVE  TypeOK' /\ (NoSessionIsLeaked => NoSessionIsLeaked')
  <2> DEFINE Set(e) == [peers[d][e] EXCEPT !.autoAccept = enabled]
             list == [e \in Device |-> IF e \in Known(d) /\ peers[d][e].secret = secret
                                      THEN Set(e) ELSE peers[d][e]]
  <2>1. \A e \in Known(d) : Set(e) \in Peer /\ Set(e).session = peers[d][e].session
    BY <1>0 DEF PeersOK, Known, Peer
  <2>2. peers' = [peers EXCEPT ![d] = list]
    BY <1>3 DEF SetAutoAccept
  <2> HIDE DEF Set
  <2>3. list \in [Device -> Peer \union {None}]
    BY <1>0, <2>1 DEF PeersOK
  <2>4. \A e \in Device : /\ list[e] = None <=> peers[d][e] = None
                          /\ peers[d][e] # None => list[e].session = peers[d][e].session
    BY <2>1, NoneAssumption DEF Known
  <2> HIDE DEF list
  <2>5. PeersOK'
    BY <1>0, <2>2, <2>3 DEF PeersOK
  <2>6. SamePeers
    BY <1>0, <2>2, <2>4 DEF PeersOK, SamePeers
  <2>7. UNCHANGED <<secretFor, held, sessions, task, up, down, server>>
    BY <1>3 DEF SetAutoAccept
  <2>8. Kept
    BY <2>7 DEF Kept
  <2>9. CurrentOK' /\ (NoSessionIsLeaked => NoSessionIsLeaked')
    BY <2>6, <2>8, KeptSafe
  <2>10. trusted' \in [Device -> SUBSET Secret]
    BY <1>3 DEF SetAutoAccept, TypeOK
  <2>11. budget' \in [Kind -> Nat]
    BY <1>3, SpendType DEF SetAutoAccept, TypeOK
  <2> QED
    BY <2>5, <2>7, <2>9, <2>10, <2>11 DEF TypeOK, PeersOK, CurrentOK, task, server
<1> QED
  BY <1>1, <1>2, <1>3

LEMMA LinkTypes ==
  ASSUME TypeOK, NEW d \in Device, Connect(d) \/ Retry(d) \/ Drop(d)
  PROVE  TypeOK' /\ (NoSessionIsLeaked => NoSessionIsLeaked')
<1>1. UNCHANGED <<engine, sessions, home, fresh>>
  BY DEF Connect, Retry, Drop, task, server
<1>2. NoSessionIsLeaked => NoSessionIsLeaked'
  BY <1>1 DEF NoSessionIsLeaked, engine
<1>3. /\ link' \in [Device -> {"waiting", "connecting", "connected"}] /\ hurried' \subseteq Device
      /\ members' \in [Room -> SUBSET Device]
      /\ budget' \in [Kind -> Nat]
  <2>1. link' \in [Device -> {"waiting", "connecting", "connected"}]
    BY DEF Connect, Retry, Drop, TypeOK
  <2>4. hurried' \subseteq Device
    <3>1. hurried' \in {hurried, hurried \union {d}}
      BY DEF Connect, Retry, Drop
    <3> QED
      BY <3>1 DEF TypeOK
  <2>2. members' \in [Room -> SUBSET Device]
    BY DEF Connect, Retry, Drop, TypeOK, task, server
  <2>3. budget' = budget \/ \E kinds : Spend(kinds)
    BY Zenon DEF Connect, Retry, Drop
  <2> QED
    BY <2>1, <2>2, <2>3, <2>4, SpendType DEF TypeOK
<1>4. up[d] \in Seq(ClientMessage) /\ down[d] \in Seq(ServerMessage)
  BY DEF TypeOK
<1>5. /\ up' \in [Device -> Seq(ClientMessage)]
      /\ down' \in [Device -> Seq(ServerMessage)]
  <2>1. CASE Connect(d)
    <3>1. Append(down[d], [type |-> "Identity"]) \in Seq(ServerMessage)
      BY <1>4, Concats, ServerMessages
    <3> QED
      BY <2>1, <3>1 DEF Connect, TypeOK
  <2>2. CASE Retry(d)
    <3>1. up[d] # <<>> => Tail(up[d]) \in Seq(ClientMessage)
      BY <1>4, HeadAndTail
    <3> QED
      <4>1. \/ UNCHANGED up
            \/ up[d] # <<>> /\ up' = [up EXCEPT ![d] = Tail(up[d])]
        BY <2>2 DEF Retry
      <4>2. UNCHANGED down
        BY <2>2 DEF Retry
      <4> QED
        <5>1. up' \in [Device -> Seq(ClientMessage)]
          BY <3>1, <4>1 DEF TypeOK
        <5> QED
          BY <4>2, <5>1 DEF TypeOK
  <2>3. CASE Drop(d)
    <3>1. PICK n \in 0..Len(up[d]) : up' = [up EXCEPT ![d] = SubSeq(up[d], n + 1, Len(up[d]))]
      BY <2>3 DEF Drop
    <3>2. SubSeq(up[d], n + 1, Len(up[d])) \in Seq(ClientMessage)
      BY <1>4, Truncated
    <3>3. up' \in [Device -> Seq(ClientMessage)]
      BY <3>1, <3>2 DEF TypeOK
    <3>4. PICK k \in 0..Len(down[d]) : down' = [e \in Device |->
            IF e = d THEN Append(SubSeq(down[d], 1, k), [type |-> "WaitingToRetry"])
            ELSE IF \E room \in Room : {d, e} \subseteq members[room]
            THEN Append(down[e], [type |-> "PeerLeft", peer |-> d]) ELSE down[e]]
      BY <2>3 DEF Drop
    <3>5. SubSeq(down[d], 1, k) \in Seq(ServerMessage)
      BY <1>4, Truncated
    <3>6. Append(SubSeq(down[d], 1, k), [type |-> "WaitingToRetry"]) \in Seq(ServerMessage)
      BY <3>5, Concats, ServerMessages
    <3>7. \A e \in Device : /\ down[e] \in Seq(ServerMessage)
                            /\ Append(down[e], [type |-> "PeerLeft", peer |-> d]) \in Seq(ServerMessage)
      BY Concats, ServerMessages DEF TypeOK
    <3> HIDE DEF Room
    <3> QED
      BY <3>3, <3>4, <3>6, <3>7
  <2> QED
    BY <2>1, <2>2, <2>3
<1> QED
  BY <1>1, <1>2, <1>3, <1>5 DEF TypeOK, Known, engine

LEMMA EntersType ==
  ASSUME TypeOK, NEW d \in Device, NEW room \in Room, Enters(d, room)
  PROVE  members' \in [Room -> SUBSET Device] /\ down' \in [Device -> Seq(ServerMessage)]
<1>1. members' \in [Room -> SUBSET Device]
  BY DEF Enters, TypeOK
<1>2. members[room] \in SUBSET Device
  BY DEF TypeOK
<1> DEFINE present == [type |-> "Peers", room |-> room, peers |-> members[room]]
           joined == [type |-> "PeerJoined", room |-> room, peer |-> d]
<1>3. present \in ServerMessage /\ joined \in ServerMessage
  BY <1>2, ServerMessages
<1>4. down' = [e \in Device |->
       IF e = d /\ members[room] # {} THEN Append(down[e], present)
       ELSE IF e \in members[room] \ {d} THEN Append(down[e], joined)
       ELSE down[e]]
  BY DEF Enters
<1> HIDE DEF present, joined
<1>5. \A e \in Device : /\ down[e] \in Seq(ServerMessage)
                        /\ Append(down[e], present) \in Seq(ServerMessage)
                        /\ Append(down[e], joined) \in Seq(ServerMessage)
  BY <1>3, Concats DEF TypeOK
<1> QED
  BY <1>1, <1>4, <1>5

LEMMA ServerTypes ==
  ASSUME TypeOK, NEW d \in Device, Server(d)
  PROVE  TypeOK' /\ (NoSessionIsLeaked => NoSessionIsLeaked')
<1> DEFINE message == Head(up[d])
<1>1. UNCHANGED <<engine, sessions, task, home, fresh, budget>>
  BY DEF Server, ServerJoinsIpRoom, ServerRegisters, ServerDeletes, ServerRelays, Reads
<1>2. NoSessionIsLeaked => NoSessionIsLeaked'
  BY <1>1 DEF NoSessionIsLeaked, engine
<1>3. /\ up' \in [Device -> Seq(ClientMessage)]
      /\ down' \in [Device -> Seq(ServerMessage)]
      /\ members' \in [Room -> SUBSET Device]
  <2>1. CASE ServerJoinsIpRoom(d)
    <3>1. Reads(d, "JoinIpRoom") /\ Read(d)
      BY <2>1 DEF ServerJoinsIpRoom
    <3>2. up' \in [Device -> Seq(ClientMessage)]
      BY <3>1, ReadType
    <3>3. home[d] \in Room
      BY TypeParts, ConstantTypes
    <3>4. Enters(d, home[d]) \/ UNCHANGED <<members, down>>
      BY <2>1 DEF ServerJoinsIpRoom
    <3>5. CASE Enters(d, home[d])
      BY <3>2, <3>3, <3>5, EntersType
    <3>6. CASE UNCHANGED <<members, down>>
      BY <3>2, <3>6 DEF TypeOK
    <3> QED
      BY <3>4, <3>5, <3>6
  <2>2. CASE ServerRegisters(d)
    <3>1. Reads(d, "RoomSecrets")
      BY <2>2 DEF ServerRegisters
    <3>2. message.secrets \subseteq Secret
      BY <3>1, ReadType, CarriedUp
    <3>3. CASE Read(d) /\ UNCHANGED <<members, down>>
      BY <3>1, <3>3, ReadType DEF TypeOK
    <3>4. ASSUME NEW secret \in message.secrets, Enters(d, secret), UNCHANGED up
          PROVE  /\ up' \in [Device -> Seq(ClientMessage)]
                 /\ down' \in [Device -> Seq(ServerMessage)]
                 /\ members' \in [Room -> SUBSET Device]
      <4>1. secret \in Room
        BY <3>2, ConstantTypes
      <4>2. down' \in [Device -> Seq(ServerMessage)] /\ members' \in [Room -> SUBSET Device]
        BY <3>4, <4>1, EntersType
      <4> QED
        BY <3>4, <4>2 DEF TypeOK
    <3> QED
      BY <2>2, <3>3, <3>4 DEF ServerRegisters
  <2>3. CASE ServerDeletes(d)
    <3>1. Reads(d, "RoomSecretsDeleted") /\ Read(d)
      BY <2>3 DEF ServerDeletes
    <3>2. up' \in [Device -> Seq(ClientMessage)] /\ message.secret \in Secret
      BY <3>1, ReadType, CarriedUp
    <3> DEFINE told == [type |-> "Deleted", secret |-> message.secret]
               Left(e, f) == IF f \in members[message.secret] \ {e}
                             THEN <<[type |-> "PeerLeft", peer |-> f]>> ELSE <<>>
    <3>3. /\ members' = [members EXCEPT ![message.secret] = {}]
          /\ \E leaver \in members[message.secret] \union {None} :
               down' = [e \in Device |->
                 IF e \notin members[message.secret] THEN down[e]
                 ELSE down[e] \o Left(e, leaver) \o <<told>>]
      BY <2>3 DEF ServerDeletes
    <3>4. members' \in [Room -> SUBSET Device]
      BY <3>3 DEF TypeOK
    <3>5. told \in ServerMessage
      BY <3>2, ServerMessages
    <3>6. \A e, f : Left(e, f) \in Seq(ServerMessage)
      <4>1. members[message.secret] \subseteq Device
        BY <3>2, ConstantTypes DEF TypeOK
      <4>2. \A f \in Device : <<[type |-> "PeerLeft", peer |-> f]>> \in Seq(ServerMessage)
        BY ServerMessages, Sequences, Zenon
      <4>3. <<>> \in Seq(ServerMessage)
        OBVIOUS
      <4> QED
        BY <4>1, <4>2, <4>3
    <3> HIDE DEF told, Left
    <3>7. \A e \in Device : \A f :
            /\ down[e] \in Seq(ServerMessage)
            /\ down[e] \o Left(e, f) \o <<told>> \in Seq(ServerMessage)
      <4>1. <<told>> \in Seq(ServerMessage) /\ \A e \in Device : down[e] \in Seq(ServerMessage)
        BY <3>5, Sequences DEF TypeOK
      <4> QED
        BY <3>5, <3>6, <4>1, Concats
    <3>8. down' \in [Device -> Seq(ServerMessage)]
      BY <3>3, <3>7
    <3> QED
      BY <3>2, <3>4, <3>8
  <2>4. CASE ServerRelays(d)
    <3>1. Reads(d, "Signal") /\ Read(d)
      BY <2>4 DEF ServerRelays
    <3>2. /\ up' \in [Device -> Seq(ClientMessage)] /\ message.peer \in Device
          /\ message.session \in Nat \ {0} /\ message.answers \in Nat
      BY <3>1, ReadType, CarriedUp
    <3> DEFINE relayed == [type |-> "Signal", peer |-> d, session |-> message.session,
                           answers |-> message.answers]
    <3>3. relayed \in ServerMessage
      BY <3>2, ServerMessages
    <3>4. /\ UNCHANGED members
          /\ \/ UNCHANGED down
             \/ down' = [down EXCEPT ![message.peer] = Append(down[message.peer], relayed)]
      BY <2>4 DEF ServerRelays
    <3> HIDE DEF relayed
    <3>5. Append(down[message.peer], relayed) \in Seq(ServerMessage)
      BY <3>2, <3>3, Concats DEF TypeOK
    <3>6. down \in [Device -> Seq(ServerMessage)] /\ members \in [Room -> SUBSET Device]
      BY DEF TypeOK
    <3>7. CASE UNCHANGED down
      BY <3>2, <3>4, <3>6, <3>7
    <3>8. CASE down' = [down EXCEPT ![message.peer] = Append(down[message.peer], relayed)]
      BY <3>2, <3>4, <3>5, <3>6, <3>8
    <3> QED
      BY <3>4, <3>7, <3>8
  <2>5. ServerJoinsIpRoom(d) \/ ServerRegisters(d) \/ ServerDeletes(d) \/ ServerRelays(d)
    BY DEF Server
  <2> QED
    BY <2>1, <2>2, <2>3, <2>4, <2>5, Zenon
<1>4. \A e \in Device : \A f \in Known(e)' : peers'[e][f].session \in DOMAIN sessions'[e][f]
  BY <1>1 DEF TypeOK, Known, engine
<1>5. TypeOK'
  BY <1>1, <1>3, <1>4 DEF TypeOK, engine, task
<1> QED
  BY <1>2, <1>5

LEMMA ServerPairsTypes ==
  ASSUME TypeOK, NEW d \in Device, NEW e \in Device, NEW secret \in Secret,
         ServerPairs(d, e, secret)
  PROVE  TypeOK' /\ (NoSessionIsLeaked => NoSessionIsLeaked')
<1>1. UNCHANGED <<engine, sessions, task, up, home, members>> /\ fresh' = fresh \ {secret}
  BY DEF ServerPairs
<1>2. NoSessionIsLeaked => NoSessionIsLeaked'
  BY <1>1 DEF NoSessionIsLeaked, engine
<1>3. budget' \in [Kind -> Nat]
  BY SpendType DEF ServerPairs, TypeOK
<1> DEFINE first == [type |-> "Paired", secret |-> secret, peer |-> e]
           second == [type |-> "Paired", secret |-> secret, peer |-> d]
<1>4. first \in ServerMessage /\ second \in ServerMessage
  BY ServerMessages
<1>5. down' = [down EXCEPT ![d] = Append(@, first), ![e] = Append(@, second)] /\ d # e
  BY DEF ServerPairs
<1> HIDE DEF first, second
<1>6. Append(down[d], first) \in Seq(ServerMessage) /\ Append(down[e], second) \in Seq(ServerMessage)
  BY <1>4, Concats DEF TypeOK
<1>7. down' \in [Device -> Seq(ServerMessage)]
  BY <1>5, <1>6 DEF TypeOK
<1> QED
  BY <1>1, <1>2, <1>3, <1>7 DEF TypeOK, Known, engine, task

LEMMA RotationTypes ==
  ASSUME TypeOK, NEW old \in Secret, NEW new \in Secret, ServerRotates(old, new)
  PROVE  TypeOK' /\ (NoSessionIsLeaked => NoSessionIsLeaked')
<1>1. UNCHANGED <<engine, sessions, task, up, home>> /\ fresh' = fresh \ {new}
  BY DEF ServerRotates
<1>2. NoSessionIsLeaked => NoSessionIsLeaked'
  BY <1>1 DEF NoSessionIsLeaked, engine
<1>3. budget' \in [Kind -> Nat]
  BY SpendType DEF ServerRotates, TypeOK
<1>4. members' \in [Room -> SUBSET Device]
  BY DEF ServerRotates, TypeOK
<1> DEFINE frame == [type |-> "Regenerated", old |-> old, new |-> new]
<1>5. frame \in ServerMessage
  BY ServerMessages
<1>6. down' = [e \in Device |-> IF e \in members[old] THEN Append(down[e], frame) ELSE down[e]]
  BY DEF ServerRotates
<1> HIDE DEF frame
<1>7. \A e \in Device : /\ down[e] \in Seq(ServerMessage)
                        /\ Append(down[e], frame) \in Seq(ServerMessage)
  BY <1>5, Concats DEF TypeOK
<1>8. down' \in [Device -> Seq(ServerMessage)]
  BY <1>6, <1>7
<1> QED
  BY <1>1, <1>2, <1>3, <1>4, <1>8 DEF TypeOK, Known, engine, task

LEMMA ChannelTypes ==
  ASSUME TypeOK, NEW d \in Device, NEW e \in Others(d), NEW n \in DOMAIN sessions[d][e],
         ChannelOpens(d, e, n) \/ ChannelCloses(d, e, n) \/ IceFails(d, e, n)
  PROVE  TypeOK' /\ (NoSessionIsLeaked => NoSessionIsLeaked')
<1>0. SessionsOK /\ e \in Device /\ e # d
  BY TypeParts DEF Others
<1>1. sessions[d][e] \in Seq(Session) /\ sessions[d][e][n] \in Session
  BY <1>0 DEF SessionsOK
<1>2. UNCHANGED <<engine, task, up, down, server>> /\ budget' \in [Kind -> Nat]
  <2>1. UNCHANGED <<engine, task, up, down, server>>
    BY DEF ChannelOpens, ChannelCloses, IceFails
  <2>2. UNCHANGED budget \/ Spend({"iceFailure"})
    BY DEF ChannelOpens, ChannelCloses, IceFails
  <2> QED
    BY <2>1, <2>2, SpendType DEF TypeOK
<1>3. ASSUME SessionsOK', Kept
      PROVE  TypeOK' /\ (NoSessionIsLeaked => NoSessionIsLeaked')
  <2>1. SamePeers
    BY <1>2 DEF SamePeers, engine
  <2>2. CurrentOK' /\ (NoSessionIsLeaked => NoSessionIsLeaked')
    BY <1>3, <2>1, KeptSafe
  <2> QED
    BY <1>2, <1>3, <2>2 DEF TypeOK, SessionsOK, CurrentOK, engine, task, server
<1>4. CASE ChannelOpens(d, e, n)
  <2> DEFINE Opened(session) == [session EXCEPT !.state = "open", !.reports = Append(@, "Open")]
             k == sessions[d][e][n].remote
             near == [sessions[d][e] EXCEPT ![n] = Opened(sessions[d][e][n])]
             far == [sessions[e][d] EXCEPT ![k] = Opened(sessions[e][d][k])]
  <2>1. \A session \in Session : Opened(session) \in Session
    <3> SUFFICES ASSUME NEW session \in Session
                 PROVE  Opened(session) \in Session
      OBVIOUS
    <3> DEFINE reports == Append(session.reports, "Open")
    <3>1. reports \in Seq(Report)
      BY DEF Session, Report
    <3>2. Opened(session) = [session EXCEPT !.state = "open", !.reports = reports]
      OBVIOUS
    <3> HIDE DEF reports
    <3> QED
      BY <3>1, <3>2 DEF Session
  <2>2. sessions[d][e][n].state = "new" /\ sessions[e][d][k].state = "new"
    BY <1>4 DEF ChannelOpens, CanOpen, Remote
  <2>3. sessions' = [sessions EXCEPT ![d][e][n] = Opened(@), ![e][d][k] = Opened(@)]
    BY <1>4 DEF ChannelOpens
  <2> HIDE DEF Opened, k
  <2>4. sessions[e][d] \in Seq(Session)
    BY <1>0 DEF SessionsOK
  <2>5. /\ near \in Seq(Session) /\ DOMAIN near = DOMAIN sessions[d][e]
        /\ \A i \in DOMAIN sessions[d][e] : i # n => near[i] = sessions[d][e][i]
    BY <1>1, <2>1, Updated
  <2>6. /\ far \in Seq(Session) /\ DOMAIN far = DOMAIN sessions[e][d]
        /\ \A i \in DOMAIN sessions[e][d] : i # k => far[i] = sessions[e][d][i]
    <3>1. k \in DOMAIN sessions[e][d] => Opened(sessions[e][d][k]) \in Session
      BY <2>1, <2>4
    <3> DEFINE w == Opened(sessions[e][d][k])
    <3>2. far = [sessions[e][d] EXCEPT ![k] = w]
      OBVIOUS
    <3>3. k \in DOMAIN sessions[e][d] => w \in Session
      BY <3>1
    <3> HIDE DEF w, far
    <3> QED
      BY <2>4, <3>2, <3>3, Updated
  <2>7. sessions' = [sessions EXCEPT ![d] = [sessions[d] EXCEPT ![e] = near],
                                     ![e] = [sessions[e] EXCEPT ![d] = far]]
    BY <1>0, <2>3 DEF SessionsOK
  <2> HIDE DEF near, far
  <2>8. SessionsOK'
    <3>1. /\ [sessions[d] EXCEPT ![e] = near] \in [Device -> Seq(Session)]
          /\ [sessions[e] EXCEPT ![d] = far] \in [Device -> Seq(Session)]
      BY <1>0, <2>5, <2>6 DEF SessionsOK
    <3> QED
      BY <2>7, <3>1, <1>0 DEF SessionsOK
  <2>9. \A x, y \in Device :
          sessions'[x][y] = IF x = d /\ y = e THEN near ELSE IF x = e /\ y = d THEN far
                            ELSE sessions[x][y]
    BY <1>0, <2>7 DEF SessionsOK
  <2>10. Kept
    <3> SUFFICES ASSUME NEW x \in Device, NEW y \in Device
                 PROVE  /\ DOMAIN sessions[x][y] = DOMAIN sessions'[x][y]
                        /\ \A i \in DOMAIN sessions[x][y] :
                             sessions'[x][y][i].state # "closed" => sessions[x][y][i].state # "closed"
      BY DEF Kept
    <3>1. CASE x = d /\ y = e
      BY <2>2, <2>5, <2>9, <3>1
    <3>2. CASE x = e /\ y = d
      BY <1>0, <2>2, <2>6, <2>9, <3>2
    <3>3. CASE ~(x = d /\ y = e) /\ ~(x = e /\ y = d)
      BY <2>9, <3>3
    <3> QED
      BY <3>1, <3>2, <3>3
  <2> QED
    BY <1>3, <2>8, <2>10
<1>5. CASE ChannelCloses(d, e, n)
  <2> DEFINE v == ClosedSession(sessions[d][e][n])
  <2>1. sessions' = [sessions EXCEPT ![d][e][n] = v]
    BY <1>5 DEF ChannelCloses
  <2>2. v \in Session /\ v.state = "closed"
    BY <1>1, ClosedType
  <2> HIDE DEF v
  <2>3. SessionsOK' /\ Kept
    BY <1>0, <2>1, <2>2, SessionUpdated
  <2> QED
    BY <1>3, <2>3
<1>6. CASE IceFails(d, e, n)
  <2> DEFINE old == sessions[d][e][n]
             reports == Append(old.reports, "Failed")
             v == [old EXCEPT !.state = "failed", !.reports = reports]
  <2>1. sessions' = [sessions EXCEPT ![d][e][n] = v] /\ old.state # "closed"
    <3>1. old.state \in {"new", "open"}
      BY <1>6 DEF IceFails
    <3>2. sessions' = [sessions EXCEPT ![d][e][n] = v]
      BY <1>6, ZenonT(30) DEF IceFails
    <3> QED
      BY <3>1, <3>2
  <2>2. reports \in Seq(Report)
    BY <1>1 DEF Session, Report
  <2> HIDE DEF reports
  <2>3. v \in Session
    BY <1>1, <2>2 DEF Session
  <2> HIDE DEF v
  <2>4. SessionsOK' /\ Kept
    BY <1>0, <2>1, <2>3, SessionUpdated
  <2> QED
    BY <1>3, <2>4
<1> QED
  BY <1>4, <1>5, <1>6

LEMMA StepSafe ==
  ASSUME TypeOK, [Next]_vars
  PROVE  TypeOK' /\ (NoSessionIsLeaked => NoSessionIsLeaked')
<1>1. CASE UNCHANGED vars
  BY <1>1 DEF vars, engine, task, server, TypeOK, Known, NoSessionIsLeaked
<1>2. CASE Next
  BY <1>2, SignalingTypes, RtcTypes, CommandTypes, LinkTypes, ServerTypes, ServerPairsTypes,
     RotationTypes, ChannelTypes DEF Next, Channel
<1> QED
  BY <1>1, <1>2

LEMMA InitSafe == Init => TypeOK /\ NoSessionIsLeaked
<1> SUFFICES ASSUME Init
             PROVE  TypeOK /\ NoSessionIsLeaked
  OBVIOUS
<1>1. InitiallyHeld \subseteq Secret /\ Limits \subseteq [Kind -> Nat]
  BY RoomAssumption, BoundAssumption
<1>2. \A d, e \in Device : peers[d][e] = None /\ sessions[d][e] = <<>>
  BY DEF Init
<1>3. NoSessionIsLeaked /\ \A d \in Device : Known(d) = {}
  BY <1>2 DEF NoSessionIsLeaked, Known
<1> QED
  BY <1>1, <1>3 DEF Init, TypeOK

\* The variables keep their types: in particular the session a peer is listed with is one
\* that was built for it, however dials fail and devices come and go.
THEOREM TypeCorrect == Spec => []TypeOK
<1>1. TypeOK /\ [Next]_vars => TypeOK'
  BY StepSafe
<1> QED
  BY <1>1, InitSafe, PTL DEF Spec

\* No session outlives its place in the list: before a peer is dialled again, and whenever it
\* leaves or the connection is lost, the session it had is closed.
THEOREM NothingLeaks == Spec => []NoSessionIsLeaked
<1>1. TypeOK /\ NoSessionIsLeaked /\ [Next]_vars => (TypeOK /\ NoSessionIsLeaked)'
  BY StepSafe
<1> QED
  BY <1>1, InitSafe, PTL DEF Spec

-----------------------------------------------------------------------------
(* Trust. What is trusted is paired, and a peer is accepted without asking *)
(* only for a trusted pairing.                                             *)

TrustedIsHeld == \A d \in Device : trusted[d] \subseteq held[d]

OnlyTrusted ==
  \A d \in Device : \A e \in Known(d) : peers[d][e].autoAccept => peers[d][e].secret \in trusted[d]

\* A pairing is gone after the step.
Removes == \E d \in Device : ~(held[d] \subseteq held'[d])

LEMMA TrustParts == TrustedIsHeld => (OnlyTrusted <=> UntrustedIsPrompted)
BY DEF TrustedIsHeld, OnlyTrusted, UntrustedIsPrompted

LEMMA TrustKept ==
  ASSUME OnlyTrusted, \A d \in Device : trusted[d] \subseteq trusted'[d],
         \A d, e \in Device :
           peers'[d][e] # None =>
             /\ peers[d][e] # None
             /\ peers'[d][e].secret = peers[d][e].secret
             /\ peers'[d][e].autoAccept = peers[d][e].autoAccept
  PROVE  OnlyTrusted'
<1> SUFFICES ASSUME NEW d \in Device, NEW e \in Device, peers'[d][e] # None, peers'[d][e].autoAccept
             PROVE  peers'[d][e].secret \in trusted'[d]
  BY DEF OnlyTrusted, Known
<1>1. peers[d][e] # None /\ peers[d][e].autoAccept /\ peers[d][e].secret = peers'[d][e].secret
  OBVIOUS
<1>2. peers[d][e].secret \in trusted[d]
  BY <1>1 DEF OnlyTrusted, Known
<1> QED
  BY <1>1, <1>2

\* A peer that is dialled is given the trust its pairing has.
LEMMA DialTrust ==
  ASSUME TypeOK, OnlyTrusted, NEW d \in Device, NEW called \in SUBSET Device,
         NEW isCaller \in BOOLEAN, NEW room \in Room, Dial(d, called, isCaller, room),
         UNCHANGED trusted
  PROVE  OnlyTrusted'
<1>1. PICK reached \in SUBSET called :
        peers' = [peers EXCEPT ![d] = [e \in Device |->
          IF e \in reached THEN NewPeer(d, e, room) ELSE peers[d][e]]]
  BY DEF Dial
<1>2. \A x, y \in Device :
        peers'[x][y] = IF x = d /\ y \in reached THEN NewPeer(d, y, room) ELSE peers[x][y]
  BY <1>1 DEF TypeOK
<1> SUFFICES ASSUME NEW x \in Device, NEW y \in Device, peers'[x][y] # None, peers'[x][y].autoAccept
             PROVE  peers'[x][y].secret \in trusted'[x]
  BY DEF OnlyTrusted, Known
<1>3. CASE x = d /\ y \in reached
  <2>1. NewPeer(d, y, room).autoAccept => NewPeer(d, y, room).secret \in trusted[d]
    BY NewTypes
  <2> QED
    BY <1>2, <1>3, <2>1
<1>4. CASE ~(x = d /\ y \in reached)
  BY <1>2, <1>4 DEF OnlyTrusted, Known
<1> QED
  BY <1>3, <1>4

LEMMA SignalingTrust ==
  ASSUME TypeOK, TrustedIsHeld, NEW d \in Device, HandleSignaling(d)
  PROVE  TrustedIsHeld' /\ (OnlyTrusted => OnlyTrusted' \/ Removes)
<1> DEFINE frame == Head(down[d])
<1>1. CASE HandleWaitingToRetry(d)
  <2>1. peers' = [peers EXCEPT ![d] = [e \in Device |-> None]] /\ UNCHANGED <<held, trusted>>
    BY <1>1 DEF HandleWaitingToRetry, DropPeers
  <2>2. \A x, y \in Device : peers'[x][y] # None => peers'[x][y] = peers[x][y]
    BY <2>1 DEF TypeOK
  <2> QED
    BY <2>1, <2>2, TrustKept DEF TrustedIsHeld
<1>2. CASE HandleIdentity(d) \/ HandleSignal(d)
  <2>1. UNCHANGED <<peers, held, trusted>>
    BY <1>2 DEF HandleIdentity, HandleSignal, engine
  <2> QED
    BY <2>1, TrustKept DEF TrustedIsHeld
<1>3. CASE HandlePeers(d)
  <2>1. Arrives(d, "Peers") /\ Handled(d) /\ UNCHANGED <<held, trusted>>
    BY <1>3 DEF HandlePeers
  <2>2. frame.peers \ Known(d) \in SUBSET Device /\ frame.room \in Room
    BY <2>1, HandledType, CarriedDown
  <2>3. Dial(d, frame.peers \ Known(d), TRUE, frame.room)
    BY <1>3 DEF HandlePeers
  <2>4. OnlyTrusted => OnlyTrusted'
    BY <2>1, <2>2, <2>3, DialTrust
  <2> QED
    BY <2>1, <2>4 DEF TrustedIsHeld
<1>4. CASE HandlePeerJoined(d)
  <2>1. Arrives(d, "PeerJoined") /\ Handled(d) /\ UNCHANGED <<held, trusted>>
    BY <1>4 DEF HandlePeerJoined
  <2>2. {frame.peer} \ Known(d) \in SUBSET Device /\ frame.room \in Room
    BY <2>1, HandledType, CarriedDown
  <2>3. Dial(d, {frame.peer} \ Known(d), FALSE, frame.room)
    BY <1>4 DEF HandlePeerJoined
  <2>4. OnlyTrusted => OnlyTrusted'
    BY <2>1, <2>2, <2>3, DialTrust
  <2> QED
    BY <2>1, <2>4 DEF TrustedIsHeld
<1>5. CASE HandlePeerLeft(d)
  <2>1. Arrives(d, "PeerLeft") /\ Handled(d) /\ UNCHANGED <<held, trusted>>
    BY <1>5 DEF HandlePeerLeft
  <2>2. PICK e \in Device : e = frame.peer
    BY <2>1, HandledType, CarriedDown
  <2>3. peers' = [peers EXCEPT ![d][e] = None]
    BY <1>5, <2>2 DEF HandlePeerLeft
  <2>4. \A x, y \in Device : peers'[x][y] # None => peers'[x][y] = peers[x][y]
    BY <2>3 DEF TypeOK
  <2> QED
    BY <2>1, <2>4, TrustKept DEF TrustedIsHeld
<1>6. CASE HandlePaired(d)
  <2>1. UNCHANGED <<peers, trusted>> /\ \A x \in Device : held[x] \subseteq held'[x]
    BY <1>6 DEF HandlePaired, TypeOK
  <2> QED
    BY <2>1, TrustKept DEF TrustedIsHeld
<1>7. CASE HandleDeleted(d)
  <2> DEFINE secret == frame.secret
  <2>1. /\ held' = [held EXCEPT ![d] = held[d] \ {secret}]
        /\ trusted' = [trusted EXCEPT ![d] = trusted[d] \ {secret}]
        /\ UNCHANGED peers
    BY <1>7 DEF HandleDeleted
  <2> HIDE DEF secret
  <2>2. \A x \in Device : /\ held'[x] = IF x = d THEN held[d] \ {secret} ELSE held[x]
                          /\ trusted'[x] = IF x = d THEN trusted[d] \ {secret} ELSE trusted[x]
    BY <2>1 DEF TypeOK
  <2>3. TrustedIsHeld'
    BY <2>2 DEF TrustedIsHeld
  <2>4. ASSUME ~Removes
        PROVE  \A x \in Device : trusted[x] \subseteq trusted'[x]
    <3>1. secret \notin held[d]
      BY <2>2, <2>4 DEF Removes
    <3> QED
      BY <2>2, <3>1 DEF TrustedIsHeld
  <2> QED
    BY <2>1, <2>3, <2>4, TrustKept
<1>8. CASE HandleRegenerated(d)
  <2> DEFINE old == frame.old
             new == frame.new
             Rotated(secrets) == IF old \in secrets THEN (secrets \ {old}) \union {new} ELSE secrets
  <2>1. /\ held' = [held EXCEPT ![d] = Rotated(held[d])]
        /\ trusted' = [trusted EXCEPT ![d] = Rotated(trusted[d])]
        /\ UNCHANGED peers
    BY <1>8 DEF HandleRegenerated
  <2> HIDE DEF old, new
  <2>2. \A x \in Device : /\ held'[x] = IF x = d THEN Rotated(held[d]) ELSE held[x]
                          /\ trusted'[x] = IF x = d THEN Rotated(trusted[d]) ELSE trusted[x]
    BY <2>1 DEF TypeOK
  <2>3. TrustedIsHeld'
    BY <2>2 DEF TrustedIsHeld
  <2>4. ASSUME ~Removes
        PROVE  \A x \in Device : trusted[x] \subseteq trusted'[x]
    <3>1. old \in held[d] => old = new
      BY <2>2, <2>4 DEF Removes
    <3> QED
      BY <2>2, <3>1 DEF TrustedIsHeld
  <2> QED
    BY <2>1, <2>3, <2>4, TrustKept
<1> QED
  BY <1>1, <1>2, <1>3, <1>4, <1>5, <1>6, <1>7, <1>8 DEF HandleSignaling

LEMMA RtcTrust ==
  ASSUME TypeOK, TrustedIsHeld, NEW d \in Device, HandleRtc(d)
  PROVE  TrustedIsHeld' /\ (OnlyTrusted => OnlyTrusted')
<1>1. PICK e \in Others(d) : \E n \in DOMAIN sessions[d][e] :
        HandleLocalDescription(d, e, n) \/ HandleOpen(d, e, n) \/ HandleClosed(d, e, n)
  BY DEF HandleRtc
<1>2. /\ e \in Device /\ UNCHANGED <<held, trusted>>
      /\ UNCHANGED peers \/ \E connected \in BOOLEAN : Connects(d, e, connected)
  BY <1>1 DEF Others, HandleLocalDescription, HandleOpen, HandleClosed, Reports
<1>3. \A x, y \in Device :
        peers'[x][y] # None =>
          /\ peers[x][y] # None
          /\ peers'[x][y].secret = peers[x][y].secret
          /\ peers'[x][y].autoAccept = peers[x][y].autoAccept
  <2>1. CASE UNCHANGED peers
    BY <2>1
  <2>2. ASSUME NEW connected \in BOOLEAN, Connects(d, e, connected), peers[d][e] # None
        PROVE  \A x, y \in Device :
                 peers'[x][y] # None =>
                   /\ peers[x][y] # None
                   /\ peers'[x][y].secret = peers[x][y].secret
                   /\ peers'[x][y].autoAccept = peers[x][y].autoAccept
    <3> DEFINE p == [peers[d][e] EXCEPT !.connected = connected]
    <3>1. peers[d][e] \in Peer
      BY <1>2, <2>2 DEF TypeOK
    <3>2. p.secret = peers[d][e].secret /\ p.autoAccept = peers[d][e].autoAccept
      BY <3>1 DEF Peer
    <3>3. peers' = [peers EXCEPT ![d][e] = p]
      BY <2>2 DEF Connects
    <3> HIDE DEF p
    <3>4. \A x, y \in Device : peers'[x][y] = IF x = d /\ y = e THEN p ELSE peers[x][y]
      BY <1>2, <3>3 DEF TypeOK
    <3> QED
      BY <2>2, <3>2, <3>4
  <2>3. ASSUME NEW connected \in BOOLEAN, Connects(d, e, connected), peers[d][e] = None
        PROVE  UNCHANGED peers
    BY <2>3 DEF Connects
  <2> QED
    BY <1>2, <2>1, <2>2, <2>3
<1> QED
  BY <1>2, <1>3, TrustKept DEF TrustedIsHeld

LEMMA CommandTrust ==
  ASSUME TypeOK, TrustedIsHeld, NEW d \in Device, Command(d)
  PROVE  TrustedIsHeld' /\ (OnlyTrusted => OnlyTrusted' \/ Removes)
<1>1. PICK secret \in Secret :
        Unpair(d, secret) \/ \E enabled \in BOOLEAN : SetAutoAccept(d, secret, enabled)
  BY DEF Command
<1>2. CASE Unpair(d, secret)
  <2>1. /\ secret \in held[d]
        /\ held' = [held EXCEPT ![d] = held[d] \ {secret}]
        /\ trusted' = [trusted EXCEPT ![d] = trusted[d] \ {secret}]
    BY <1>2 DEF Unpair
  <2>2. \A x \in Device : /\ held'[x] = IF x = d THEN held[d] \ {secret} ELSE held[x]
                          /\ trusted'[x] = IF x = d THEN trusted[d] \ {secret} ELSE trusted[x]
    BY <2>1 DEF TypeOK
  <2> QED
    BY <2>1, <2>2 DEF TrustedIsHeld, Removes
<1>3. ASSUME NEW enabled \in BOOLEAN, SetAutoAccept(d, secret, enabled)
      PROVE  TrustedIsHeld' /\ (OnlyTrusted => OnlyTrusted')
  <2> DEFINE Set(e) == [peers[d][e] EXCEPT !.autoAccept = enabled]
             list == [e \in Device |-> IF e \in Known(d) /\ peers[d][e].secret = secret
                                      THEN Set(e) ELSE peers[d][e]]
             chosen == IF enabled THEN trusted[d] \union {secret} ELSE trusted[d] \ {secret}
  <2>1. /\ secret \in held[d] /\ UNCHANGED held
        /\ trusted' = [trusted EXCEPT ![d] = chosen]
        /\ peers' = [peers EXCEPT ![d] = list]
    BY <1>3 DEF SetAutoAccept
  <2>2. \A x \in Device : trusted'[x] = IF x = d THEN chosen ELSE trusted[x]
    BY <2>1 DEF TypeOK
  <2>3. TrustedIsHeld'
    BY <2>1, <2>2 DEF TrustedIsHeld
  <2>4. \A e \in Known(d) : Set(e).autoAccept = enabled /\ Set(e).secret = peers[d][e].secret
    BY DEF TypeOK, Known, Peer
  <2> HIDE DEF Set
  <2>5. ASSUME OnlyTrusted, NEW x \in Device, NEW y \in Device,
               peers'[x][y] # None, peers'[x][y].autoAccept
        PROVE  peers'[x][y].secret \in trusted'[x]
    <3>1. CASE x # d
      <4>1. peers'[x] = peers[x] /\ trusted'[x] = trusted[x]
        BY <2>1, <2>2, <3>1 DEF TypeOK
      <4> QED
        BY <2>5, <4>1 DEF OnlyTrusted, Known
    <3>2. CASE x = d /\ y \in Known(d) /\ peers[d][y].secret = secret
      <4>1. peers'[x][y] = Set(y)
        BY <2>1, <3>2 DEF TypeOK
      <4>2. enabled /\ peers'[x][y].secret = secret
        BY <2>4, <2>5, <3>2, <4>1
      <4> QED
        BY <2>2, <3>2, <4>2
    <3>3. CASE x = d /\ ~(y \in Known(d) /\ peers[d][y].secret = secret)
      <4>1. peers'[x][y] = peers[d][y]
        BY <2>1, <3>3 DEF TypeOK
      <4>2. peers[d][y].secret # secret /\ peers[d][y].secret \in trusted[d]
        BY <2>5, <3>3, <4>1 DEF OnlyTrusted, Known
      <4> QED
        BY <2>2, <3>3, <4>1, <4>2
    <3> QED
      BY <3>1, <3>2, <3>3
  <2> QED
    BY <2>3, <2>5 DEF OnlyTrusted, Known
<1> QED
  BY <1>1, <1>2, <1>3

LEMMA TrustStep ==
  ASSUME TypeOK, TrustedIsHeld, [Next]_vars
  PROVE  TrustedIsHeld' /\ (OnlyTrusted => OnlyTrusted' \/ Removes)
<1>1. ASSUME UNCHANGED engine
      PROVE  TrustedIsHeld' /\ (OnlyTrusted => OnlyTrusted')
  BY <1>1, TrustKept DEF engine, TrustedIsHeld
<1>2. CASE UNCHANGED vars
  BY <1>1, <1>2 DEF vars
<1>3. ASSUME NEW d \in Device,
             Connect(d) \/ Retry(d) \/ Drop(d) \/ Server(d) \/ Channel(d)
      PROVE  UNCHANGED engine
  <2>1. CASE Connect(d) \/ Retry(d) \/ Drop(d)
    BY <2>1 DEF Connect, Retry, Drop
  <2>2. CASE Server(d)
    BY <2>2 DEF Server, ServerJoinsIpRoom, ServerRegisters, ServerDeletes, ServerRelays, Reads
  <2>3. CASE Channel(d)
    BY <2>3 DEF Channel, ChannelOpens, ChannelCloses
  <2> QED
    BY <1>3, <2>1, <2>2, <2>3
<1>4. ASSUME NEW d, NEW e, NEW n, IceFails(d, e, n)
      PROVE  UNCHANGED engine
  BY <1>4 DEF IceFails
<1>5. ASSUME NEW d, NEW e, NEW secret, ServerPairs(d, e, secret) \/ ServerRotates(d, e)
      PROVE  UNCHANGED engine
  BY <1>5 DEF ServerPairs, ServerRotates
<1>6. CASE Next
  BY <1>1, <1>3, <1>4, <1>5, <1>6, SignalingTrust, RtcTrust, CommandTrust DEF Next
<1> QED
  BY <1>2, <1>6

LEMMA InitTrust == Init => TrustedIsHeld /\ OnlyTrusted
BY DEF Init, TrustedIsHeld, OnlyTrusted, Known

\* A peer that was prompted for goes on being prompted for unless its user trusts it: only a
\* step that removes a pairing while its peer is listed can leave an untrusted one accepted.
THEOREM OnlyRemovalEndsPrompting ==
  Spec => [][UntrustedIsPrompted => UntrustedIsPrompted' \/ Removes]_vars
<1>1. TypeOK /\ TrustedIsHeld /\ [Next]_vars => (TypeOK /\ TrustedIsHeld)'
  BY StepSafe, TrustStep
<1>2. TypeOK /\ TrustedIsHeld /\ [Next]_vars =>
        [UntrustedIsPrompted => UntrustedIsPrompted' \/ Removes]_vars
  <2> SUFFICES ASSUME TypeOK, TrustedIsHeld, [Next]_vars, UntrustedIsPrompted
               PROVE  UntrustedIsPrompted' \/ Removes
    OBVIOUS
  <2>1. TrustedIsHeld' /\ (OnlyTrusted' \/ Removes)
    BY TrustStep, TrustParts
  <2>2. TrustedIsHeld' => (OnlyTrusted' <=> UntrustedIsPrompted')
    BY TrustParts, PTL
  <2> QED
    BY <2>1, <2>2
<1> QED
  BY <1>1, <1>2, InitSafe, InitTrust, PTL DEF Spec

-----------------------------------------------------------------------------
(* Where nobody unpairs and the server rotates no secret, no message that  *)
(* would remove a pairing is ever on its way.                              *)

KeepsPairings == \A limits \in Limits : limits["unpair"] = 0 /\ limits["rotation"] = 0

KeepingUp == {message \in ClientMessage : message.type # "RoomSecretsDeleted"}
KeepingDown == {frame \in ServerMessage : frame.type \notin {"Deleted", "Regenerated"}}

NothingToRemove ==
  /\ budget["unpair"] = 0 /\ budget["rotation"] = 0
  /\ up \in [Device -> Seq(KeepingUp)]
  /\ down \in [Device -> Seq(KeepingDown)]

LEMMA KeepingMessages ==
  /\ [type |-> "JoinIpRoom"] \in KeepingUp
  /\ \A secrets \in SUBSET Secret : RoomSecrets(secrets) \in KeepingUp
  /\ \A e \in Device, n \in Nat \ {0}, m \in Nat, room \in Room :
       [type |-> "Signal", peer |-> e, session |-> n, room |-> room, answers |-> m] \in KeepingUp
  /\ [type |-> "WaitingToRetry"] \in KeepingDown
  /\ [type |-> "Identity"] \in KeepingDown
  /\ \A d \in Device : [type |-> "PeerLeft", peer |-> d] \in KeepingDown
  /\ \A room \in Room, present \in SUBSET Device :
       [type |-> "Peers", room |-> room, peers |-> present] \in KeepingDown
  /\ \A room \in Room, d \in Device :
       [type |-> "PeerJoined", room |-> room, peer |-> d] \in KeepingDown
  /\ \A s \in Secret, d \in Device :
       [type |-> "Paired", secret |-> s, peer |-> d] \in KeepingDown
  /\ \A d \in Device, n \in Nat \ {0}, m \in Nat :
       [type |-> "Signal", peer |-> d, session |-> n, answers |-> m] \in KeepingDown
<1>1. \A secrets : RoomSecrets(secrets).type = "RoomSecrets"
  BY DEF RoomSecrets
<1> QED
  BY <1>1, ClientMessages, ServerMessages DEF KeepingUp, KeepingDown

LEMMA SpendKeeps ==
  ASSUME budget \in [Kind -> Nat], budget["unpair"] = 0, budget["rotation"] = 0,
         NEW kinds, Spend(kinds)
  PROVE  /\ budget'["unpair"] = 0 /\ budget'["rotation"] = 0
         /\ "unpair" \notin kinds /\ "rotation" \notin kinds
BY DEF Spend, Kind

LEMMA SendKeeps ==
  ASSUME NothingToRemove, NEW d \in Device, NEW messages \in Seq(KeepingUp), Send(d, messages)
  PROVE  up' \in [Device -> Seq(KeepingUp)]
<1>1. up[d] \o messages \in Seq(KeepingUp)
  BY Concats DEF NothingToRemove
<1> QED
  BY <1>1 DEF NothingToRemove, Send

LEMMA HandledKeeps ==
  ASSUME NothingToRemove, NEW d \in Device, NEW type, Arrives(d, type), Handled(d)
  PROVE  /\ down' \in [Device -> Seq(KeepingDown)]
         /\ type \notin {"Deleted", "Regenerated"}
<1>1. down[d] \in Seq(KeepingDown) /\ down[d] # <<>> /\ Head(down[d]).type = type
  BY DEF NothingToRemove, Arrives
<1>2. Tail(down[d]) \in Seq(KeepingDown) /\ Head(down[d]) \in KeepingDown
  BY <1>1, HeadAndTail
<1>3. type \notin {"Deleted", "Regenerated"}
  BY <1>1, <1>2 DEF KeepingDown
<1> QED
  BY <1>2, <1>3 DEF NothingToRemove, Handled

LEMMA ReadKeeps ==
  ASSUME NothingToRemove, NEW d \in Device, NEW type, Reads(d, type)
  PROVE  /\ type # "RoomSecretsDeleted"
         /\ Read(d) => up' \in [Device -> Seq(KeepingUp)]
<1>1. up[d] \in Seq(KeepingUp) /\ up[d] # <<>> /\ Head(up[d]).type = type
  BY DEF NothingToRemove, Reads
<1>2. Tail(up[d]) \in Seq(KeepingUp) /\ Head(up[d]) \in KeepingUp
  BY <1>1, HeadAndTail
<1>3. type # "RoomSecretsDeleted"
  BY <1>1, <1>2 DEF KeepingUp
<1> QED
  BY <1>2, <1>3 DEF NothingToRemove, Read

LEMMA SignalingKeeps ==
  ASSUME TypeOK, NothingToRemove, NEW d \in Device, HandleSignaling(d)
  PROVE  NothingToRemove' /\ ~Removes
<1>0. ~HandleDeleted(d) /\ ~HandleRegenerated(d)
  BY HandledKeeps DEF HandleDeleted, HandleRegenerated
<1>1. down' \in [Device -> Seq(KeepingDown)]
  BY <1>0, HandledKeeps DEF HandleSignaling, HandleWaitingToRetry, HandleIdentity, HandlePeers,
     HandlePeerJoined, HandlePeerLeft, HandleSignal, HandlePaired
<1>2. ~Removes
  <2>1. CASE HandlePaired(d)
    BY <2>1 DEF HandlePaired, TypeOK, Removes
  <2>2. CASE UNCHANGED held
    BY <2>2 DEF Removes
  <2> QED
    BY <1>0, <2>1, <2>2 DEF HandleSignaling, HandleWaitingToRetry, HandleIdentity, HandlePeers,
       HandlePeerJoined, HandlePeerLeft, HandleSignal, engine
<1>3. budget'["unpair"] = 0 /\ budget'["rotation"] = 0
  <2>1. CASE UNCHANGED budget
    BY <2>1 DEF NothingToRemove
  <2>2. ASSUME NEW kinds, Spend(kinds)
        PROVE  budget'["unpair"] = 0 /\ budget'["rotation"] = 0
    BY <2>2, SpendKeeps DEF NothingToRemove, TypeOK
  <2>3. UNCHANGED budget \/ \E kinds : Spend(kinds)
    <3>1. CASE HandlePeers(d) \/ HandlePeerJoined(d)
      <4>1. \E called, isCaller, room : Dial(d, called, isCaller, room)
        BY <3>1, Zenon DEF HandlePeers, HandlePeerJoined
      <4> QED
        BY <4>1 DEF Dial
    <3> QED
      BY <1>0, <3>1 DEF HandleSignaling, HandleWaitingToRetry, HandleIdentity, HandlePeerLeft,
         HandleSignal, HandlePaired
  <2> QED
    BY <2>1, <2>2, <2>3
<1>4. up' \in [Device -> Seq(KeepingUp)]
  <2>1. CASE HandleIdentity(d)
    <3> DEFINE rest == IF held[d] = {} THEN <<>> ELSE <<RoomSecrets(held[d])>>
               asked == <<[type |-> "JoinIpRoom"]>> \o rest
    <3>1. RoomSecrets(held[d]) \in KeepingUp
      BY KeepingMessages DEF TypeOK
    <3>2. rest \in Seq(KeepingUp)
      BY <3>1, Sequences, Zenon
    <3>3. <<[type |-> "JoinIpRoom"]>> \in Seq(KeepingUp)
      BY KeepingMessages, Sequences, Zenon
    <3>4. asked \in Seq(KeepingUp)
      BY <3>2, <3>3
    <3>5. Send(d, asked)
      BY <2>1 DEF HandleIdentity
    <3> HIDE DEF asked
    <3> QED
      BY <3>4, <3>5, SendKeeps
  <2>2. CASE HandlePaired(d)
    <3> DEFINE secret == Head(down[d]).secret
               again == RoomSecrets({secret})
    <3>1. secret \in Secret
      BY <2>2, HandledType, CarriedDown DEF HandlePaired
    <3>2. Send(d, <<again>>)
      BY <2>2 DEF HandlePaired
    <3> HIDE DEF secret
    <3>3. again \in KeepingUp
      BY <3>1, KeepingMessages
    <3> HIDE DEF again
    <3>4. <<again>> \in Seq(KeepingUp)
      BY <3>3, Sequences, Zenon
    <3> QED
      BY <3>2, <3>4, SendKeeps
  <2>3. CASE UNCHANGED up
    BY <2>3 DEF NothingToRemove
  <2> QED
    BY <1>0, <2>1, <2>2, <2>3 DEF HandleSignaling, HandleWaitingToRetry, HandlePeers,
       HandlePeerJoined, HandlePeerLeft, HandleSignal
<1> QED
  BY <1>1, <1>2, <1>3, <1>4 DEF NothingToRemove

LEMMA RtcKeeps ==
  ASSUME TypeOK, NothingToRemove, NEW d \in Device, HandleRtc(d)
  PROVE  NothingToRemove' /\ ~Removes
<1>1. PICK e \in Others(d) : \E n \in DOMAIN sessions[d][e] :
        HandleLocalDescription(d, e, n) \/ HandleOpen(d, e, n) \/ HandleClosed(d, e, n)
  BY DEF HandleRtc
<1>2. PICK n \in DOMAIN sessions[d][e] :
        HandleLocalDescription(d, e, n) \/ HandleOpen(d, e, n) \/ HandleClosed(d, e, n)
  BY <1>1
<1>3. UNCHANGED <<held, down, budget>>
  BY <1>2 DEF HandleLocalDescription, HandleOpen, HandleClosed, Reports
<1>4. up' \in [Device -> Seq(KeepingUp)]
  <2>1. CASE HandleLocalDescription(d, e, n)
    <3> DEFINE answers == IF sessions[d][e][n].caller THEN 0 ELSE sessions[d][e][n].remote
               room == SignallingRoom(d, e)
               m == [type |-> "Signal", peer |-> e, session |-> n, room |-> room,
                     answers |-> answers]
    <3>1. /\ e \in Device /\ n \in Nat \ {0} /\ sessions[d][e][n] \in Session
      BY <1>2 DEF Others, TypeOK
    <3>2. answers \in Nat
      BY <3>1 DEF Session
    <3>3. home[d] \in Ip
      BY TypeParts
    <3>4. room \in Room
      BY <3>1, <3>3, ConstantTypes DEF SignallingRoom, TypeOK
    <3>5. Send(d, <<m>>)
      BY <2>1 DEF HandleLocalDescription
    <3> HIDE DEF answers, room
    <3>6. m \in KeepingUp
      BY <3>1, <3>2, <3>4, KeepingMessages
    <3> HIDE DEF m
    <3>7. <<m>> \in Seq(KeepingUp)
      BY <3>6, Sequences, Zenon
    <3> QED
      BY <3>5, <3>7, SendKeeps
  <2>2. CASE UNCHANGED up
    BY <2>2 DEF NothingToRemove
  <2> QED
    BY <1>2, <2>1, <2>2 DEF HandleOpen, HandleClosed, Connects
<1> QED
  BY <1>3, <1>4 DEF NothingToRemove, Removes

LEMMA CommandKeeps ==
  ASSUME TypeOK, NothingToRemove, NEW d \in Device, Command(d)
  PROVE  NothingToRemove' /\ ~Removes
<1>1. \A secret : ~Unpair(d, secret)
  BY SpendKeeps DEF Unpair, NothingToRemove, TypeOK
<1>2. PICK secret \in Secret, enabled \in BOOLEAN : SetAutoAccept(d, secret, enabled)
  BY <1>1 DEF Command
<1>3. UNCHANGED <<held, up, down>> /\ Spend({"trust"})
  BY <1>2 DEF SetAutoAccept
<1> QED
  BY <1>3, SpendKeeps DEF NothingToRemove, Removes, TypeOK

LEMMA LinkKeeps ==
  ASSUME TypeOK, NothingToRemove, NEW d \in Device, Connect(d) \/ Retry(d) \/ Drop(d)
  PROVE  NothingToRemove' /\ ~Removes
<1>1. UNCHANGED held /\ (UNCHANGED budget \/ Spend({"drop"}))
  BY DEF Connect, Retry, Drop, engine
<1>2. budget'["unpair"] = 0 /\ budget'["rotation"] = 0
  BY <1>1, SpendKeeps DEF NothingToRemove, TypeOK
<1>3. up[d] \in Seq(KeepingUp) /\ down[d] \in Seq(KeepingDown)
  BY DEF NothingToRemove
<1>4. CASE Connect(d)
  <2>1. Append(down[d], [type |-> "Identity"]) \in Seq(KeepingDown)
    BY <1>3, Concats, KeepingMessages
  <2>2. down' = [down EXCEPT ![d] = Append(down[d], [type |-> "Identity"])] /\ UNCHANGED up
    BY <1>4 DEF Connect
  <2> QED
    BY <1>1, <1>2, <2>1, <2>2 DEF NothingToRemove, Removes
<1>5. CASE Retry(d)
  <2>1. up[d] # <<>> => Tail(up[d]) \in Seq(KeepingUp)
    BY <1>3, HeadAndTail
  <2>2. UNCHANGED up \/ (up[d] # <<>> /\ up' = [up EXCEPT ![d] = Tail(up[d])])
    BY <1>5 DEF Retry
  <2>3. UNCHANGED down
    BY <1>5 DEF Retry
  <2> QED
    BY <1>1, <1>2, <2>1, <2>2, <2>3 DEF NothingToRemove, Removes
<1>6. CASE Drop(d)
  <2>1. PICK n \in 0..Len(up[d]) : up' = [up EXCEPT ![d] = SubSeq(up[d], n + 1, Len(up[d]))]
    BY <1>6 DEF Drop
  <2>2. SubSeq(up[d], n + 1, Len(up[d])) \in Seq(KeepingUp)
    BY <1>3, Truncated
  <2>3. up' \in [Device -> Seq(KeepingUp)]
    BY <2>1, <2>2 DEF NothingToRemove
  <2>4. PICK k \in 0..Len(down[d]) : down' = [e \in Device |->
          IF e = d THEN Append(SubSeq(down[d], 1, k), [type |-> "WaitingToRetry"])
          ELSE IF \E room \in Room : {d, e} \subseteq members[room]
          THEN Append(down[e], [type |-> "PeerLeft", peer |-> d]) ELSE down[e]]
    BY <1>6 DEF Drop
  <2>5. SubSeq(down[d], 1, k) \in Seq(KeepingDown)
    BY <1>3, Truncated
  <2>6. Append(SubSeq(down[d], 1, k), [type |-> "WaitingToRetry"]) \in Seq(KeepingDown)
    BY <2>5, Concats, KeepingMessages
  <2>7. \A e \in Device : /\ down[e] \in Seq(KeepingDown)
                          /\ Append(down[e], [type |-> "PeerLeft", peer |-> d]) \in Seq(KeepingDown)
    BY Concats, KeepingMessages DEF NothingToRemove
  <2> HIDE DEF Room
  <2>8. down' \in [Device -> Seq(KeepingDown)]
    BY <2>4, <2>6, <2>7
  <2> QED
    BY <1>1, <1>2, <2>3, <2>8 DEF NothingToRemove, Removes
<1> QED
  BY <1>4, <1>5, <1>6

LEMMA EntersKeeps ==
  ASSUME TypeOK, NothingToRemove, NEW d \in Device, NEW room \in Room, Enters(d, room)
  PROVE  down' \in [Device -> Seq(KeepingDown)]
<1> DEFINE present == [type |-> "Peers", room |-> room, peers |-> members[room]]
           joined == [type |-> "PeerJoined", room |-> room, peer |-> d]
<1>1. members[room] \in SUBSET Device
  BY DEF TypeOK
<1>2. present \in KeepingDown /\ joined \in KeepingDown
  BY <1>1, KeepingMessages
<1>3. down' = [e \in Device |->
       IF e = d /\ members[room] # {} THEN Append(down[e], present)
       ELSE IF e \in members[room] \ {d} THEN Append(down[e], joined)
       ELSE down[e]]
  BY DEF Enters
<1> HIDE DEF present, joined
<1>4. \A e \in Device : /\ down[e] \in Seq(KeepingDown)
                        /\ Append(down[e], present) \in Seq(KeepingDown)
                        /\ Append(down[e], joined) \in Seq(KeepingDown)
  BY <1>2, Concats DEF NothingToRemove
<1> QED
  BY <1>3, <1>4

LEMMA ServerKeeps ==
  ASSUME TypeOK, NothingToRemove, NEW d \in Device, Server(d)
  PROVE  NothingToRemove' /\ ~Removes
<1>0. ~ServerDeletes(d)
  BY ReadKeeps DEF ServerDeletes
<1>1. UNCHANGED held /\ UNCHANGED budget
  BY DEF Server, ServerJoinsIpRoom, ServerRegisters, ServerDeletes, ServerRelays, Reads, engine
<1>2. up' \in [Device -> Seq(KeepingUp)] /\ down' \in [Device -> Seq(KeepingDown)]
  <2>1. CASE ServerJoinsIpRoom(d)
    <3>1. Reads(d, "JoinIpRoom") /\ Read(d)
      BY <2>1 DEF ServerJoinsIpRoom
    <3>2. up' \in [Device -> Seq(KeepingUp)]
      BY <3>1, ReadKeeps
    <3>3. home[d] \in Room
      BY TypeParts, ConstantTypes
    <3>4. Enters(d, home[d]) \/ UNCHANGED down
      BY <2>1 DEF ServerJoinsIpRoom
    <3>5. down' \in [Device -> Seq(KeepingDown)]
      BY <3>3, <3>4, EntersKeeps DEF NothingToRemove
    <3> QED
      BY <3>2, <3>5
  <2>2. CASE ServerRegisters(d)
    <3>1. Reads(d, "RoomSecrets") /\ Head(up[d]).secrets \subseteq Secret
      BY <2>2, ReadType, CarriedUp DEF ServerRegisters
    <3>2. CASE Read(d) /\ UNCHANGED <<members, down>>
      BY <3>1, <3>2, ReadKeeps DEF NothingToRemove
    <3>3. ASSUME NEW secret \in Head(up[d]).secrets, Enters(d, secret), UNCHANGED up
          PROVE  up' \in [Device -> Seq(KeepingUp)] /\ down' \in [Device -> Seq(KeepingDown)]
      <4>1. secret \in Room
        BY <3>1, ConstantTypes
      <4>2. down' \in [Device -> Seq(KeepingDown)]
        BY <3>3, <4>1, EntersKeeps
      <4> QED
        BY <3>3, <4>2 DEF NothingToRemove
    <3> QED
      BY <2>2, <3>2, <3>3 DEF ServerRegisters
  <2>3. CASE ServerRelays(d)
    <3> DEFINE message == Head(up[d])
               relayed == [type |-> "Signal", peer |-> d, session |-> message.session,
                           answers |-> message.answers]
    <3>1. Reads(d, "Signal") /\ Read(d)
      BY <2>3 DEF ServerRelays
    <3>2. /\ message.peer \in Device /\ message.session \in Nat \ {0} /\ message.answers \in Nat
      BY <3>1, ReadType, CarriedUp
    <3>3. up' \in [Device -> Seq(KeepingUp)]
      BY <3>1, ReadKeeps
    <3>4. relayed \in KeepingDown
      BY <3>2, KeepingMessages
    <3>5. \/ UNCHANGED down
          \/ down' = [down EXCEPT ![message.peer] = Append(down[message.peer], relayed)]
      BY <2>3 DEF ServerRelays
    <3> HIDE DEF relayed
    <3>6. Append(down[message.peer], relayed) \in Seq(KeepingDown)
      BY <3>2, <3>4, Concats DEF NothingToRemove
    <3>7. down' \in [Device -> Seq(KeepingDown)]
      BY <3>5, <3>6 DEF NothingToRemove
    <3> QED
      BY <3>3, <3>7
  <2> QED
    BY <1>0, <2>1, <2>2, <2>3 DEF Server
<1> QED
  BY <1>1, <1>2 DEF NothingToRemove, Removes

LEMMA PairsKeeps ==
  ASSUME TypeOK, NothingToRemove, NEW d \in Device, NEW e \in Device, NEW secret \in Secret,
         ServerPairs(d, e, secret)
  PROVE  NothingToRemove' /\ ~Removes
<1>1. UNCHANGED <<held, up>> /\ Spend({"pairing"}) /\ d # e
  BY DEF ServerPairs, engine
<1>2. budget'["unpair"] = 0 /\ budget'["rotation"] = 0
  BY <1>1, SpendKeeps DEF NothingToRemove, TypeOK
<1> DEFINE first == [type |-> "Paired", secret |-> secret, peer |-> e]
           second == [type |-> "Paired", secret |-> secret, peer |-> d]
<1>3. first \in KeepingDown /\ second \in KeepingDown
  BY KeepingMessages
<1>4. down' = [down EXCEPT ![d] = Append(@, first), ![e] = Append(@, second)]
  BY DEF ServerPairs
<1> HIDE DEF first, second
<1>5. Append(down[d], first) \in Seq(KeepingDown) /\ Append(down[e], second) \in Seq(KeepingDown)
  BY <1>3, Concats DEF NothingToRemove
<1>6. down' \in [Device -> Seq(KeepingDown)]
  BY <1>1, <1>4, <1>5 DEF NothingToRemove
<1> QED
  BY <1>1, <1>2, <1>6 DEF NothingToRemove, Removes

LEMMA ChannelKeeps ==
  ASSUME TypeOK, NothingToRemove, NEW d, NEW e, NEW n,
         ChannelOpens(d, e, n) \/ ChannelCloses(d, e, n) \/ IceFails(d, e, n)
  PROVE  NothingToRemove' /\ ~Removes
<1>1. UNCHANGED <<held, up, down>> /\ (UNCHANGED budget \/ Spend({"iceFailure"}))
  BY DEF ChannelOpens, ChannelCloses, IceFails, engine
<1> QED
  BY <1>1, SpendKeeps DEF NothingToRemove, Removes, TypeOK

LEMMA KeepingStep ==
  ASSUME TypeOK, NothingToRemove, [Next]_vars
  PROVE  NothingToRemove' /\ ~Removes
<1>1. CASE UNCHANGED vars
  BY <1>1 DEF vars, engine, NothingToRemove, Removes
<1>2. \A old, new : ~ServerRotates(old, new)
  BY SpendKeeps DEF ServerRotates, NothingToRemove, TypeOK
<1>3. CASE Next
  BY <1>2, <1>3, SignalingKeeps, RtcKeeps, CommandKeeps, LinkKeeps, ServerKeeps, PairsKeeps,
     ChannelKeeps DEF Next, Channel
<1> QED
  BY <1>1, <1>3

LEMMA InitKeeps == KeepsPairings /\ Init => NothingToRemove
<1> SUFFICES ASSUME KeepsPairings, Init
             PROVE  NothingToRemove
  OBVIOUS
<1>1. budget["unpair"] = 0 /\ budget["rotation"] = 0
  BY DEF Init, KeepsPairings
<1>2. <<>> \in Seq(KeepingUp) /\ <<>> \in Seq(KeepingDown)
  OBVIOUS
<1> QED
  BY <1>1, <1>2 DEF Init, NothingToRemove

\* Where no pairing is removed, a peer is accepted without asking only for a pairing that is
\* kept and trusted, however often the user changes his mind about it and wherever in between
\* the peer is dialled, leaves or comes back.
THEOREM UntrustedPrompted == KeepsPairings /\ Spec => []UntrustedIsPrompted
<1>1. KeepsPairings /\ Init => TypeOK /\ TrustedIsHeld /\ OnlyTrusted /\ NothingToRemove
  BY InitSafe, InitTrust, InitKeeps
<1>2. TypeOK /\ TrustedIsHeld /\ OnlyTrusted /\ NothingToRemove /\ [Next]_vars =>
        (TypeOK /\ TrustedIsHeld /\ OnlyTrusted /\ NothingToRemove)'
  BY StepSafe, TrustStep, KeepingStep
<1>3. TrustedIsHeld /\ OnlyTrusted => UntrustedIsPrompted
  BY TrustParts
<1> QED
  BY <1>1, <1>2, <1>3, PTL DEF Spec

-----------------------------------------------------------------------------
(* Meetings: devices without pairings that are in one room get connected,  *)
(* however often they lose it, while no wait to retry is cut short.         *)
(*                                                                         *)
(* A device that has not entered the room knows nobody in it and nobody in *)
(* it knows the device (Newcomer, Arrival); of two that are not both in it *)
(* each keeps nothing of the other that lasts (Gone); of two that are, the *)
(* later one calls and the earlier one answers, and every description on   *)
(* its way belongs to the sessions the two keep (Setup).                   *)

\* Nobody has a pairing or makes one, no dial or ICE attempt fails, and a wait to retry that
\* lasts its time outlasts what is under way.
Unpaired ==
  /\ Settles /\ InitiallyHeld = {}
  /\ \A limits \in Limits :
       \A kind \in {"dialFailure", "iceFailure", "pairing"} : limits[kind] = 0

\* What the frames and messages are about.
Starts == {f \in ServerMessage : f.type = "Identity"}
Ends == {f \in ServerMessage : f.type = "WaitingToRetry"}
Calls(e) == {f \in ServerMessage : f.type = "Peers" /\ e \in f.peers}
Joins(e) == {f \in ServerMessage : f.type = "PeerJoined" /\ f.peer = e}
Leaves(e) == {f \in ServerMessage : f.type = "PeerLeft" /\ f.peer = e}
From(e) == {f \in ServerMessage : f.type = "Signal" /\ f.peer = e}
Joining == {m \in ClientMessage : m.type = "JoinIpRoom"}
To(e) == {m \in ClientMessage : m.type = "Signal" /\ m.peer = e}

\* None of the sequence is in the set; the last of one set has none of another after
\* it; the first of one has none of another after it, or has one.
Free(q, S) == \A i \in DOMAIN q : q[i] \notin S
LastFree(q, S, T) == \E i \in DOMAIN q : q[i] \in S /\ \A j \in DOMAIN q : j > i => q[j] \notin T
FirstFree(q, S, T) ==
  \E i \in DOMAIN q : /\ q[i] \in S
                      /\ \A j \in DOMAIN q : /\ j < i => q[j] \notin S
                                             /\ j > i => q[j] \notin T
Follows(q, S, T) == \E i, j \in DOMAIN q : i < j /\ q[i] \in S /\ q[j] \in T

\* Rooms of addresses only.
Local(x) == {m \in ClientMessage : m \in Joining \/ (m.type = "Signal" /\ m.room = home[x])}
Usual ==
  {f \in ServerMessage :
     /\ f.type \in {"WaitingToRetry", "Identity", "Peers", "PeerJoined", "PeerLeft", "Signal"}
     /\ f.type \in {"Peers", "PeerJoined"} => f.room \in Ip}
HomeOnly(x) ==
  /\ held[x] = {} /\ \A y \in Device : secretFor[x][y] = None
  /\ \A room \in Room : x \in members[room] => room = home[x] /\ link[x] = "connected"
  /\ Free(up[x], ClientMessage \ Local(x)) /\ Free(down[x], ServerMessage \ Usual)
NoFailures == \A kind \in {"dialFailure", "iceFailure", "pairing"} : budget[kind] = 0

Inside(x) == x \in members[home[x]]
Arriving(x) == link[x] = "connected" /\ ~Inside(x)
Fresh(x) == ~Free(down[x], Starts) \/ ~Free(up[x], Joining)
Meeting(x, y) == home[x] = home[y] /\ Inside(x) /\ Inside(y)

Describes(x, y) ==
  \E n \in DOMAIN sessions[x][y] : ~Free(sessions[x][y][n].reports, {"LocalDescription"})
\* Only the current session has something to report.
Silent(x, y) ==
  \A n \in DOMAIN sessions[x][y] :
    sessions[x][y][n].reports # <<>> => y \in Known(x) /\ peers[x][y].session = n

\* How far the connection of x is.
Connection(x) ==
  /\ link[x] = "connected" => Free(down[x], Ends)
  /\ link[x] = "connecting" => Free(down[x], Starts) /\ Free(up[x], Joining)
  /\ link[x] = "waiting" => /\ Free(down[x], Starts) \/ up[x] = <<>>
                            /\ Free(up[x], Joining) \/ Len(up[x]) = 1
  /\ \A i \in DOMAIN down[x] : down[x][i] \in Starts => i = 1
  /\ \A i \in DOMAIN up[x] : up[x][i] \in Joining => i = Len(up[x])
  /\ Free(down[x], Starts) \/ Free(up[x], Joining)
  /\ Fresh(x) => ~Inside(x)
  /\ Arriving(x) => Free(down[x], ServerMessage \ Starts)
Newcomer(x, y) ==
  Fresh(x) => y \notin Known(x) /\ ~Describes(x, y) /\ Free(down[x], Calls(y) \union Joins(y))

\* x does not keep y.
Gone(x, y) ==
  \/ LastFree(down[x], Leaves(y) \union Ends, Calls(y) \union Joins(y))
  \/ y \notin Known(x) /\ Free(down[x], Calls(y) \union Joins(y))

\* What x, which has not entered its room, and any other one keep of each other.
Arrival(x, y) ==
  /\ y \notin Known(x) /\ Silent(x, y)
  /\ link[y] = "connected" => x \notin Known(y) /\ Silent(y, x) /\ Free(down[y], Leaves(x))
  /\ Free(down[y], Calls(x) \union Joins(x)) /\ Free(up[y], To(x)) /\ ~Describes(y, x)
  /\ x \notin Known(y) \/ (link[y] # "connected" /\ Free(down[y], From(x)))

\* The descriptions of the sessions that c, which calls, and k are setting up.
OffersUp(c, k) == {m \in To(k) : k \in Known(c) /\ m.session = peers[c][k].session /\ m.answers = 0}
OffersDown(c, k) ==
  {f \in From(c) : k \in Known(c) /\ f.session = peers[c][k].session /\ f.answers = 0}
Taken(c, k) == c \in Known(k) /\ k \in Known(c) /\ Current(k, c).remote = peers[c][k].session
AnswersUp(c, k) ==
  {m \in To(c) : Taken(c, k) /\ m.session = peers[k][c].session /\ m.answers = peers[c][k].session}
AnswersDown(c, k) ==
  {f \in From(k) : Taken(c, k) /\ f.session = peers[k][c].session /\ f.answers = peers[c][k].session}

Alive(x, y, caller) ==
  y \in Known(x) =>
    /\ Current(x, y).caller = caller /\ Current(x, y).state \in {"new", "open"}
    /\ Free(Current(x, y).reports, {"Failed", "Closed"})
    /\ Current(x, y).state = "open" =>
         /\ Current(x, y).remote # 0
         /\ peers[x][y].connected \/ ~Free(Current(x, y).reports, {"Open"})

Told(c, k) ==
  /\ Free(down[c], Leaves(k) \union Joins(k)) /\ Free(down[k], Leaves(c) \union Calls(c))
  /\ k \in Known(c) \/ ~Free(down[c], Calls(k))
  /\ IF c \in Known(k) THEN Free(down[k], From(c) \ OffersDown(c, k))
                       ELSE FirstFree(down[k], Joins(c), From(c) \ OffersDown(c, k))
  /\ Free(up[c], To(k) \ OffersUp(c, k))
  /\ Free(up[k], To(c) \ AnswersUp(c, k)) /\ Free(down[c], From(k) \ AnswersDown(c, k))

\* The call gets on.
Offered(c, k) ==
  k \in Known(c) /\ Current(c, k).remote = 0 =>
    \/ ~Free(Current(c, k).reports, {"LocalDescription"})
    \/ ~Free(up[c], To(k))
    \/ c \notin Known(k) /\ Follows(down[k], Joins(c), From(c))
    \/ c \in Known(k) /\ ~Free(down[k], From(c))
    \/ c \in Known(k) /\ Current(k, c).remote # 0
Answered(c, k) ==
  /\ c \in Known(k) /\ Current(k, c).remote # 0 =>
       /\ Taken(c, k)
       /\ \/ ~Free(Current(k, c).reports, {"LocalDescription"})
          \/ ~Free(up[k], To(c)) \/ ~Free(down[c], From(k))
          \/ Current(c, k).remote # 0
  /\ c \in Known(k) /\ Current(k, c).remote = 0 =>
       Free(Current(k, c).reports, {"LocalDescription"})
Agreed(c, k) ==
  /\ k \in Known(c) /\ Current(c, k).remote # 0 =>
       Taken(c, k) /\ Current(c, k).remote = peers[k][c].session
  /\ k \in Known(c) /\ c \in Known(k) =>
       (Current(c, k).state = "open" <=> Current(k, c).state = "open")

Setup(c, k) ==
  /\ Silent(c, k) /\ Silent(k, c) /\ Alive(c, k, TRUE) /\ Alive(k, c, FALSE)
  /\ Told(c, k) /\ Offered(c, k) /\ Answered(c, k) /\ Agreed(c, k)

Pair(x, y) ==
  /\ Newcomer(x, y)
  /\ ~Meeting(x, y) => Gone(x, y)
  /\ Arriving(x) => Arrival(x, y)
  /\ Meeting(x, y) => Setup(x, y) \/ Setup(y, x)

Meetings ==
  /\ NoFailures
  /\ \A x \in Device : HomeOnly(x) /\ Connection(x) /\ \A y \in Others(x) : Pair(x, y)

-----------------------------------------------------------------------------
(* Sequences with and without certain elements.                            *)

LEMMA FreeTail ==
  ASSUME NEW A, NEW q \in Seq(A), q # <<>>, NEW S
  PROVE  Free(q, S) <=> Head(q) \notin S /\ Free(Tail(q), S)
<1>1. /\ Head(q) = q[1] /\ Len(q) \in Nat \ {0} /\ DOMAIN q = 1..Len(q)
      /\ DOMAIN Tail(q) = 1..(Len(q) - 1) /\ \A i \in DOMAIN Tail(q) : Tail(q)[i] = q[i + 1]
  BY HeadTailProperties, EmptySeq
<1>2. ASSUME Free(q, S) PROVE Head(q) \notin S /\ Free(Tail(q), S)
  BY <1>1, <1>2 DEF Free
<1>3. ASSUME Head(q) \notin S, Free(Tail(q), S) PROVE Free(q, S)
  <2> SUFFICES ASSUME NEW i \in DOMAIN q PROVE q[i] \notin S
    BY DEF Free
  <2>1. CASE i = 1
    BY <1>1, <1>3, <2>1
  <2>2. CASE i # 1
    <3>1. i - 1 \in DOMAIN Tail(q) /\ q[i] = Tail(q)[i - 1]
      BY <1>1, <2>2
    <3> QED
      BY <1>3, <3>1 DEF Free
  <2> QED
    BY <2>1, <2>2
<1> QED
  BY <1>2, <1>3

LEMMA Appended ==
  ASSUME NEW A, NEW q \in Seq(A), NEW f \in A
  PROVE  /\ Append(q, f) \in Seq(A) /\ Len(q) \in Nat /\ DOMAIN q = 1..Len(q)
         /\ DOMAIN Append(q, f) = 1..(Len(q) + 1) /\ Len(Append(q, f)) = Len(q) + 1
         /\ \A i \in DOMAIN q : Append(q, f)[i] = q[i]
         /\ Append(q, f)[Len(q) + 1] = f
         /\ \A i \in DOMAIN Append(q, f) : i \in DOMAIN q \/ i = Len(q) + 1
OBVIOUS

LEMMA Shortened ==
  ASSUME NEW A, NEW q \in Seq(A), q # <<>>
  PROVE  /\ Head(q) = q[1] /\ Head(q) \in A /\ Len(q) \in Nat \ {0} /\ DOMAIN q = 1..Len(q)
         /\ Tail(q) \in Seq(A) /\ Len(Tail(q)) = Len(q) - 1
         /\ \A i \in DOMAIN Tail(q) : i \in Nat /\ i + 1 \in DOMAIN q /\ Tail(q)[i] = q[i + 1]
         /\ \A i \in DOMAIN q : i = 1 \/ (i - 1 \in DOMAIN Tail(q) /\ Tail(q)[i - 1] = q[i])
OBVIOUS

LEMMA FreeAppend ==
  ASSUME NEW A, NEW q \in Seq(A), NEW f \in A, NEW S
  PROVE  Free(Append(q, f), S) <=> Free(q, S) /\ f \notin S
BY Appended DEF Free

LEMMA FreeWithin == ASSUME NEW q, NEW S, NEW T \in SUBSET S, Free(q, S) PROVE Free(q, T)
BY DEF Free

LEMMA FreeEmpty == \A S : Free(<<>>, S)
BY DEF Free

LEMMA FreePrefix ==
  ASSUME NEW A, NEW q \in Seq(A), NEW n \in 0..Len(q), NEW S, Free(q, S)
  PROVE  Free(SubSeq(q, 1, n), S)
BY DEF Free

LEMMA LastFreeTail ==
  ASSUME NEW A, NEW q \in Seq(A), q # <<>>, NEW S, NEW T, LastFree(q, S, T)
  PROVE  LastFree(Tail(q), S, T) \/ (Head(q) \in S /\ Free(Tail(q), T))
<1>1. PICK i \in DOMAIN q : q[i] \in S /\ \A j \in DOMAIN q : j > i => q[j] \notin T
  BY DEF LastFree
<1>2. CASE i = 1
  BY <1>1, <1>2, Shortened DEF Free
<1>3. CASE i # 1
  <2>1. i - 1 \in DOMAIN Tail(q) /\ Tail(q)[i - 1] = q[i]
    BY <1>3, Shortened
  <2>2. \A j \in DOMAIN Tail(q) : j > i - 1 => Tail(q)[j] \notin T
    BY <1>1, Shortened
  <2> QED
    BY <1>1, <2>1, <2>2 DEF LastFree
<1> QED
  BY <1>2, <1>3

LEMMA LastFreeHead ==
  ASSUME NEW A, NEW q \in Seq(A), q # <<>>, NEW S, NEW T
  PROVE  LastFree(Tail(q), S, T) => LastFree(q, S, T)
<1> SUFFICES ASSUME LastFree(Tail(q), S, T) PROVE LastFree(q, S, T)
  OBVIOUS
<1>1. PICK i \in DOMAIN Tail(q) :
        Tail(q)[i] \in S /\ \A j \in DOMAIN Tail(q) : j > i => Tail(q)[j] \notin T
  BY DEF LastFree
<1>2. i + 1 \in DOMAIN q /\ q[i + 1] \in S
  BY <1>1, Shortened
<1>3. ASSUME NEW j \in DOMAIN q, j > i + 1 PROVE q[j] \notin T
  <2>1. j - 1 \in DOMAIN Tail(q) /\ Tail(q)[j - 1] = q[j] /\ j - 1 > i
    BY <1>3, Shortened
  <2> QED
    BY <1>1, <2>1
<1> QED
  BY <1>2, <1>3 DEF LastFree

LEMMA LastFreeAppend ==
  ASSUME NEW A, NEW q \in Seq(A), NEW f \in A, NEW S, NEW T
  PROVE  /\ LastFree(q, S, T) /\ f \notin T => LastFree(Append(q, f), S, T)
         /\ f \in S => LastFree(Append(q, f), S, T)
         /\ LastFree(Append(q, f), S, T) /\ f \notin S => LastFree(q, S, T)
<1>1. ASSUME LastFree(q, S, T), f \notin T PROVE LastFree(Append(q, f), S, T)
  <2>1. PICK i \in DOMAIN q : q[i] \in S /\ \A j \in DOMAIN q : j > i => q[j] \notin T
    BY <1>1 DEF LastFree
  <2>2. i \in DOMAIN Append(q, f) /\ Append(q, f)[i] \in S
    BY <2>1, Appended
  <2>3. \A j \in DOMAIN Append(q, f) : j > i => Append(q, f)[j] \notin T
    BY <1>1, <2>1, Appended
  <2> QED
    BY <2>2, <2>3 DEF LastFree
<1>2. ASSUME f \in S PROVE LastFree(Append(q, f), S, T)
  <2>1. /\ Len(q) + 1 \in DOMAIN Append(q, f) /\ Append(q, f)[Len(q) + 1] \in S
        /\ \A j \in DOMAIN Append(q, f) : ~(j > Len(q) + 1)
    BY <1>2, Appended
  <2> QED
    BY <2>1 DEF LastFree
<1>3. ASSUME LastFree(Append(q, f), S, T), f \notin S PROVE LastFree(q, S, T)
  <2>1. PICK i \in DOMAIN Append(q, f) :
          /\ Append(q, f)[i] \in S
          /\ \A j \in DOMAIN Append(q, f) : j > i => Append(q, f)[j] \notin T
    BY <1>3 DEF LastFree
  <2>2. i \in DOMAIN q /\ q[i] \in S
    BY <1>3, <2>1, Appended
  <2>3. \A j \in DOMAIN q : j > i => q[j] \notin T
    BY <2>1, Appended
  <2> QED
    BY <2>2, <2>3 DEF LastFree
<1> QED
  BY <1>1, <1>2, <1>3

LEMMA FirstFreeTail ==
  ASSUME NEW A, NEW q \in Seq(A), q # <<>>, NEW S, NEW T
  PROVE  /\ FirstFree(q, S, T) /\ Head(q) \notin S => FirstFree(Tail(q), S, T)
         /\ FirstFree(q, S, T) /\ Head(q) \in S => Free(Tail(q), T)
         /\ FirstFree(Tail(q), S, T) /\ Head(q) \notin S => FirstFree(q, S, T)
<1> DEFINE t == Tail(q)
<1>1. ASSUME FirstFree(q, S, T)
      PROVE  IF Head(q) \in S THEN Free(t, T) ELSE FirstFree(t, S, T)
  <2>1. PICK i \in DOMAIN q : /\ q[i] \in S
                              /\ \A j \in DOMAIN q : j < i => q[j] \notin S
                              /\ \A j \in DOMAIN q : j > i => q[j] \notin T
    BY <1>1 DEF FirstFree
  <2>2. CASE Head(q) \in S
    <3>1. i = 1
      BY <2>1, <2>2, Shortened
    <3> QED
      BY <2>1, <2>2, <3>1, Shortened DEF Free
  <2>3. CASE Head(q) \notin S
    <3>1. i - 1 \in DOMAIN t /\ t[i - 1] = q[i]
      BY <2>1, <2>3, Shortened
    <3>2. \A j \in DOMAIN t : /\ j < i - 1 => t[j] \notin S
                              /\ j > i - 1 => t[j] \notin T
      BY <2>1, Shortened
    <3> HIDE DEF t
    <3> QED
      BY <2>1, <2>3, <3>1, <3>2 DEF FirstFree
  <2> QED
    BY <2>2, <2>3
<1>2. ASSUME FirstFree(t, S, T), Head(q) \notin S PROVE FirstFree(q, S, T)
  <2>1. PICK i \in DOMAIN t : /\ t[i] \in S
                              /\ \A j \in DOMAIN t : j < i => t[j] \notin S
                              /\ \A j \in DOMAIN t : j > i => t[j] \notin T
    BY <1>2 DEF FirstFree
  <2>2. i + 1 \in DOMAIN q /\ q[i + 1] \in S
    BY <2>1, Shortened
  <2>3. ASSUME NEW j \in DOMAIN q
        PROVE  (j < i + 1 => q[j] \notin S) /\ (j > i + 1 => q[j] \notin T)
    <3>1. CASE j = 1
      BY <1>2, <3>1, Shortened
    <3>2. CASE j # 1
      <4>1. j - 1 \in DOMAIN t /\ t[j - 1] = q[j] /\ j \in Nat /\ i \in Nat
        BY <3>2, Shortened
      <4> QED
        BY <2>1, <4>1
    <3> QED
      BY <3>1, <3>2
  <2> QED
    BY <2>2, <2>3 DEF FirstFree
<1> QED
  BY <1>1, <1>2

LEMMA FirstFreeAppend ==
  ASSUME NEW A, NEW q \in Seq(A), NEW f \in A, NEW S, NEW T
  PROVE  /\ FirstFree(q, S, T) /\ f \notin T => FirstFree(Append(q, f), S, T)
         /\ Free(q, S) /\ f \in S => FirstFree(Append(q, f), S, T)
         /\ FirstFree(Append(q, f), S, T) /\ f \notin S => FirstFree(q, S, T)
<1> DEFINE a == Append(q, f)
<1>1. ASSUME FirstFree(q, S, T), f \notin T PROVE FirstFree(a, S, T)
  <2>1. PICK i \in DOMAIN q : /\ q[i] \in S
                              /\ \A j \in DOMAIN q : j < i => q[j] \notin S
                              /\ \A j \in DOMAIN q : j > i => q[j] \notin T
    BY <1>1 DEF FirstFree
  <2>2. i \in DOMAIN a /\ a[i] \in S
    BY <2>1, Appended
  <2>3. \A j \in DOMAIN a : (j < i => a[j] \notin S) /\ (j > i => a[j] \notin T)
    BY <1>1, <2>1, Appended
  <2> HIDE DEF a
  <2> QED
    BY <2>2, <2>3 DEF FirstFree
<1>2. ASSUME Free(q, S), f \in S PROVE FirstFree(a, S, T)
  <2>1. /\ Len(q) + 1 \in DOMAIN a /\ a[Len(q) + 1] \in S
        /\ \A j \in DOMAIN a : (j < Len(q) + 1 => a[j] \notin S) /\ ~(j > Len(q) + 1)
    BY <1>2, Appended DEF Free
  <2> HIDE DEF a
  <2> QED
    BY <2>1 DEF FirstFree
<1>3. ASSUME FirstFree(a, S, T), f \notin S PROVE FirstFree(q, S, T)
  <2>1. PICK i \in DOMAIN a : /\ a[i] \in S
                              /\ \A j \in DOMAIN a : j < i => a[j] \notin S
                              /\ \A j \in DOMAIN a : j > i => a[j] \notin T
    BY <1>3 DEF FirstFree
  <2>2. i \in DOMAIN q /\ q[i] \in S
    BY <1>3, <2>1, Appended
  <2>3. \A j \in DOMAIN q : (j < i => q[j] \notin S) /\ (j > i => q[j] \notin T)
    BY <2>1, Appended
  <2> QED
    BY <2>2, <2>3 DEF FirstFree
<1> QED
  BY <1>1, <1>2, <1>3

LEMMA FollowsTail ==
  ASSUME NEW A, NEW q \in Seq(A), q # <<>>, NEW S, NEW T
  PROVE  /\ Follows(q, S, T) => Follows(Tail(q), S, T) \/ (Head(q) \in S /\ ~Free(Tail(q), T))
         /\ Follows(Tail(q), S, T) => Follows(q, S, T)
<1> DEFINE t == Tail(q)
<1>1. ASSUME Follows(q, S, T) PROVE Follows(t, S, T) \/ (Head(q) \in S /\ ~Free(t, T))
  <2>1. PICK i, j \in DOMAIN q : i < j /\ q[i] \in S /\ q[j] \in T
    BY <1>1 DEF Follows
  <2>2. j - 1 \in DOMAIN t /\ t[j - 1] = q[j]
    BY <2>1, Shortened
  <2>3. i = 1 \/ (i - 1 \in DOMAIN t /\ t[i - 1] = q[i] /\ i - 1 < j - 1)
    BY <2>1, Shortened
  <2>4. i = 1 => Head(q) \in S
    BY <2>1, Shortened
  <2> HIDE DEF t
  <2> QED
    BY <2>1, <2>2, <2>3, <2>4 DEF Follows, Free
<1>2. ASSUME Follows(t, S, T) PROVE Follows(q, S, T)
  <2>1. PICK i, j \in DOMAIN t : i < j /\ t[i] \in S /\ t[j] \in T
    BY <1>2 DEF Follows
  <2>2. /\ i + 1 \in DOMAIN q /\ j + 1 \in DOMAIN q /\ i + 1 < j + 1
        /\ q[i + 1] \in S /\ q[j + 1] \in T
    BY <2>1, Shortened
  <2> QED
    BY <2>2 DEF Follows
<1> QED
  BY <1>1, <1>2

LEMMA FollowsAppend ==
  ASSUME NEW A, NEW q \in Seq(A), NEW f \in A, NEW S, NEW T
  PROVE  /\ Follows(q, S, T) => Follows(Append(q, f), S, T)
         /\ ~Free(q, S) /\ f \in T => Follows(Append(q, f), S, T)
         /\ Follows(Append(q, f), S, T) /\ f \notin T => Follows(q, S, T)
<1> DEFINE a == Append(q, f)
<1>1. ASSUME Follows(q, S, T) PROVE Follows(a, S, T)
  <2>1. PICK i, j \in DOMAIN q : i < j /\ q[i] \in S /\ q[j] \in T
    BY <1>1 DEF Follows
  <2>2. i \in DOMAIN a /\ j \in DOMAIN a /\ a[i] \in S /\ a[j] \in T
    BY <2>1, Appended
  <2> HIDE DEF a
  <2> QED
    BY <2>1, <2>2 DEF Follows
<1>2. ASSUME ~Free(q, S), f \in T PROVE Follows(a, S, T)
  <2>1. PICK i \in DOMAIN q : q[i] \in S
    BY <1>2 DEF Free
  <2>2. /\ i \in DOMAIN a /\ Len(q) + 1 \in DOMAIN a /\ i < Len(q) + 1
        /\ a[i] \in S /\ a[Len(q) + 1] \in T
    BY <1>2, <2>1, Appended
  <2> HIDE DEF a
  <2> QED
    BY <2>2 DEF Follows
<1>3. ASSUME Follows(a, S, T), f \notin T PROVE Follows(q, S, T)
  <2>1. PICK i, j \in DOMAIN a : i < j /\ a[i] \in S /\ a[j] \in T
    BY <1>3 DEF Follows
  <2>2. i \in DOMAIN q /\ j \in DOMAIN q /\ q[i] \in S /\ q[j] \in T
    BY <1>3, <2>1, Appended
  <2> QED
    BY <2>1, <2>2 DEF Follows
<1> QED
  BY <1>1, <1>2, <1>3

\* Sequences with the same elements of a set, in the same order as far as it matters here.
Alike(q, r, F) ==
  \A S, T \in SUBSET F : /\ Free(q, S) <=> Free(r, S)
                         /\ LastFree(q, S, T) <=> LastFree(r, S, T)
                         /\ FirstFree(q, S, T) <=> FirstFree(r, S, T)
                         /\ Follows(q, S, T) <=> Follows(r, S, T)

LEMMA AlikeSame == \A q, F : Alike(q, q, F)
BY DEF Alike

LEMMA AlikeTail ==
  ASSUME NEW A, NEW q \in Seq(A), q # <<>>, NEW F, Head(q) \notin F
  PROVE  Alike(Tail(q), q, F)
<1> SUFFICES ASSUME NEW S \in SUBSET F, NEW T \in SUBSET F
             PROVE  /\ Free(Tail(q), S) <=> Free(q, S)
                    /\ LastFree(Tail(q), S, T) <=> LastFree(q, S, T)
                    /\ FirstFree(Tail(q), S, T) <=> FirstFree(q, S, T)
                    /\ Follows(Tail(q), S, T) <=> Follows(q, S, T)
  BY DEF Alike
<1>1. Head(q) \notin S
  OBVIOUS
<1> QED
  BY <1>1, FreeTail, LastFreeTail, LastFreeHead, FirstFreeTail, FollowsTail

LEMMA AlikeAppend ==
  ASSUME NEW A, NEW q \in Seq(A), NEW f \in A, NEW F, f \notin F
  PROVE  Alike(Append(q, f), q, F)
<1> SUFFICES ASSUME NEW S \in SUBSET F, NEW T \in SUBSET F
             PROVE  /\ Free(Append(q, f), S) <=> Free(q, S)
                    /\ LastFree(Append(q, f), S, T) <=> LastFree(q, S, T)
                    /\ FirstFree(Append(q, f), S, T) <=> FirstFree(q, S, T)
                    /\ Follows(Append(q, f), S, T) <=> Follows(q, S, T)
  BY DEF Alike
<1>1. f \notin S /\ f \notin T
  OBVIOUS
<1> QED
  BY <1>1, FreeAppend, LastFreeAppend, FirstFreeAppend, FollowsAppend

LEMMA AlikeUse ==
  ASSUME NEW q, NEW r, NEW F, Alike(q, r, F), NEW S \in SUBSET F, NEW T \in SUBSET F
  PROVE  /\ Free(q, S) <=> Free(r, S)
         /\ LastFree(q, S, T) <=> LastFree(r, S, T)
         /\ FirstFree(q, S, T) <=> FirstFree(r, S, T)
         /\ Follows(q, S, T) <=> Follows(r, S, T)
BY DEF Alike

-----------------------------------------------------------------------------
(* Steps that change nothing between two devices.                          *)

\* What is about e among the frames of another device.
About(e) == Calls(e) \union Joins(e) \union Leaves(e) \union From(e) \union Ends

LEMMA Kinds ==
  ASSUME NEW e \in Device
  PROVE  /\ Leaves(e) \union Joins(e) \in SUBSET About(e) /\ Leaves(e) \in SUBSET About(e)
         /\ Leaves(e) \union Calls(e) \in SUBSET About(e) /\ Calls(e) \in SUBSET About(e)
         /\ Calls(e) \union Joins(e) \in SUBSET About(e) /\ Joins(e) \in SUBSET About(e)
         /\ Leaves(e) \union Ends \in SUBSET About(e) /\ From(e) \in SUBSET About(e)
         /\ \A S : From(e) \ S \in SUBSET About(e)
         /\ To(e) \in SUBSET To(e) /\ \A S : To(e) \ S \in SUBSET To(e)
BY DEF About

\* Nothing between x and y changes at x.
Same(x, y) ==
  /\ sessions'[x][y] = sessions[x][y] /\ peers'[x][y] = peers[x][y]
  /\ Alike(down'[x], down[x], About(y)) /\ Alike(up'[x], up[x], To(y))

LEMMA SameKept ==
  ASSUME NEW x \in Device, NEW y \in Device,
         sessions'[x][y] = sessions[x][y], peers'[x][y] = peers[x][y]
  PROVE  /\ y \in Known(x)' <=> y \in Known(x)
         /\ peers[x][y].session = peers[x][y].session'
         /\ Current(x, y)' = Current(x, y)
         /\ Silent(x, y)' <=> Silent(x, y)
         /\ Describes(x, y)' <=> Describes(x, y)
<1>1. y \in Known(x)' <=> y \in Known(x)
  BY DEF Known
<1>2. peers[x][y].session = peers[x][y].session' /\ Current(x, y)' = Current(x, y)
  BY DEF Current
<1>3. Silent(x, y)' <=> Silent(x, y)
  BY <1>1 DEF Silent
<1>4. Describes(x, y)' <=> Describes(x, y)
  BY DEF Describes, Free
<1> QED
  BY <1>1, <1>2, <1>3, <1>4

LEMMA SameDescriptions ==
  ASSUME NEW c \in Device, NEW k \in Device,
         sessions'[c][k] = sessions[c][k], peers'[c][k] = peers[c][k],
         sessions'[k][c] = sessions[k][c], peers'[k][c] = peers[k][c]
  PROVE  /\ OffersUp(c, k)' = OffersUp(c, k) /\ OffersDown(c, k)' = OffersDown(c, k)
         /\ Taken(c, k)' <=> Taken(c, k)
         /\ AnswersUp(c, k)' = AnswersUp(c, k) /\ AnswersDown(c, k)' = AnswersDown(c, k)
<1>1. /\ k \in Known(c)' <=> k \in Known(c)
      /\ c \in Known(k)' <=> c \in Known(k)
      /\ Current(k, c)' = Current(k, c)
  BY SameKept
<1>2. Taken(c, k)' <=> Taken(c, k)
  BY <1>1 DEF Taken
<1>3. OffersUp(c, k)' = OffersUp(c, k) /\ OffersDown(c, k)' = OffersDown(c, k)
  BY <1>1 DEF OffersUp, OffersDown
<1>4. AnswersUp(c, k)' = AnswersUp(c, k) /\ AnswersDown(c, k)' = AnswersDown(c, k)
  BY <1>2 DEF AnswersUp, AnswersDown
<1> QED
  BY <1>2, <1>3, <1>4

\* A call goes on as long as nothing is lost that it needs.
LEMMA SetupKept ==
  ASSUME NEW c \in Device, NEW k \in Device, Setup(c, k),
         sessions'[c][k] = sessions[c][k], peers'[c][k] = peers[c][k],
         sessions'[k][c] = sessions[k][c], peers'[k][c] = peers[k][c],
         Alike(up'[c], up[c], To(k)), Alike(up'[k], up[k], To(c)),
         \A S \in SUBSET About(k) : Free(down[c], S) => Free(down'[c], S),
         \A S \in SUBSET About(c) : Free(down[k], S) => Free(down'[k], S),
         k \in Known(c) /\ Current(c, k).remote = 0 =>
           (Free(down'[c], From(k)) => Free(down[c], From(k))),
         c \in Known(k) /\ Current(k, c).remote = 0 =>
           (Free(down'[k], From(c)) => Free(down[k], From(c))),
         k \notin Known(c) => (Free(down'[c], Calls(k)) => Free(down[c], Calls(k))),
         c \notin Known(k) =>
           /\ Follows(down[k], Joins(c), From(c)) => Follows(down'[k], Joins(c), From(c))
           /\ \A S : FirstFree(down[k], Joins(c), From(c) \ S) =>
                     FirstFree(down'[k], Joins(c), From(c) \ S)
  PROVE  Setup(c, k)'
<1>1. /\ k \in Known(c)' <=> k \in Known(c)
      /\ c \in Known(k)' <=> c \in Known(k)
      /\ Current(k, c)' = Current(k, c) /\ Current(c, k)' = Current(c, k)
      /\ Silent(c, k)' <=> Silent(c, k)
      /\ Silent(k, c)' <=> Silent(k, c)
  BY SameKept
<1>2. /\ OffersUp(c, k)' = OffersUp(c, k) /\ OffersDown(c, k)' = OffersDown(c, k)
      /\ Taken(c, k)' <=> Taken(c, k)
      /\ AnswersUp(c, k)' = AnswersUp(c, k) /\ AnswersDown(c, k)' = AnswersDown(c, k)
  BY SameDescriptions
<1>3. /\ \A S \in SUBSET To(k) : Free(up'[c], S) <=> Free(up[c], S)
      /\ \A S \in SUBSET To(c) : Free(up'[k], S) <=> Free(up[k], S)
  BY AlikeUse
<1>6. Alive(c, k, TRUE)' /\ Alive(k, c, FALSE)'
  BY <1>1 DEF Setup, Alive
<1>7. Told(c, k)'
  <2>1. Told(c, k)
    BY DEF Setup
  <2>2. Free(down'[c], Leaves(k) \union Joins(k)) /\ Free(down'[k], Leaves(c) \union Calls(c))
    BY <2>1, Kinds DEF Told
  <2>3. k \in Known(c)' \/ ~Free(down'[c], Calls(k))
    BY <1>1, <2>1 DEF Told
  <2>4. IF c \in Known(k)' THEN Free(down'[k], From(c) \ OffersDown(c, k)')
        ELSE FirstFree(down'[k], Joins(c), From(c) \ OffersDown(c, k)')
    BY <1>1, <1>2, <2>1, Kinds DEF Told
  <2>5. /\ Free(up'[c], To(k) \ OffersUp(c, k)')
        /\ Free(up'[k], To(c) \ AnswersUp(c, k)')
        /\ Free(down'[c], From(k) \ AnswersDown(c, k)')
    BY <1>2, <1>3, <2>1, Kinds DEF Told
  <2> QED
    BY <2>2, <2>3, <2>4, <2>5 DEF Told
<1>8. Offered(c, k)'
  BY <1>1, <1>3, Kinds DEF Setup, Offered
<1>9. Answered(c, k)'
  BY <1>1, <1>2, <1>3, Kinds DEF Setup, Answered, Taken
<1>10. Agreed(c, k)'
  BY <1>1, <1>2 DEF Setup, Agreed
<1> QED
  BY <1>1, <1>6, <1>7, <1>8, <1>9, <1>10 DEF Setup

LEMMA SetupSame ==
  ASSUME NEW c \in Device, NEW k \in Device, Same(c, k), Same(k, c), Setup(c, k)
  PROVE  Setup(c, k)'
<1>1. /\ sessions'[c][k] = sessions[c][k] /\ peers'[c][k] = peers[c][k]
      /\ sessions'[k][c] = sessions[k][c] /\ peers'[k][c] = peers[k][c]
      /\ Alike(up'[c], up[c], To(k)) /\ Alike(up'[k], up[k], To(c))
      /\ Alike(down'[c], down[c], About(k)) /\ Alike(down'[k], down[k], About(c))
  BY DEF Same
<1>2. /\ \A S \in SUBSET About(k) : Free(down'[c], S) <=> Free(down[c], S)
      /\ \A S \in SUBSET About(c) : Free(down'[k], S) <=> Free(down[k], S)
  BY <1>1, AlikeUse
<1>3. /\ Follows(down'[k], Joins(c), From(c)) <=> Follows(down[k], Joins(c), From(c))
      /\ \A S : FirstFree(down'[k], Joins(c), From(c) \ S) <=>
                FirstFree(down[k], Joins(c), From(c) \ S)
  BY <1>1, AlikeUse, Kinds
<1> QED
  BY <1>1, <1>2, <1>3, Kinds, SetupKept

LEMMA GoneSame ==
  ASSUME NEW x \in Device, NEW y \in Device, Same(x, y), Gone(x, y)
  PROVE  Gone(x, y)'
<1>1. y \in Known(x)' <=> y \in Known(x)
  BY SameKept DEF Same
<1>2. Alike(down'[x], down[x], About(y))
  BY DEF Same
<1>3. /\ LastFree(down'[x], Leaves(y) \union Ends, Calls(y) \union Joins(y)) <=>
           LastFree(down[x], Leaves(y) \union Ends, Calls(y) \union Joins(y))
      /\ Free(down'[x], Calls(y) \union Joins(y)) <=> Free(down[x], Calls(y) \union Joins(y))
  BY <1>2, AlikeUse, Kinds
<1> QED
  BY <1>1, <1>3 DEF Gone

LEMMA ArrivalSame ==
  ASSUME NEW x \in Device, NEW y \in Device, Same(x, y), Same(y, x), Arrival(x, y),
         link'[y] = "connected" <=> link[y] = "connected"
  PROVE  Arrival(x, y)'
<1>1. /\ y \in Known(x)' <=> y \in Known(x)
      /\ x \in Known(y)' <=> x \in Known(y)
      /\ Silent(x, y)' <=> Silent(x, y)
      /\ Silent(y, x)' <=> Silent(y, x)
      /\ Describes(y, x)' <=> Describes(y, x)
  BY SameKept DEF Same
<1>2. Alike(down'[y], down[y], About(x)) /\ Alike(up'[y], up[y], To(x))
  BY DEF Same
<1>3. /\ Free(down'[y], Leaves(x)) <=> Free(down[y], Leaves(x))
      /\ Free(down'[y], From(x)) <=> Free(down[y], From(x))
      /\ Free(down'[y], Calls(x) \union Joins(x)) <=> Free(down[y], Calls(x) \union Joins(x))
      /\ Free(up'[y], To(x)) <=> Free(up[y], To(x))
  BY <1>2, AlikeUse, Kinds
<1> QED
  BY <1>1, <1>3 DEF Arrival

LEMMA NewcomerSame ==
  ASSUME NEW x \in Device, NEW y \in Device, Same(x, y), Newcomer(x, y), Fresh(x)' => Fresh(x)
  PROVE  Newcomer(x, y)'
<1>1. /\ y \in Known(x)' <=> y \in Known(x)
      /\ Describes(x, y)' <=> Describes(x, y)
  BY SameKept DEF Same
<1>2. Alike(down'[x], down[x], About(y))
  BY DEF Same
<1>3. Free(down'[x], Calls(y) \union Joins(y)) <=> Free(down[x], Calls(y) \union Joins(y))
  BY <1>2, AlikeUse, Kinds
<1> QED
  BY <1>1, <1>3 DEF Newcomer

LEMMA PairSame ==
  ASSUME NEW x \in Device, NEW y \in Device, Same(x, y), Same(y, x), Pair(x, y),
         Meeting(x, y)' <=> Meeting(x, y),
         Arriving(x)' => Arriving(x),
         link'[y] = "connected" <=> link[y] = "connected",
         Fresh(x)' => Fresh(x)
  PROVE  Pair(x, y)'
<1>1. Newcomer(x, y)'
  BY NewcomerSame DEF Pair
<1>2. ~Meeting(x, y)' => Gone(x, y)'
  BY GoneSame DEF Pair
<1>3. Arriving(x)' => Arrival(x, y)'
  BY ArrivalSame DEF Pair
<1>4. Meeting(x, y)' => Setup(x, y)' \/ Setup(y, x)'
  BY SetupSame DEF Pair
<1> QED
  BY <1>1, <1>2, <1>3, <1>4 DEF Pair

-----------------------------------------------------------------------------
(* What the steps have in common.                                          *)

LEMMA NoneFail ==
  ASSUME TypeOK, NoFailures, NEW kinds, Spend(kinds)
  PROVE  /\ NoFailures'
         /\ "dialFailure" \notin kinds /\ "iceFailure" \notin kinds /\ "pairing" \notin kinds
<1>1. DOMAIN budget = Kind /\ {"dialFailure", "iceFailure", "pairing"} \subseteq Kind
  BY DEF TypeOK, Kind
<1>2. \A kind \in {"dialFailure", "iceFailure", "pairing"} : kind \notin kinds
  <2> SUFFICES ASSUME NEW kind \in {"dialFailure", "iceFailure", "pairing"}, kind \in kinds
               PROVE  FALSE
    OBVIOUS
  <2>1. budget[kind] = 0
    BY DEF NoFailures
  <2>2. budget[kind] > 0
    BY DEF Spend
  <2> QED
    BY <2>1, <2>2
<1>3. \A kind \in Kind : kind \notin kinds => budget'[kind] = budget[kind]
  BY <1>1 DEF Spend
<1> QED
  BY <1>1, <1>2, <1>3 DEF NoFailures

LEMMA SameFailures == NoFailures /\ budget' = budget => NoFailures'
BY DEF NoFailures

\* A step that leaves the server and the connections as they are.
Inner == UNCHANGED <<link, home, members>>

LEMMA InnerKept ==
  ASSUME Inner, NEW x \in Device
  PROVE  /\ Inside(x)' <=> Inside(x)
         /\ Arriving(x)' <=> Arriving(x)
         /\ \A y \in Device : Meeting(x, y)' <=> Meeting(x, y)
BY DEF Inner, Inside, Arriving, Meeting

LEMMA MeetingBoth == \A x, y \in Device : Meeting(x, y) <=> Meeting(y, x)
BY DEF Meeting

LEMMA Pairs ==
  ASSUME TypeOK, Meetings, Inner, \A x \in Device : Fresh(x)' => Fresh(x),
         \A x \in Device : \A y \in Others(x) : (Same(x, y) /\ Same(y, x)) \/ Pair(x, y)'
  PROVE  \A x \in Device : \A y \in Others(x) : Pair(x, y)'
<1> SUFFICES ASSUME NEW x \in Device, NEW y \in Others(x), Same(x, y), Same(y, x)
             PROVE  Pair(x, y)'
  OBVIOUS
<1>1. y \in Device /\ Pair(x, y)
  BY DEF Meetings, Others
<1>2. /\ Meeting(x, y)' <=> Meeting(x, y)
      /\ Arriving(x)' => Arriving(x)
      /\ link'[y] = "connected" <=> link[y] = "connected"
  BY <1>1, InnerKept DEF Inner
<1> QED
  BY <1>1, <1>2, PairSame

\* A step of the engine of d that concerns e.
LEMMA PairTouched ==
  ASSUME NEW d \in Device, NEW e \in Device, Pair(d, e), Pair(e, d), Inner,
         Same(e, d), Fresh(e)' => Fresh(e), Newcomer(d, e)',
         Meeting(d, e) => Setup(d, e)' \/ Setup(e, d)',
         ~Meeting(d, e) => Gone(d, e)',
         Arriving(d) => Arrival(d, e)', Arriving(e) => Arrival(e, d)'
  PROVE  Pair(d, e)' /\ Pair(e, d)'
<1>1. /\ Meeting(d, e)' <=> Meeting(d, e)
      /\ Meeting(e, d)' <=> Meeting(d, e)
      /\ Arriving(d)' <=> Arriving(d)
      /\ Arriving(e)' <=> Arriving(e)
  BY InnerKept, MeetingBoth
<1>2. Newcomer(e, d)'
  BY NewcomerSame DEF Pair
<1>3. ~Meeting(e, d)' => Gone(e, d)'
  BY <1>1, GoneSame, MeetingBoth DEF Pair
<1> QED
  BY <1>1, <1>2, <1>3 DEF Pair

\* Frames are taken from the front.
LEMMA HandledFrame ==
  ASSUME TypeOK, NEW d \in Device, NEW type, Arrives(d, type), Handled(d)
  PROVE  /\ down[d] \in Seq(ServerMessage) /\ down[d] # <<>>
         /\ down'[d] = Tail(down[d]) /\ \A x \in Device : x # d => down'[x] = down[x]
         /\ Head(down[d]) \in ServerMessage /\ Head(down[d]).type = type
         /\ \A y : Head(down[d]) \notin About(y) => Alike(down'[d], down[d], About(y))
<1>1. /\ down[d] \in Seq(ServerMessage) /\ down[d] # <<>> /\ Head(down[d]).type = type
      /\ Head(down[d]) \in ServerMessage
  BY HandledType DEF TypeOK, Arrives
<1>2. down'[d] = Tail(down[d]) /\ \A x \in Device : x # d => down'[x] = down[x]
  BY DEF Handled, TypeOK
<1> QED
  BY <1>1, <1>2, AlikeTail

LEMMA ConnectionSame ==
  ASSUME NEW x \in Device, Connection(x), link'[x] = link[x], up'[x] = up[x], down'[x] = down[x],
         Inside(x)' <=> Inside(x)
  PROVE  Connection(x)' /\ (Fresh(x)' <=> Fresh(x))
BY DEF Connection, Fresh, Arriving, Inside

LEMMA ConnectionHandled ==
  ASSUME NEW x \in Device, Connection(x), link'[x] = link[x], Inside(x)' <=> Inside(x),
         up'[x] = up[x], down'[x] = Tail(down[x]), down[x] \in Seq(ServerMessage), down[x] # <<>>
  PROVE  Connection(x)' /\ (Fresh(x)' => Fresh(x))
<1>1. \A S : Free(down[x], S) => Free(down'[x], S)
  BY FreeTail
<1>2. \A i \in DOMAIN down'[x] : down'[x][i] \in Starts => i = 1
  <2> SUFFICES ASSUME NEW i \in DOMAIN down'[x], down'[x][i] \in Starts PROVE FALSE
    OBVIOUS
  <2>1. i \in Nat /\ i + 1 \in DOMAIN down[x] /\ down[x][i + 1] \in Starts /\ i \in 1..Len(down'[x])
    BY Shortened
  <2>2. i + 1 = 1
    BY <2>1 DEF Connection
  <2> QED
    BY <2>1, <2>2
<1>3. Fresh(x)' => Fresh(x)
  BY <1>1 DEF Fresh
<1>4. Arriving(x)' => Arriving(x)
  BY DEF Arriving, Inside
<1> QED
  BY <1>1, <1>2, <1>3, <1>4 DEF Connection

LEMMA HomeSame ==
  ASSUME NEW x \in Device, HomeOnly(x), held'[x] = held[x], secretFor'[x] = secretFor[x],
         UNCHANGED <<link, home, members>>,
         \A S : Free(up[x], S) => Free(up'[x], S), \A S : Free(down[x], S) => Free(down'[x], S)
  PROVE  HomeOnly(x)'
<1>1. Local(x)' = Local(x)
  BY DEF Local
<1> QED
  BY <1>1 DEF HomeOnly

\* A step of d changes nothing that any other device keeps.
LEMMA SameElsewhere ==
  ASSUME NEW x \in Device, NEW y \in Device, sessions'[x] = sessions[x], peers'[x] = peers[x],
         up'[x] = up[x], down'[x] = down[x]
  PROVE  Same(x, y)
BY AlikeSame DEF Same

LEMMA PairOf ==
  ASSUME Meetings, NEW x \in Device, NEW y \in Device, x # y
  PROVE  Pair(x, y) /\ HomeOnly(x) /\ Connection(x)
BY DEF Meetings, Others

\* A device that has entered its room is connected.
LEMMA InsideConnected ==
  ASSUME TypeOK, Meetings, NEW x \in Device, Inside(x)
  PROVE  link[x] = "connected"
<1>1. home[x] \in Room
  BY RoomAssumption DEF TypeOK, Room
<1> QED
  BY <1>1 DEF Meetings, HomeOnly, Inside

LEMMA HandlerRest ==
  ASSUME TypeOK, Meetings, Inner, NEW d \in Device, NEW type, Arrives(d, type), Handled(d),
         UNCHANGED <<up, held, secretFor>>
  PROVE  \A x \in Device : HomeOnly(x)' /\ Connection(x)' /\ (Fresh(x)' => Fresh(x))
<1> SUFFICES ASSUME NEW x \in Device PROVE HomeOnly(x)' /\ Connection(x)' /\ (Fresh(x)' => Fresh(x))
  OBVIOUS
<1>1. HomeOnly(x) /\ Connection(x) /\ (Inside(x)' <=> Inside(x)) /\ link'[x] = link[x]
  BY InnerKept DEF Meetings, Inner
<1>2. /\ down[d] \in Seq(ServerMessage) /\ down[d] # <<>>
      /\ down'[d] = Tail(down[d]) /\ (x # d => down'[x] = down[x])
  BY HandledFrame
<1>3. Connection(x)' /\ (Fresh(x)' => Fresh(x))
  <2>1. CASE x = d
    BY <1>1, <1>2, <2>1, ConnectionHandled
  <2>2. CASE x # d
    BY <1>1, <1>2, <2>2, ConnectionSame
  <2> QED
    BY <2>1, <2>2
<1>4. \A S : Free(down[x], S) => Free(down'[x], S)
  BY <1>2, FreeTail
<1>5. HomeOnly(x)'
  BY <1>1, <1>4, HomeSame DEF Inner
<1> QED
  BY <1>3, <1>5

\* What a closed session reports.
LEMMA ClosingReports ==
  ASSUME TypeOK, NEW d \in Device, NEW leaving, NEW e \in Device
  PROVE  /\ DOMAIN Closing(d, leaving)[e] = DOMAIN sessions[d][e]
         /\ \A n \in DOMAIN sessions[d][e] :
              \/ Closing(d, leaving)[e][n] = sessions[d][e][n]
              \/ Closing(d, leaving)[e][n].reports = Append(sessions[d][e][n].reports, "Closed")
         /\ e \notin leaving => Closing(d, leaving)[e] = sessions[d][e]
<1>1. sessions[d][e] \in Seq(Session)
  BY DEF TypeOK
<1>2. \A n \in DOMAIN sessions[d][e] : sessions[d][e][n] \in Session
  BY <1>1
<1>3. \A session \in Session :
        ClosedSession(session).reports = Append(session.reports, "Closed")
  BY DEF ClosedSession, Session
<1>4. e \notin leaving => Closing(d, leaving)[e] = sessions[d][e]
  <2>1. sessions[d][e] = [n \in DOMAIN sessions[d][e] |-> sessions[d][e][n]]
    BY <1>1
  <2>2. e \notin leaving => Closing(d, leaving)[e] = [n \in DOMAIN sessions[d][e] |-> sessions[d][e][n]]
    BY DEF Closing
  <2> QED
    BY <2>1, <2>2
<1> QED
  BY <1>2, <1>3, <1>4 DEF Closing

LEMMA ClosingDescribes ==
  ASSUME TypeOK, NEW d \in Device, NEW leaving, NEW e \in Device,
         sessions'[d][e] = Closing(d, leaving)[e], Describes(d, e)'
  PROVE  Describes(d, e)
<1>1. PICK n \in DOMAIN sessions'[d][e] :
        ~Free(sessions'[d][e][n].reports, {"LocalDescription"})
  BY DEF Describes
<1>2. n \in DOMAIN sessions[d][e] /\ sessions[d][e][n] \in Session
  BY <1>1, ClosingReports DEF TypeOK
<1>3. sessions[d][e][n].reports \in Seq(Report) /\ "Closed" \in Report
  BY <1>2 DEF Session, Report
<1>4. \/ sessions'[d][e][n] = sessions[d][e][n]
      \/ sessions'[d][e][n].reports = Append(sessions[d][e][n].reports, "Closed")
  BY <1>2, ClosingReports
<1>5. ~Free(sessions[d][e][n].reports, {"LocalDescription"})
  <2>1. Free(sessions[d][e][n].reports, {"LocalDescription"})
          => Free(Append(sessions[d][e][n].reports, "Closed"), {"LocalDescription"})
    BY <1>3, FreeAppend
  <2> QED
    BY <1>1, <1>4, <2>1
<1> QED
  BY <1>2, <1>5 DEF Describes

\* d learns that e has gone, or loses its own connection.
LEMMA PairDropped ==
  ASSUME TypeOK, NEW d \in Device, NEW e \in Device, d # e, Pair(d, e), Pair(e, d), Inner,
         down[d] # <<>>, Head(down[d]) \in Leaves(e) \union Ends, down'[d] = Tail(down[d]),
         up'[d] = up[d], Same(e, d), Fresh(d)' => Fresh(d), Fresh(e)' => Fresh(e),
         e \notin Known(d)', Describes(d, e)' => Describes(d, e),
         ~Meeting(d, e), ~Arriving(d), Arriving(e) => link[d] # "connected"
  PROVE  Pair(d, e)' /\ Pair(e, d)'
<1>1. down[d] \in Seq(ServerMessage)
  BY DEF TypeOK
<1>2. Free(down[d], Calls(e) \union Joins(e)) => Free(down'[d], Calls(e) \union Joins(e))
  BY <1>1, FreeTail
<1>3. Newcomer(d, e)'
  BY <1>2 DEF Newcomer, Pair
<1>4. Gone(d, e)'
  <2>1. CASE LastFree(down[d], Leaves(e) \union Ends, Calls(e) \union Joins(e))
    BY <1>1, <2>1, LastFreeTail DEF Gone
  <2>2. CASE Free(down[d], Calls(e) \union Joins(e))
    BY <1>2, <2>2 DEF Gone
  <2> QED
    BY <2>1, <2>2 DEF Pair, Gone
<1>5. ASSUME Arriving(e) PROVE Arrival(e, d)'
  <2>1. Arrival(e, d) /\ link[d] # "connected" /\ link'[d] # "connected"
    BY <1>5 DEF Pair, Inner
  <2>2. d \notin Known(e)' /\ Silent(e, d)'
    BY <2>1, SameKept DEF Arrival, Same
  <2>3. Free(down'[d], Calls(e) \union Joins(e)) /\ Free(up'[d], To(e)) /\ ~Describes(d, e)'
    BY <1>2, <2>1 DEF Arrival
  <2> QED
    BY <2>1, <2>2, <2>3 DEF Arrival
<1> QED
  BY <1>3, <1>4, <1>5, PairTouched

-----------------------------------------------------------------------------
(* Signaling events.                                                       *)

LEMMA WaitingMeets ==
  ASSUME TypeOK, Meetings, NEW d \in Device, HandleWaitingToRetry(d)
  PROVE  Meetings'
<1>1. /\ Inner /\ UNCHANGED <<up, held, secretFor, budget>>
      /\ Arrives(d, "WaitingToRetry") /\ Handled(d) /\ DropPeers(d)
  BY DEF HandleWaitingToRetry, task, server, Inner
<1>2. \A x \in Device : HomeOnly(x)' /\ Connection(x)' /\ (Fresh(x)' => Fresh(x))
  BY <1>1, HandlerRest
<1>3. /\ down[d] # <<>> /\ down'[d] = Tail(down[d]) /\ down[d] \in Seq(ServerMessage)
      /\ \A x \in Device : x # d => down'[x] = down[x]
      /\ Head(down[d]) \in Ends
  BY <1>1, HandledFrame DEF Ends
<1>4. link[d] # "connected"
  <2>1. ~Free(down[d], Ends)
    BY <1>3, FreeTail
  <2> QED
    BY <2>1 DEF Meetings, Connection
<1>5. ~Inside(d) /\ ~Arriving(d)
  BY <1>4, InsideConnected DEF Arriving
<1>6. /\ sessions'[d] = Closing(d, Known(d)) /\ peers'[d] = [e \in Device |-> None]
      /\ \A x \in Device : x # d => sessions'[x] = sessions[x] /\ peers'[x] = peers[x]
  BY <1>1 DEF DropPeers, TypeOK
<1>7. ASSUME NEW e \in Others(d) PROVE Pair(d, e)' /\ Pair(e, d)'
  <2>1. e \in Device /\ e # d /\ Pair(d, e) /\ Pair(e, d)
    BY PairOf DEF Others
  <2>2. Same(e, d)
    BY <1>1, <1>3, <1>6, <2>1, SameElsewhere
  <2>3. e \notin Known(d)' /\ (Describes(d, e)' => Describes(d, e))
    BY <1>6, <2>1, ClosingDescribes DEF Known
  <2>4. ~Meeting(d, e)
    BY <1>5 DEF Meeting
  <2> QED
    BY <1>1, <1>2, <1>3, <1>4, <1>5, <2>1, <2>2, <2>3, <2>4, PairDropped
<1>8. \A x \in Device : \A y \in Others(x) : Pair(x, y)'
  <2> SUFFICES ASSUME NEW x \in Device, NEW y \in Others(x), x # d, y # d
               PROVE  Same(x, y) /\ Same(y, x)
    BY <1>1, <1>2, <1>7, Pairs DEF Others
  <2> QED
    BY <1>1, <1>3, <1>6, SameElsewhere DEF Others
<1> QED
  BY <1>1, <1>2, <1>8, SameFailures DEF Meetings

LEMMA PeerLeftMeets ==
  ASSUME TypeOK, Meetings, NEW d \in Device, HandlePeerLeft(d)
  PROVE  Meetings'
<1>0. PICK e \in Device, gone \in SUBSET Device :
        e = Head(down[d]).peer /\ gone = {e} \intersect Known(d)
  <2>1. Head(down[d]).peer \in Device
    BY HandledFrame, CarriedDown DEF HandlePeerLeft
  <2> QED
    BY <2>1
<1>1. /\ Inner /\ UNCHANGED <<up, held, secretFor, budget>>
      /\ Arrives(d, "PeerLeft") /\ Handled(d)
      /\ sessions' = [sessions EXCEPT ![d] = Closing(d, gone)]
      /\ peers' = [peers EXCEPT ![d][e] = None]
  BY <1>0 DEF HandlePeerLeft, task, server, Inner
<1>2. \A x \in Device : HomeOnly(x)' /\ Connection(x)' /\ (Fresh(x)' => Fresh(x))
  BY <1>1, HandlerRest
<1>3. /\ down[d] # <<>> /\ down'[d] = Tail(down[d]) /\ down[d] \in Seq(ServerMessage)
      /\ \A x \in Device : x # d => down'[x] = down[x]
      /\ Head(down[d]) \in ServerMessage /\ Head(down[d]).type = "PeerLeft"
  BY <1>1, HandledFrame
<1>4. Head(down[d]) \in Leaves(e) /\ \A y : y # e => Head(down[d]) \notin About(y)
  BY <1>0, <1>3 DEF Leaves, About, Calls, Joins, From, Ends
<1>5. ~Free(down[d], Leaves(e))
  BY <1>3, <1>4, FreeTail
<1>6. /\ sessions'[d] = Closing(d, gone)
      /\ \A y \in Device : peers'[d][y] = IF y = e THEN None ELSE peers[d][y]
      /\ \A x \in Device : x # d => sessions'[x] = sessions[x] /\ peers'[x] = peers[x]
  BY <1>1, <1>3 DEF TypeOK
<1>7. ~Arriving(d)
  <2>1. ~Free(down[d], ServerMessage \ Starts)
    BY <1>3, FreeTail DEF Starts
  <2> QED
    BY <2>1 DEF Meetings, Connection
<1>8. ASSUME e # d PROVE Pair(d, e)' /\ Pair(e, d)'
  <2>1. e \in Others(d) /\ Pair(d, e) /\ Pair(e, d)
    BY <1>3, <1>8, PairOf DEF Others
  <2>2. Same(e, d)
    BY <1>1, <1>3, <1>6, <1>8, SameElsewhere
  <2>3. e \notin Known(d)' /\ (Describes(d, e)' => Describes(d, e))
    <3>1. peers'[d][e] = None /\ sessions'[d][e] = Closing(d, gone)[e]
      BY <1>3, <1>6
    <3> QED
      BY <1>3, <3>1, ClosingDescribes DEF Known
  <2>4. ~Meeting(d, e)
    <3> SUFFICES ASSUME Setup(d, e) \/ Setup(e, d) PROVE FALSE
      BY <2>1 DEF Pair
    <3>1. Free(down[d], Leaves(e) \union Joins(e)) \/ Free(down[d], Leaves(e) \union Calls(e))
      BY DEF Setup, Told
    <3> QED
      BY <1>5, <3>1, FreeWithin
  <2>5. Arriving(e) => link[d] # "connected"
    BY <1>5, <2>1 DEF Pair, Arrival
  <2>6. Head(down[d]) \in Leaves(e) \union Ends /\ up'[d] = up[d]
    BY <1>1, <1>4
  <2>7. (Fresh(d)' => Fresh(d)) /\ (Fresh(e)' => Fresh(e))
    BY <1>2, <1>3
  <2> QED
    BY <1>1, <1>3, <1>7, <1>8, <2>1, <2>2, <2>3, <2>4, <2>5, <2>6, <2>7, PairDropped
<1>9. ASSUME NEW y \in Device, y # e PROVE Same(d, y)
  <2>1. sessions'[d][y] = sessions[d][y]
    BY <1>0, <1>6, <1>9, ClosingReports
  <2>2. Alike(down'[d], down[d], About(y))
    BY <1>1, <1>4, <1>9, HandledFrame
  <2> QED
    BY <1>1, <1>6, <1>9, <2>1, <2>2, AlikeSame DEF Same
<1>10. \A x \in Device : \A y \in Others(x) : Pair(x, y)'
  <2> SUFFICES ASSUME NEW x \in Device, NEW y \in Others(x)
               PROVE  (Same(x, y) /\ Same(y, x)) \/ Pair(x, y)'
    BY <1>1, <1>2, Pairs
  <2>1. \A z \in Device, w \in Device : z # d => Same(z, w)
    BY <1>1, <1>3, <1>6, SameElsewhere
  <2>2. CASE (x = d /\ y = e) \/ (x = e /\ y = d)
    <3>1. e # d
      BY <2>2 DEF Others
    <3>2. Pair(d, e)' /\ Pair(e, d)'
      BY <1>8, <3>1
    <3>3. CASE x = d /\ y = e
      BY <3>2, <3>3
    <3>4. CASE x = e /\ y = d
      BY <3>2, <3>4
    <3> QED
      BY <2>2, <3>3, <3>4
  <2>3. CASE ~((x = d /\ y = e) \/ (x = e /\ y = d))
    BY <1>9, <2>1, <2>3 DEF Others
  <2> QED
    BY <2>2, <2>3
<1> QED
  BY <1>1, <1>2, <1>10, SameFailures DEF Meetings

LEMMA IdentityMeets ==
  ASSUME TypeOK, Meetings, NEW d \in Device, HandleIdentity(d)
  PROVE  Meetings'
<1>1. PICK join \in ClientMessage : join = [type |-> "JoinIpRoom"]
  BY ClientMessages
<1>2. /\ Inner /\ UNCHANGED <<peers, sessions, held, secretFor, budget>>
      /\ Arrives(d, "Identity") /\ Handled(d)
      /\ Send(d, <<join>> \o <<>>)
  BY <1>1 DEF HandleIdentity, engine, task, server, Inner, Meetings, HomeOnly
<1>3. /\ down[d] # <<>> /\ down'[d] = Tail(down[d]) /\ down[d] \in Seq(ServerMessage)
      /\ \A x \in Device : x # d => down'[x] = down[x]
      /\ Head(down[d]) \in ServerMessage /\ Head(down[d]).type = "Identity"
  BY <1>2, HandledFrame
<1>4. Head(down[d]) \in Starts /\ \A y : Head(down[d]) \notin About(y)
  BY <1>3 DEF Starts, About, Calls, Joins, Leaves, From, Ends
<1>5. /\ up'[d] = Append(up[d], join) /\ up[d] \in Seq(ClientMessage)
      /\ \A x \in Device : x # d => up'[x] = up[x]
  <2>1. up[d] \o (<<join>> \o <<>>) = Append(up[d], join) /\ up[d] \in Seq(ClientMessage)
    BY DEF TypeOK
  <2> QED
    BY <1>2, <2>1 DEF Send, TypeOK
<1>6. join \in Joining /\ \A y : join \notin To(y)
  BY <1>1 DEF Joining, To
<1>7. Connection(d) /\ Fresh(d)
  BY <1>3, <1>4, FreeTail DEF Meetings, Fresh
<1>8. Free(up[d], Joining) /\ link[d] # "connecting" /\ (link[d] = "waiting" => up[d] = <<>>)
  BY <1>3, <1>4, <1>7, FreeTail DEF Connection
<1>9. Connection(d)'
  <2>1. Free(down'[d], Starts)
    <3> SUFFICES ASSUME NEW i \in DOMAIN down'[d], down'[d][i] \in Starts PROVE FALSE
      BY DEF Free
    <3>1. i \in Nat /\ i # 0 /\ i + 1 \in DOMAIN down[d] /\ down[d][i + 1] \in Starts
      BY <1>3, Shortened
    <3>2. i + 1 = 1
      BY <1>7, <3>1 DEF Connection
    <3> QED
      BY <3>1, <3>2
  <2>2. \A S : Free(down[d], S) => Free(down'[d], S)
    BY <1>3, FreeTail
  <2>3. link'[d] = link[d] /\ (Inside(d)' <=> Inside(d)) /\ (Arriving(d)' <=> Arriving(d))
    BY <1>2, InnerKept DEF Inner
  <2>4. \A i \in DOMAIN up'[d] : up'[d][i] \in Joining => i = Len(up'[d])
    BY <1>5, <1>8, Appended DEF Free
  <2>5. link'[d] = "waiting" => Len(up'[d]) = 1
    BY <1>5, <1>8, <2>3
  <2>6. ~Inside(d)'
    BY <1>7, <2>3 DEF Connection
  <2>7. \A i \in DOMAIN down'[d] : down'[d][i] \in Starts => i = 1
    BY <2>1 DEF Free
  <2> QED
    BY <1>7, <1>8, <2>1, <2>2, <2>3, <2>4, <2>5, <2>6, <2>7 DEF Connection
<1>10. ASSUME NEW x \in Device PROVE HomeOnly(x)' /\ Connection(x)' /\ (Fresh(x)' => Fresh(x))
  <2>1. HomeOnly(x) /\ Connection(x) /\ (Inside(x)' <=> Inside(x)) /\ link'[x] = link[x]
    BY <1>2, InnerKept DEF Meetings, Inner
  <2>2. Connection(x)' /\ (Fresh(x)' => Fresh(x))
    <3>1. CASE x = d
      BY <1>7, <1>9, <3>1
    <3>2. CASE x # d
      BY <1>3, <1>5, <2>1, <3>2, ConnectionSame
    <3> QED
      BY <3>1, <3>2
  <2>3. \A S : Free(down[x], S) => Free(down'[x], S)
    BY <1>3, FreeTail
  <2>4. Free(up[x], ClientMessage \ Local(x)) => Free(up'[x], ClientMessage \ Local(x))
    <3>1. join \notin ClientMessage \ Local(x)
      BY <1>1, <1>6 DEF Local
    <3>2. CASE x = d
      <4>1. Free(up[d], ClientMessage \ Local(d)) => Free(Append(up[d], join), ClientMessage \ Local(d))
        BY <1>5, <3>1, <3>2, FreeAppend
      <4> QED
        BY <1>5, <3>2, <4>1
    <3>3. CASE x # d
      BY <1>5, <3>3
    <3> QED
      BY <3>2, <3>3
  <2>5. Local(x)' = Local(x)
    BY <1>2 DEF Local, Inner
  <2>6. HomeOnly(x)'
    BY <1>2, <2>1, <2>3, <2>4, <2>5 DEF HomeOnly, Inner
  <2> QED
    BY <2>2, <2>6
<1>11. \A x \in Device : \A y \in Others(x) : Pair(x, y)'
  <2> SUFFICES ASSUME NEW x \in Device, NEW y \in Device PROVE Same(x, y)
    BY <1>2, <1>10, Pairs DEF Others
  <2>1. Alike(down'[x], down[x], About(y))
    BY <1>3, <1>4, AlikeTail, AlikeSame
  <2>2. Alike(up'[x], up[x], To(y))
    BY <1>5, <1>6, AlikeAppend, AlikeSame
  <2> QED
    BY <1>2, <2>1, <2>2 DEF Same
<1> QED
  BY <1>2, <1>10, <1>11, SameFailures DEF Meetings

-----------------------------------------------------------------------------
(* Two devices in a room set their call up.                                *)

LEMMA FirstFreeWithin ==
  ASSUME NEW q, NEW S, NEW T, NEW U \in SUBSET T, FirstFree(q, S, T)
  PROVE  FirstFree(q, S, U)
BY DEF FirstFree

\* A session of its own, as it is kept.
LEMMA CurrentType ==
  ASSUME TypeOK, NEW x \in Device, NEW y \in Device, y \in Known(x)
  PROVE  /\ peers[x][y] \in Peer /\ peers[x][y].session \in DOMAIN sessions[x][y]
         /\ peers[x][y].session \in Nat \ {0} /\ peers[x][y].connected \in BOOLEAN
         /\ sessions[x][y] \in Seq(Session)
         /\ Current(x, y) = sessions[x][y][peers[x][y].session]
         /\ Current(x, y) \in Session /\ Current(x, y).reports \in Seq(Report)
         /\ Current(x, y).remote \in Nat /\ Current(x, y).caller \in BOOLEAN
<1>1. peers[x][y] \in Peer /\ sessions[x][y] \in Seq(Session)
  BY DEF TypeOK, Known
<1>2. peers[x][y].session \in DOMAIN sessions[x][y]
  BY DEF TypeOK
<1>3. Current(x, y) \in Session
  BY <1>1, <1>2 DEF Current
<1> QED
  BY <1>1, <1>2, <1>3 DEF Current, Peer, Session

\* Nothing has been told to k about the sessions of a device that does not keep k.
LEMMA Untold ==
  ASSUME NEW c \in Device, NEW k \in Device, Setup(c, k), k \notin Known(c)
  PROVE  /\ Free(up[c], To(k)) /\ Free(up[k], To(c)) /\ Free(down[c], From(k))
         /\ c \in Known(k) => Free(down[k], From(c)) /\ Current(k, c).remote = 0
         /\ c \notin Known(k) => FirstFree(down[k], Joins(c), From(c))
<1>1. OffersUp(c, k) = {} /\ OffersDown(c, k) = {} /\ ~Taken(c, k)
  BY DEF OffersUp, OffersDown, Taken
<1>2. AnswersUp(c, k) = {} /\ AnswersDown(c, k) = {}
  BY <1>1 DEF AnswersUp, AnswersDown
<1>3. From(c) \ OffersDown(c, k) = From(c) /\ To(k) \ OffersUp(c, k) = To(k)
      /\ To(c) \ AnswersUp(c, k) = To(c) /\ From(k) \ AnswersDown(c, k) = From(k)
  BY <1>1, <1>2
<1>4. Told(c, k) /\ Answered(c, k)
  BY DEF Setup
<1>5. /\ Free(up[c], To(k)) /\ Free(up[k], To(c)) /\ Free(down[c], From(k))
      /\ c \in Known(k) => Free(down[k], From(c))
      /\ c \notin Known(k) => FirstFree(down[k], Joins(c), From(c))
  BY <1>3, <1>4 DEF Told
<1> QED
  BY <1>1, <1>4, <1>5 DEF Answered

\* Nor has an answer been given by a device that does not keep c.
LEMMA Unanswered ==
  ASSUME NEW c \in Device, NEW k \in Device, Setup(c, k), c \notin Known(k)
  PROVE  /\ Free(up[k], To(c)) /\ Free(down[c], From(k))
         /\ k \in Known(c) => Current(c, k).remote = 0
<1>1. AnswersUp(c, k) = {} /\ AnswersDown(c, k) = {} /\ ~Taken(c, k)
  BY DEF AnswersUp, AnswersDown, Taken
<1>2. To(c) \ AnswersUp(c, k) = To(c) /\ From(k) \ AnswersDown(c, k) = From(k)
  BY <1>1
<1>3. Told(c, k) /\ Agreed(c, k)
  BY DEF Setup
<1> QED
  BY <1>1, <1>2, <1>3 DEF Told, Agreed

LEMMA NewSessions ==
  /\ NewSession(TRUE).caller = TRUE /\ NewSession(FALSE).caller = FALSE
  /\ \A caller \in BOOLEAN : /\ NewSession(caller) \in Session
                             /\ NewSession(caller).state = "new" /\ NewSession(caller).remote = 0
                             /\ Free(NewSession(caller).reports, {"Failed", "Closed"})
  /\ ~Free(NewSession(TRUE).reports, {"LocalDescription"})
  /\ NewSession(FALSE).reports = <<>>
<1>1. ~Free(<<"LocalDescription">>, {"LocalDescription"})
  BY DEF Free
<1>2. Free(<<"LocalDescription">>, {"Failed", "Closed"}) /\ Free(<<>>, {"Failed", "Closed"})
  BY DEF Free
<1>3. ASSUME NEW caller \in BOOLEAN
      PROVE  /\ NewSession(caller) \in Session /\ NewSession(caller).caller = caller
             /\ NewSession(caller).state = "new" /\ NewSession(caller).remote = 0
             /\ NewSession(caller).reports = IF caller THEN <<"LocalDescription">> ELSE <<>>
  <2> DEFINE reports == IF caller THEN <<"LocalDescription">> ELSE <<>>
  <2>1. reports \in Seq(Report)
    <3>1. "LocalDescription" \in Report
      BY DEF Report
    <3> QED
      BY <3>1, Sequences
  <2>2. NewSession(caller) = [caller |-> caller, remote |-> 0, state |-> "new", reports |-> reports]
    BY DEF NewSession
  <2>3. NewSession(caller).reports = reports
    BY <2>2
  <2> HIDE DEF reports
  <2>4. NewSession(caller) \in Session
    BY <2>1, <2>2 DEF Session
  <2> QED
    BY <2>2, <2>3, <2>4 DEF reports
<1>4. ASSUME NEW caller \in BOOLEAN PROVE Free(NewSession(caller).reports, {"Failed", "Closed"})
  BY <1>2, <1>3
<1>5. /\ NewSession(TRUE).reports = <<"LocalDescription">> /\ NewSession(FALSE).reports = <<>>
      /\ NewSession(TRUE).caller = TRUE /\ NewSession(FALSE).caller = FALSE
  BY <1>3
<1> QED
  BY <1>1, <1>3, <1>4, <1>5

\* x dials y, which it does not keep.
LEMMA Dialled ==
  ASSUME TypeOK, NEW x \in Device, NEW y \in Device, NEW caller \in BOOLEAN, y \notin Known(x),
         Silent(x, y), sessions'[x][y] = Append(sessions[x][y], NewSession(caller)),
         peers'[x][y] # None, peers'[x][y].session = Len(sessions[x][y]) + 1
  PROVE  y \in Known(x)' /\ Current(x, y)' = NewSession(caller) /\ Silent(x, y)'
<1>1. y \in Known(x)'
  BY DEF Known
<1>2. NewSession(caller) \in Session /\ sessions[x][y] \in Seq(Session)
  BY NewSessions DEF TypeOK
<1>3. Current(x, y)' = NewSession(caller)
  BY <1>2, Appended DEF Current
<1>4. \A n \in DOMAIN sessions'[x][y] :
        n = Len(sessions[x][y]) + 1 \/ sessions'[x][y][n].reports = <<>>
  BY <1>2, Appended DEF Silent
<1> QED
  BY <1>1, <1>3, <1>4 DEF Silent

LEMMA CallerMeets ==
  ASSUME TypeOK, NEW c \in Device, NEW k \in Device, Setup(c, k), Same(k, c),
         down[c] # <<>>, Head(down[c]) \in Calls(k), down'[c] = Tail(down[c]), up'[c] = up[c],
         k \notin Known(c), sessions'[c][k] = Append(sessions[c][k], NewSession(TRUE)),
         peers'[c][k] # None, peers'[c][k].session = Len(sessions[c][k]) + 1
  PROVE  Setup(c, k)'
<1>1. down[c] \in Seq(ServerMessage)
  BY DEF TypeOK
<1>2. \A S : Free(down[c], S) => Free(down'[c], S)
  BY <1>1, FreeTail
<1>3. k \in Known(c)' /\ Current(c, k)' = NewSession(TRUE) /\ Silent(c, k)'
  BY Dialled DEF Setup
<1>4. /\ c \in Known(k)' <=> c \in Known(k)
      /\ Current(k, c)' = Current(k, c)
      /\ Silent(k, c)' <=> Silent(k, c)
      /\ peers'[k][c] = peers[k][c]
  BY SameKept DEF Same
<1>5. /\ Alike(down'[k], down[k], About(c)) /\ Alike(up'[k], up[k], To(c))
  BY DEF Same
<1>6. Alive(c, k, TRUE)' /\ Alive(k, c, FALSE)'
  <2>1. Alive(c, k, TRUE)'
    BY <1>3, NewSessions DEF Alive
  <2> QED
    BY <1>4, <2>1 DEF Setup, Alive
<1>7. Told(c, k)'
  <2>1. Told(c, k)
    BY DEF Setup
  <2>2. Free(down'[c], Leaves(k) \union Joins(k)) /\ Free(down'[k], Leaves(c) \union Calls(c))
    BY <1>2, <1>5, <2>1, AlikeUse, Kinds DEF Told
  <2>3. c \in Known(k)' => Free(down'[k], From(c) \ OffersDown(c, k)')
    <3>1. c \in Known(k) => Free(down'[k], From(c))
      BY <1>5, Untold, AlikeUse, Kinds
    <3> QED
      BY <1>4, <3>1, FreeWithin
  <2>4. c \notin Known(k)' => FirstFree(down'[k], Joins(c), From(c) \ OffersDown(c, k)')
    <3>1. c \notin Known(k) => FirstFree(down'[k], Joins(c), From(c))
      BY <1>5, Untold, AlikeUse, Kinds
    <3> QED
      BY <1>4, <3>1, FirstFreeWithin
  <2>5. Free(up'[c], To(k)) /\ Free(up'[k], To(c)) /\ Free(down'[c], From(k))
    BY <1>2, <1>5, Untold, AlikeUse, Kinds
  <2>6. /\ Free(up'[c], To(k) \ OffersUp(c, k)')
        /\ Free(up'[k], To(c) \ AnswersUp(c, k)')
        /\ Free(down'[c], From(k) \ AnswersDown(c, k)')
    BY <2>5, FreeWithin
  <2> QED
    BY <1>3, <2>2, <2>3, <2>4, <2>6 DEF Told
<1>8. Offered(c, k)'
  BY <1>3, NewSessions DEF Offered
<1>9. Answered(c, k)'
  BY <1>4, Untold DEF Setup, Answered
<1>10. Agreed(c, k)'
  <2>1. Current(c, k)'.remote = 0 /\ Current(c, k)'.state = "new"
    BY <1>3, NewSessions
  <2>2. c \in Known(k)' => Current(k, c)'.state # "open"
    BY <1>4, Untold DEF Setup, Alive
  <2> QED
    BY <2>1, <2>2 DEF Agreed
<1> QED
  BY <1>3, <1>4, <1>6, <1>7, <1>8, <1>9, <1>10 DEF Setup

LEMMA CalleeMeets ==
  ASSUME TypeOK, NEW c \in Device, NEW k \in Device, Setup(c, k), Same(c, k),
         down[k] # <<>>, Head(down[k]) \in Joins(c), down'[k] = Tail(down[k]), up'[k] = up[k],
         c \notin Known(k), sessions'[k][c] = Append(sessions[k][c], NewSession(FALSE)),
         peers'[k][c] # None, peers'[k][c].session = Len(sessions[k][c]) + 1
  PROVE  Setup(c, k)'
<1>1. down[k] \in Seq(ServerMessage)
  BY DEF TypeOK
<1>2. \A S : Free(down[k], S) => Free(down'[k], S)
  BY <1>1, FreeTail
<1>3. c \in Known(k)' /\ Current(k, c)' = NewSession(FALSE) /\ Silent(k, c)'
  BY Dialled DEF Setup
<1>4. /\ k \in Known(c)' <=> k \in Known(c)
      /\ Current(c, k)' = Current(c, k)
      /\ Silent(c, k)' <=> Silent(c, k)
      /\ peers'[c][k] = peers[c][k] /\ peers'[c][k].session = peers[c][k].session
  BY SameKept DEF Same
<1>5. /\ Alike(down'[c], down[c], About(k)) /\ Alike(up'[c], up[c], To(k))
  BY DEF Same
<1>6. OffersUp(c, k)' = OffersUp(c, k) /\ OffersDown(c, k)' = OffersDown(c, k)
  BY <1>4 DEF OffersUp, OffersDown
<1>7. k \in Known(c) => Current(c, k).remote = 0 /\ Current(c, k).state # "open"
  BY Unanswered DEF Setup, Alive
<1>8. Alive(c, k, TRUE)' /\ Alive(k, c, FALSE)'
  <2>1. Alive(k, c, FALSE)'
    BY <1>3, NewSessions DEF Alive
  <2> QED
    BY <1>4, <2>1 DEF Setup, Alive
<1>9. Told(c, k)'
  <2>1. Told(c, k)
    BY DEF Setup
  <2>2. Free(down'[c], Leaves(k) \union Joins(k)) /\ Free(down'[k], Leaves(c) \union Calls(c))
    BY <1>2, <1>5, <2>1, AlikeUse, Kinds, ZenonT(60) DEF Told
  <2>3. k \in Known(c)' \/ ~Free(down'[c], Calls(k))
    BY <1>4, <1>5, <2>1, AlikeUse, Kinds DEF Told
  <2>4. Free(down'[k], From(c) \ OffersDown(c, k)')
    <3>1. FirstFree(down[k], Joins(c), From(c) \ OffersDown(c, k))
      BY <2>1 DEF Told
    <3> QED
      BY <1>1, <1>6, <3>1, FirstFreeTail
  <2>5. /\ Free(up'[c], To(k) \ OffersUp(c, k)')
        /\ Free(up'[k], To(c) \ AnswersUp(c, k)')
        /\ Free(down'[c], From(k) \ AnswersDown(c, k)')
    <3>1. Free(up'[c], To(k) \ OffersUp(c, k))
      <4>1. Free(up[c], To(k) \ OffersUp(c, k))
        BY <2>1 DEF Told
      <4>2. To(k) \ OffersUp(c, k) \in SUBSET To(k)
        OBVIOUS
      <4> QED
        BY <1>5, <4>1, <4>2, AlikeUse
    <3>2. Free(up'[k], To(c)) /\ Free(down'[c], From(k))
      BY <1>5, Unanswered, AlikeUse, Kinds
    <3> QED
      BY <1>6, <3>1, <3>2, FreeWithin
  <2> QED
    BY <1>3, <2>2, <2>3, <2>4, <2>5 DEF Told
<1>10. Offered(c, k)'
  <2> SUFFICES ASSUME k \in Known(c), Free(Current(c, k).reports, {"LocalDescription"}),
                      Free(up[c], To(k))
               PROVE  ~Free(down'[k], From(c))
    <3>1. Free(up'[c], To(k)) <=> Free(up[c], To(k))
      BY <1>5, AlikeUse, Kinds
    <3> QED
      BY <1>3, <1>4, <3>1 DEF Offered
  <2>1. Follows(down[k], Joins(c), From(c))
    BY <1>7 DEF Setup, Offered
  <2>2. CASE ~Free(Tail(down[k]), From(c))
    BY <2>2
  <2>3. CASE Follows(Tail(down[k]), Joins(c), From(c))
    BY <2>3 DEF Follows, Free
  <2> QED
    BY <1>1, <2>1, <2>2, <2>3, FollowsTail
<1>11. Answered(c, k)'
  BY <1>3, NewSessions, FreeEmpty DEF Answered
<1>12. Agreed(c, k)'
  BY <1>3, <1>4, <1>7, NewSessions DEF Agreed
<1> QED
  BY <1>3, <1>4, <1>8, <1>9, <1>10, <1>11, <1>12 DEF Setup

\* An introduction to a device that is kept already changes nothing.
LEMMA Reintroduced ==
  ASSUME TypeOK, NEW d \in Device, NEW e \in Device, Same(e, d), Setup(d, e) \/ Setup(e, d),
         down[d] # <<>>, Head(down[d]) \in Calls(e) \union Joins(e), down'[d] = Tail(down[d]),
         up'[d] = up[d], e \in Known(d), sessions'[d][e] = sessions[d][e],
         peers'[d][e] = peers[d][e]
  PROVE  Setup(d, e)' \/ Setup(e, d)'
<1>1. /\ sessions'[e][d] = sessions[e][d] /\ peers'[e][d] = peers[e][d]
      /\ Alike(down'[e], down[e], About(d)) /\ Alike(up'[e], up[e], To(d))
      /\ Alike(up'[d], up[d], To(e))
  BY AlikeSame DEF Same
<1>2. \A S \in SUBSET About(d) : Free(down'[e], S) <=> Free(down[e], S)
  BY <1>1, AlikeUse
<1>3. /\ \A S : Free(down[d], S) => Free(down'[d], S)
      /\ Free(down'[d], From(e)) => Free(down[d], From(e))
  <2>1. Head(down[d]) \notin From(e) /\ down[d] \in Seq(ServerMessage)
    BY DEF Calls, Joins, From, TypeOK
  <2> QED
    BY <2>1, FreeTail
<1>4. /\ Free(down'[e], From(d)) <=> Free(down[e], From(d))
      /\ Free(down'[e], Calls(d)) <=> Free(down[e], Calls(d))
      /\ Follows(down'[e], Joins(d), From(d)) <=> Follows(down[e], Joins(d), From(d))
      /\ \A S : FirstFree(down'[e], Joins(d), From(d) \ S) <=>
                FirstFree(down[e], Joins(d), From(d) \ S)
  BY <1>1, AlikeUse, Kinds
<1>5. CASE Setup(d, e)
  BY <1>1, <1>2, <1>3, <1>4, <1>5, SetupKept
<1>6. CASE Setup(e, d)
  BY <1>1, <1>2, <1>3, <1>4, <1>6, SetupKept
<1> QED
  BY <1>5, <1>6

\* What the frame that comes first means to two devices, one of which is told of the other.
LEMMA Introduced ==
  ASSUME TypeOK, Meetings, NEW d \in Device, NEW e \in Device, d # e, down[d] # <<>>,
         Head(down[d]) \in Calls(e) \union Joins(e)
  PROVE  /\ ~Arriving(d) /\ ~Arriving(e) /\ ~Fresh(d)
         /\ ~Meeting(d, e) => LastFree(Tail(down[d]), Leaves(e) \union Ends, Calls(e) \union Joins(e))
                              \/ e \in Known(d)
         /\ Head(down[d]) \in Calls(e) => ~Setup(e, d)
         /\ Head(down[d]) \in Joins(e) => ~Setup(d, e)
<1>1. down[d] \in Seq(ServerMessage) /\ Pair(d, e) /\ Pair(e, d) /\ Connection(d)
  BY PairOf DEF TypeOK
<1>2. ~Free(down[d], Calls(e) \union Joins(e))
  BY <1>1, FreeTail
<1>3. Head(down[d]) \in ServerMessage \ Starts
  BY DEF Calls, Joins, Starts
<1>4. ~Free(down[d], ServerMessage \ Starts)
  BY <1>1, <1>3, FreeTail
<1>5. Head(down[d]) \notin Leaves(e) \union Ends
  BY DEF Calls, Joins, Leaves, Ends
<1>6. ~Meeting(d, e) => LastFree(Tail(down[d]), Leaves(e) \union Ends, Calls(e) \union Joins(e))
  <2>1. ~Meeting(d, e) => LastFree(down[d], Leaves(e) \union Ends, Calls(e) \union Joins(e))
    BY <1>1, <1>2 DEF Pair, Gone
  <2> QED
    BY <1>1, <1>5, <2>1, LastFreeTail
<1>7. ASSUME Head(down[d]) \in Calls(e), Setup(e, d) PROVE FALSE
  <2>1. Free(down[d], Leaves(e) \union Calls(e))
    BY <1>7 DEF Setup, Told
  <2> QED
    BY <1>1, <1>7, <2>1, FreeTail
<1>8. ASSUME Head(down[d]) \in Joins(e), Setup(d, e) PROVE FALSE
  <2>1. Free(down[d], Leaves(e) \union Joins(e))
    BY <1>8 DEF Setup, Told
  <2> QED
    BY <1>1, <1>8, <2>1, FreeTail
<1> QED
  BY <1>1, <1>2, <1>4, <1>6, <1>7, <1>8 DEF Pair, Arrival, Newcomer, Connection

LEMMA DialEffect ==
  ASSUME TypeOK, NoFailures, NEW d \in Device, NEW called \in SUBSET Device,
         NEW caller \in BOOLEAN, NEW room \in Ip, Dial(d, called, caller, room)
  PROVE  /\ NoFailures' /\ secretFor' = secretFor
         /\ \A x \in Device : x # d => sessions'[x] = sessions[x] /\ peers'[x] = peers[x]
         /\ \A e \in Device : e \notin called =>
              sessions'[d][e] = sessions[d][e] /\ peers'[d][e] = peers[d][e]
         /\ \A e \in called : /\ sessions'[d][e] = Append(sessions[d][e], NewSession(caller))
                              /\ peers'[d][e] # None
                              /\ peers'[d][e].session = Len(sessions[d][e]) + 1
<1>1. PICK reached \in SUBSET called :
        /\ Spend(IF reached = called THEN {} ELSE {"dialFailure"})
        /\ sessions' = [sessions EXCEPT ![d] = [e \in Device |->
             IF e \in reached THEN Append(@[e], NewSession(caller)) ELSE @[e]]]
        /\ peers' = [peers EXCEPT ![d] = [e \in Device |->
             IF e \in reached THEN NewPeer(d, e, room) ELSE @[e]]]
        /\ secretFor' = [secretFor EXCEPT ![d] = [e \in Device |->
             IF e \in reached /\ room \in Secret THEN room ELSE @[e]]]
  BY Zenon DEF Dial
<1>2. reached = called
  <2> SUFFICES ASSUME reached # called PROVE FALSE
    OBVIOUS
  <2>1. Spend({"dialFailure"})
    BY <1>1
  <2> QED
    BY <2>1, NoneFail
<1>3. NoFailures'
  BY <1>1, NoneFail
<1>4. room \in Room /\ room \notin Secret
  BY RoomAssumption DEF Room
<1>5. secretFor' = secretFor
  <2>1. secretFor' = [secretFor EXCEPT ![d] = [e \in Device |-> secretFor[d][e]]]
    BY <1>1, <1>4
  <2> QED
    BY <2>1 DEF TypeOK
<1>6. \A e \in called : NewPeer(d, e, room) # None /\ NewPeer(d, e, room).session = Len(sessions[d][e]) + 1
  BY <1>4, NewTypes, NoneAssumption DEF NewPeer
<1> QED
  BY <1>1, <1>2, <1>3, <1>5, <1>6 DEF TypeOK

\* One of these devices is introduced to d.
LEMMA DialMeets ==
  ASSUME TypeOK, Meetings, NEW d \in Device, NEW type, NEW introduced \in SUBSET Device,
         NEW caller \in BOOLEAN, NEW room \in Ip,
         Arrives(d, type), Handled(d), Dial(d, introduced \ Known(d), caller, room),
         UNCHANGED <<held, trusted, task, up, server>>,
         \A e \in Device : e \notin introduced => Head(down[d]) \notin About(e),
         \A e \in introduced : IF caller THEN Head(down[d]) \in Calls(e)
                                         ELSE Head(down[d]) \in Joins(e)
  PROVE  Meetings'
<1>1. Inner /\ NoFailures
  BY DEF Inner, task, server, Meetings
<1>2. /\ down[d] # <<>> /\ down'[d] = Tail(down[d]) /\ down[d] \in Seq(ServerMessage)
      /\ \A x \in Device : x # d => down'[x] = down[x]
      /\ \A y : Head(down[d]) \notin About(y) => Alike(down'[d], down[d], About(y))
  BY HandledFrame
<1>3. /\ NoFailures' /\ secretFor' = secretFor
      /\ \A x \in Device : x # d => sessions'[x] = sessions[x] /\ peers'[x] = peers[x]
      /\ \A e \in Device : e \notin introduced \ Known(d) =>
           sessions'[d][e] = sessions[d][e] /\ peers'[d][e] = peers[d][e]
      /\ \A e \in introduced \ Known(d) :
           /\ sessions'[d][e] = Append(sessions[d][e], NewSession(caller))
           /\ peers'[d][e] # None
           /\ peers'[d][e].session = Len(sessions[d][e]) + 1
  <2>1. introduced \ Known(d) \in SUBSET Device
    OBVIOUS
  <2> QED
    BY <1>1, <2>1, DialEffect
<1>4. \A x \in Device : HomeOnly(x)' /\ Connection(x)' /\ (Fresh(x)' => Fresh(x))
  BY <1>1, <1>3, HandlerRest
<1>5. \A x \in Device, y \in Device : x # d => Same(x, y)
  BY <1>2, <1>3, SameElsewhere
<1>6. ASSUME NEW e \in introduced, e # d PROVE Pair(d, e)' /\ Pair(e, d)'
  <2>1. e \in Device /\ Pair(d, e) /\ Pair(e, d) /\ Same(e, d)
    BY <1>5, <1>6, PairOf
  <2>2. Head(down[d]) \in Calls(e) \union Joins(e)
    OBVIOUS
  <2>3. ~Arriving(d) /\ ~Arriving(e) /\ ~Fresh(d)
    BY <1>2, <1>6, <2>1, <2>2, Introduced
  <2>4. Newcomer(d, e)'
    BY <1>4, <2>3 DEF Newcomer
  <2>5. ~Meeting(d, e) => Gone(d, e)'
    <3> SUFFICES ASSUME ~Meeting(d, e)
                 PROVE  LastFree(Tail(down[d]), Leaves(e) \union Ends, Calls(e) \union Joins(e))
      BY <1>2 DEF Gone
    <3>1. Head(down[d]) \notin Leaves(e) \union Ends
      BY <2>2 DEF Calls, Joins, Leaves, Ends
    <3>2. LastFree(down[d], Leaves(e) \union Ends, Calls(e) \union Joins(e))
      <4>1. ~Free(down[d], Calls(e) \union Joins(e))
        BY <1>2, <2>2, FreeTail
      <4> QED
        BY <2>1, <4>1 DEF Pair, Gone
    <3> QED
      BY <1>2, <3>1, <3>2, LastFreeTail
  <2>6. ASSUME Meeting(d, e) PROVE Setup(d, e)' \/ Setup(e, d)'
    <3>1. Setup(d, e) \/ Setup(e, d)
      BY <2>1, <2>6 DEF Pair
    <3>2. CASE e \in Known(d)
      <4>1. sessions'[d][e] = sessions[d][e] /\ peers'[d][e] = peers[d][e]
        BY <1>3, <2>1, <3>2
      <4> QED
        BY <1>2, <2>1, <2>2, <3>1, <3>2, <4>1, Reintroduced
    <3>3. CASE e \notin Known(d)
      <4>1. /\ sessions'[d][e] = Append(sessions[d][e], NewSession(caller))
            /\ peers'[d][e] # None /\ peers'[d][e].session = Len(sessions[d][e]) + 1
            /\ up'[d] = up[d]
        BY <1>3, <3>3
      <4>2. CASE caller
        <5>1. Head(down[d]) \in Calls(e) /\ caller = TRUE
          BY <4>2
        <5>2. Setup(d, e)
          BY <1>2, <1>6, <2>1, <2>2, <3>1, <5>1, Introduced
        <5>3. sessions'[d][e] = Append(sessions[d][e], NewSession(TRUE))
          BY <4>1, <5>1
        <5> QED
          BY <1>2, <2>1, <3>3, <4>1, <5>1, <5>2, <5>3, CallerMeets
      <4>3. CASE ~caller
        <5>1. Head(down[d]) \in Joins(e) /\ caller = FALSE
          BY <4>3
        <5>2. Setup(e, d)
          BY <1>2, <1>6, <2>1, <2>2, <3>1, <5>1, Introduced
        <5>3. sessions'[d][e] = Append(sessions[d][e], NewSession(FALSE))
          BY <4>1, <5>1
        <5> QED
          BY <1>2, <2>1, <3>3, <4>1, <5>1, <5>2, <5>3, CalleeMeets
      <4> QED
        BY <4>2, <4>3
    <3> QED
      BY <3>2, <3>3
  <2> QED
    BY <1>1, <1>4, <2>1, <2>3, <2>4, <2>5, <2>6, PairTouched
<1>7. ASSUME NEW y \in Device, y \notin introduced PROVE Same(d, y)
  <2>1. sessions'[d][y] = sessions[d][y] /\ peers'[d][y] = peers[d][y]
    BY <1>3, <1>7
  <2>2. Alike(down'[d], down[d], About(y)) /\ Alike(up'[d], up[d], To(y))
    BY <1>2, <1>7, AlikeSame
  <2> QED
    BY <2>1, <2>2 DEF Same
<1>8. \A x \in Device : \A y \in Others(x) : Pair(x, y)'
  <2> SUFFICES ASSUME NEW x \in Device, NEW y \in Others(x)
               PROVE  (Same(x, y) /\ Same(y, x)) \/ Pair(x, y)'
    BY <1>1, <1>4, Pairs
  <2>1. CASE x = d /\ y \in introduced
    BY <1>6, <2>1 DEF Others
  <2>2. CASE y = d /\ x \in introduced
    BY <1>6, <2>2 DEF Others
  <2>3. CASE ~(x = d /\ y \in introduced) /\ ~(y = d /\ x \in introduced)
    BY <1>5, <1>7, <2>3 DEF Others
  <2> QED
    BY <2>1, <2>2, <2>3
<1> QED
  BY <1>3, <1>4, <1>8 DEF Meetings

LEMMA UsualFrame ==
  ASSUME TypeOK, Meetings, NEW d \in Device, down[d] # <<>>
  PROVE  Head(down[d]) \in Usual
<1>1. down[d] \in Seq(ServerMessage) /\ Free(down[d], ServerMessage \ Usual)
  BY DEF TypeOK, Meetings, HomeOnly
<1>2. Head(down[d]) \in ServerMessage
  BY <1>1
<1> QED
  BY <1>1, <1>2, FreeTail

LEMMA PeersMeets ==
  ASSUME TypeOK, Meetings, NEW d \in Device, HandlePeers(d)
  PROVE  Meetings'
<1>1. /\ Arrives(d, "Peers") /\ Handled(d) /\ UNCHANGED <<held, trusted, task, up, server>>
      /\ Dial(d, Head(down[d]).peers \ Known(d), TRUE, Head(down[d]).room)
  BY DEF HandlePeers
<1>2. /\ Head(down[d]) \in ServerMessage /\ Head(down[d]).type = "Peers" /\ Head(down[d]) \in Usual
      /\ down[d] # <<>>
  BY <1>1, HandledFrame, UsualFrame
<1>3. PICK introduced \in SUBSET Device, room \in Ip :
        introduced = Head(down[d]).peers /\ room = Head(down[d]).room
  BY <1>2, CarriedDown DEF Usual
<1>4. /\ \A e \in Device : e \notin introduced => Head(down[d]) \notin About(e)
      /\ \A e \in introduced : Head(down[d]) \in Calls(e)
  BY <1>2, <1>3 DEF About, Calls, Joins, Leaves, From, Ends
<1>5. Dial(d, introduced \ Known(d), TRUE, room)
  BY <1>1, <1>3
<1> QED
  BY <1>1, <1>4, <1>5, DialMeets

LEMMA PeerJoinedMeets ==
  ASSUME TypeOK, Meetings, NEW d \in Device, HandlePeerJoined(d)
  PROVE  Meetings'
<1>1. /\ Arrives(d, "PeerJoined") /\ Handled(d) /\ UNCHANGED <<held, trusted, task, up, server>>
      /\ Dial(d, {Head(down[d]).peer} \ Known(d), FALSE, Head(down[d]).room)
  BY DEF HandlePeerJoined
<1>2. /\ Head(down[d]) \in ServerMessage /\ Head(down[d]).type = "PeerJoined"
      /\ Head(down[d]) \in Usual /\ down[d] # <<>>
  BY <1>1, HandledFrame, UsualFrame
<1>3. PICK introduced \in SUBSET Device, room \in Ip :
        introduced = {Head(down[d]).peer} /\ room = Head(down[d]).room
  <2>1. Head(down[d]).peer \in Device /\ Head(down[d]).room \in Ip
    BY <1>2, CarriedDown DEF Usual
  <2> QED
    BY <2>1
<1>4. /\ \A e \in Device : e \notin introduced => Head(down[d]) \notin About(e)
      /\ \A e \in introduced : Head(down[d]) \in Joins(e)
  BY <1>2, <1>3 DEF About, Calls, Joins, Leaves, From, Ends
<1>5. Dial(d, introduced \ Known(d), FALSE, room)
  BY <1>1, <1>3
<1> QED
  BY <1>1, <1>4, <1>5, DialMeets

-----------------------------------------------------------------------------
(* Descriptions.                                                           *)

\* One session of x with y is replaced by v.
LEMMA Replaced ==
  ASSUME TypeOK, NEW x \in Device, NEW y \in Device, NEW n \in DOMAIN sessions[x][y],
         NEW v \in Session, sessions' = [sessions EXCEPT ![x][y][n] = v]
  PROVE  /\ DOMAIN sessions'[x][y] = DOMAIN sessions[x][y]
         /\ \A m \in DOMAIN sessions[x][y] :
              sessions'[x][y][m] = IF m = n THEN v ELSE sessions[x][y][m]
         /\ \A z, w \in Device : z # x \/ w # y => sessions'[z][w] = sessions[z][w]
<1>1. sessions[x][y] \in Seq(Session)
  BY DEF TypeOK
<1>2. /\ DOMAIN [sessions[x][y] EXCEPT ![n] = v] = DOMAIN sessions[x][y]
      /\ \A m \in DOMAIN sessions[x][y] :
           [sessions[x][y] EXCEPT ![n] = v][m] = IF m = n THEN v ELSE sessions[x][y][m]
  BY <1>1, Updated
<1>3. sessions'[x][y] = [sessions[x][y] EXCEPT ![n] = v]
  BY DEF TypeOK
<1>4. \A z, w \in Device : z # x \/ w # y => sessions'[z][w] = sessions[z][w]
  BY DEF TypeOK
<1> QED
  BY <1>2, <1>3, <1>4

\* The caller takes the answer.
LEMMA CallerAccepts ==
  ASSUME TypeOK, NEW c \in Device, NEW k \in Device, Setup(c, k), Same(k, c),
         down[c] # <<>>, Head(down[c]) \in From(k), down'[c] = Tail(down[c]), up'[c] = up[c],
         k \in Known(c), peers'[c][k] = peers[c][k], Current(c, k).state = "new",
         DOMAIN sessions'[c][k] = DOMAIN sessions[c][k],
         \A n \in DOMAIN sessions[c][k] : n # peers[c][k].session =>
           sessions'[c][k][n] = sessions[c][k][n],
         Current(c, k)'.remote = Head(down[c]).session, Current(c, k)'.state = "new",
         Current(c, k)'.caller = TRUE, Current(c, k)'.reports = Current(c, k).reports
  PROVE  Setup(c, k)'
<1>1. down[c] \in Seq(ServerMessage)
  BY DEF TypeOK
<1>2. \A S : Free(down[c], S) => Free(down'[c], S)
  BY <1>1, FreeTail
<1>3. /\ Head(down[c]) \in AnswersDown(c, k) /\ Taken(c, k) /\ c \in Known(k)
      /\ Head(down[c]).session = peers[k][c].session /\ peers[k][c].session # 0
  <2>1. Free(down[c], From(k) \ AnswersDown(c, k))
    BY DEF Setup, Told
  <2>2. Head(down[c]) \in AnswersDown(c, k)
    BY <1>1, <2>1, FreeTail
  <2>3. Taken(c, k) /\ Head(down[c]).session = peers[k][c].session
    BY <2>2 DEF AnswersDown
  <2> QED
    BY <2>2, <2>3, CurrentType DEF Taken
<1>4. /\ c \in Known(k)' <=> c \in Known(k)
      /\ Current(k, c)' = Current(k, c)
      /\ Silent(k, c)' <=> Silent(k, c)
      /\ peers'[k][c] = peers[k][c]
  BY SameKept DEF Same
<1>5. /\ Alike(down'[k], down[k], About(c)) /\ Alike(up'[k], up[k], To(c))
  BY DEF Same
<1>6. k \in Known(c)'
  BY DEF Known
<1>7. OffersUp(c, k)' = OffersUp(c, k) /\ OffersDown(c, k)' = OffersDown(c, k)
  BY <1>6 DEF OffersUp, OffersDown
<1>8. Taken(c, k)' /\ AnswersUp(c, k)' = AnswersUp(c, k) /\ AnswersDown(c, k)' = AnswersDown(c, k)
  BY <1>3, <1>4, <1>6 DEF Taken, AnswersUp, AnswersDown
<1>9. Silent(c, k)'
  <2> SUFFICES ASSUME NEW n \in DOMAIN sessions'[c][k], n # peers[c][k].session
               PROVE  sessions'[c][k][n].reports = <<>>
    BY <1>6 DEF Silent
  <2> QED
    BY DEF Setup, Silent
<1>10. Alive(c, k, TRUE)' /\ Alive(k, c, FALSE)'
  BY <1>4 DEF Setup, Alive
<1>11. Told(c, k)'
  <2>1. Told(c, k)
    BY DEF Setup
  <2>2. Free(down'[c], Leaves(k) \union Joins(k)) /\ Free(down'[k], Leaves(c) \union Calls(c))
    BY <1>2, <1>5, <2>1, AlikeUse, Kinds DEF Told
  <2>3. Free(down'[k], From(c) \ OffersDown(c, k)')
    <3>1. Free(down[k], From(c) \ OffersDown(c, k)) /\ From(c) \ OffersDown(c, k) \in SUBSET About(c)
      BY <1>3, <2>1, Kinds DEF Told
    <3> QED
      BY <1>5, <1>7, <3>1, AlikeUse
  <2>4. /\ Free(up'[c], To(k) \ OffersUp(c, k)')
        /\ Free(up'[k], To(c) \ AnswersUp(c, k)')
        /\ Free(down'[c], From(k) \ AnswersDown(c, k)')
    <3>1. /\ Free(up[c], To(k) \ OffersUp(c, k)) /\ Free(up[k], To(c) \ AnswersUp(c, k))
          /\ Free(down[c], From(k) \ AnswersDown(c, k))
      BY <2>1 DEF Told
    <3>2. To(c) \ AnswersUp(c, k) \in SUBSET To(c)
      OBVIOUS
    <3>3. Free(up'[k], To(c) \ AnswersUp(c, k))
      BY <1>5, <3>1, <3>2, AlikeUse
    <3> QED
      BY <1>2, <1>7, <1>8, <3>1, <3>3
  <2> QED
    BY <1>3, <1>4, <1>6, <2>2, <2>3, <2>4 DEF Told
<1>12. Current(c, k)'.remote # 0
  BY <1>3
<1>13. Offered(c, k)' /\ Answered(c, k)'
  <2>1. Offered(c, k)'
    BY <1>12 DEF Offered
  <2> QED
    BY <1>4, <1>8, <1>12, <2>1 DEF Setup, Answered
<1>14. Agreed(c, k)'
  <2>1. Current(k, c).state # "open"
    BY <1>3 DEF Setup, Agreed
  <2> QED
    BY <1>3, <1>4, <1>8, <2>1 DEF Agreed
<1> QED
  BY <1>4, <1>9, <1>10, <1>11, <1>13, <1>14 DEF Setup

\* The callee takes the offer, and will answer it.
LEMMA CalleeAccepts ==
  ASSUME TypeOK, NEW c \in Device, NEW k \in Device, Setup(c, k), Same(c, k),
         down[k] # <<>>, Head(down[k]) \in From(c), down'[k] = Tail(down[k]), up'[k] = up[k],
         c \in Known(k), peers'[k][c] = peers[k][c],
         Current(k, c).state = "new", Current(k, c).remote = 0,
         DOMAIN sessions'[k][c] = DOMAIN sessions[k][c],
         \A n \in DOMAIN sessions[k][c] : n # peers[k][c].session =>
           sessions'[k][c][n] = sessions[k][c][n],
         Current(k, c)'.remote = Head(down[k]).session, Current(k, c)'.state = "new",
         Current(k, c)'.caller = FALSE,
         Current(k, c)'.reports = Append(Current(k, c).reports, "LocalDescription")
  PROVE  Setup(c, k)'
<1>1. down[k] \in Seq(ServerMessage) /\ Current(k, c).reports \in Seq(Report)
      /\ "LocalDescription" \in Report
  BY CurrentType DEF TypeOK, Report
<1>2. \A S : Free(down[k], S) => Free(down'[k], S)
  BY <1>1, FreeTail
<1>3. /\ k \in Known(c) /\ Head(down[k]).session = peers[c][k].session
      /\ peers[c][k].session \in Nat \ {0}
  <2>1. Free(down[k], From(c) \ OffersDown(c, k))
    BY DEF Setup, Told
  <2>2. Head(down[k]) \in OffersDown(c, k)
    BY <1>1, <2>1, FreeTail
  <2> QED
    BY <2>2, CurrentType DEF OffersDown
<1>4. ~Taken(c, k) /\ AnswersUp(c, k) = {} /\ AnswersDown(c, k) = {}
  <2>1. ~Taken(c, k)
    BY <1>3 DEF Taken
  <2> QED
    BY <2>1 DEF AnswersUp, AnswersDown
<1>5. Current(c, k).remote = 0 /\ Current(c, k).state # "open"
  BY <1>3, <1>4 DEF Setup, Agreed, Alive
<1>6. /\ k \in Known(c)' <=> k \in Known(c)
      /\ Current(c, k)' = Current(c, k)
      /\ Silent(c, k)' <=> Silent(c, k)
      /\ peers'[c][k] = peers[c][k]
  BY SameKept DEF Same
<1>7. /\ Alike(down'[c], down[c], About(k)) /\ Alike(up'[c], up[c], To(k))
  BY DEF Same
<1>8. c \in Known(k)'
  BY DEF Known
<1>9. OffersUp(c, k)' = OffersUp(c, k) /\ OffersDown(c, k)' = OffersDown(c, k)
  BY <1>6 DEF OffersUp, OffersDown
<1>10. Taken(c, k)'
  BY <1>3, <1>6, <1>8 DEF Taken
<1>11. Silent(k, c)'
  <2> SUFFICES ASSUME NEW n \in DOMAIN sessions'[k][c], n # peers[k][c].session
               PROVE  sessions'[k][c][n].reports = <<>>
    BY <1>8 DEF Silent
  <2> QED
    BY DEF Setup, Silent
<1>12. /\ Free(Current(k, c)'.reports, {"Failed", "Closed"})
       /\ ~Free(Current(k, c)'.reports, {"LocalDescription"})
  <2>1. Free(Current(k, c).reports, {"Failed", "Closed"})
    BY DEF Setup, Alive
  <2> QED
    BY <1>1, <2>1, FreeAppend
<1>13. Alive(c, k, TRUE)' /\ Alive(k, c, FALSE)'
  BY <1>6, <1>12 DEF Setup, Alive
<1>14. Told(c, k)'
  <2>1. Told(c, k)
    BY DEF Setup
  <2>2. Free(down'[c], Leaves(k) \union Joins(k)) /\ Free(down'[k], Leaves(c) \union Calls(c))
    BY <1>2, <1>7, <2>1, AlikeUse, Kinds DEF Told
  <2>3. Free(down'[k], From(c) \ OffersDown(c, k)')
    BY <1>2, <1>9, <2>1 DEF Told
  <2>4. Free(up'[c], To(k) \ OffersUp(c, k)')
    <3>1. Free(up[c], To(k) \ OffersUp(c, k)) /\ To(k) \ OffersUp(c, k) \in SUBSET To(k)
      BY <2>1 DEF Told
    <3> QED
      BY <1>7, <1>9, <3>1, AlikeUse
  <2>5. Free(up'[k], To(c)) /\ Free(down'[c], From(k))
    <3>1. To(c) \ AnswersUp(c, k) = To(c) /\ From(k) \ AnswersDown(c, k) = From(k)
      BY <1>4
    <3>2. Free(up[k], To(c)) /\ Free(down[c], From(k))
      BY <2>1, <3>1 DEF Told
    <3> QED
      BY <1>7, <3>2, AlikeUse, Kinds
  <2>6. Free(up'[k], To(c) \ AnswersUp(c, k)') /\ Free(down'[c], From(k) \ AnswersDown(c, k)')
    BY <2>5, FreeWithin
  <2> QED
    BY <1>3, <1>6, <1>8, <2>2, <2>3, <2>4, <2>6 DEF Told
<1>15. Current(k, c)'.remote # 0
  BY <1>3
<1>16. Offered(c, k)' /\ Answered(c, k)'
  <2>1. Offered(c, k)'
    BY <1>8, <1>15 DEF Offered
  <2> QED
    BY <1>10, <1>12, <1>15, <2>1 DEF Answered
<1>17. Agreed(c, k)'
  BY <1>5, <1>6 DEF Agreed
<1> QED
  BY <1>6, <1>11, <1>13, <1>14, <1>16, <1>17 DEF Setup

\* A description that is not accepted changes nothing.
LEMMA DescriptionIgnored ==
  ASSUME TypeOK, NEW d \in Device, NEW e \in Device, Same(e, d), Setup(d, e) \/ Setup(e, d),
         down[d] # <<>>, Head(down[d]) \in From(e), down'[d] = Tail(down[d]),
         up'[d] = up[d], sessions'[d][e] = sessions[d][e], peers'[d][e] = peers[d][e],
         ~(/\ e \in Known(d) /\ Current(d, e).remote = 0 /\ Current(d, e).state = "new"
           /\ Current(d, e).caller <=> Head(down[d]).answers # 0)
  PROVE  Setup(d, e)' \/ Setup(e, d)'
<1>1. /\ sessions'[e][d] = sessions[e][d] /\ peers'[e][d] = peers[e][d]
      /\ Alike(down'[e], down[e], About(d)) /\ Alike(up'[e], up[e], To(d))
      /\ Alike(up'[d], up[d], To(e))
  BY AlikeSame DEF Same
<1>2. \A S \in SUBSET About(d) : Free(down'[e], S) <=> Free(down[e], S)
  BY <1>1, AlikeUse
<1>3. /\ Free(down'[e], From(d)) <=> Free(down[e], From(d))
      /\ Free(down'[e], Calls(d)) <=> Free(down[e], Calls(d))
      /\ Follows(down'[e], Joins(d), From(d)) <=> Follows(down[e], Joins(d), From(d))
      /\ \A S : FirstFree(down'[e], Joins(d), From(d) \ S) <=>
                FirstFree(down[e], Joins(d), From(d) \ S)
  BY <1>1, AlikeUse, Kinds
<1>4. down[d] \in Seq(ServerMessage) /\ Head(down[d]) \notin Calls(e) \union Joins(e)
  BY DEF Calls, Joins, From, TypeOK
<1>5. /\ \A S : Free(down[d], S) => Free(down'[d], S)
      /\ Free(down'[d], Calls(e)) => Free(down[d], Calls(e))
      /\ Follows(down[d], Joins(e), From(e)) => Follows(down'[d], Joins(e), From(e))
      /\ \A S : FirstFree(down[d], Joins(e), From(e) \ S) =>
                FirstFree(down'[d], Joins(e), From(e) \ S)
  BY <1>4, FreeTail, FollowsTail, FirstFreeTail
<1>6. CASE Setup(d, e)
  <2>1. Free(down[d], From(e) \ AnswersDown(d, e))
    BY <1>6 DEF Setup, Told
  <2>2. Head(down[d]) \in AnswersDown(d, e)
    BY <1>4, <2>1, FreeTail
  <2>3. e \in Known(d) /\ Head(down[d]).answers = peers[d][e].session
    BY <2>2 DEF AnswersDown, Taken
  <2>4. Current(d, e).remote # 0
    BY <1>6, <2>3, CurrentType DEF Setup, Alive
  <2> QED
    BY <1>1, <1>2, <1>3, <1>5, <1>6, <2>3, <2>4, SetupKept
<1>7. CASE Setup(e, d)
  <2>1. e \in Known(d) => Current(d, e).remote # 0
    <3> SUFFICES ASSUME e \in Known(d) PROVE Current(d, e).remote # 0
      OBVIOUS
    <3>1. Free(down[d], From(e) \ OffersDown(e, d))
      BY <1>7 DEF Setup, Told
    <3>2. Head(down[d]) \in OffersDown(e, d)
      BY <1>4, <3>1, FreeTail
    <3>3. Head(down[d]).answers = 0
      BY <3>2 DEF OffersDown
    <3> QED
      BY <1>7, <3>3, CurrentType DEF Setup, Alive
  <2> QED
    BY <1>1, <1>2, <1>3, <1>5, <1>7, <2>1, SetupKept
<1> QED
  BY <1>6, <1>7

\* d takes the description that comes first.
Accepts(d, e) ==
  /\ e \in Known(d) /\ Current(d, e).remote = 0 /\ Current(d, e).state = "new"
  /\ Current(d, e).caller <=> Head(down[d]).answers # 0

LEMMA SignalIgnored ==
  ASSUME NEW d \in Device, NEW e \in Device, HandleSignal(d), Head(down[d]).peer = e,
         ~Accepts(d, e)
  PROVE  UNCHANGED sessions
BY DEF HandleSignal, Accepts, Known, Current

\* What accepting a description does to the session.
LEMMA SignalEffect ==
  ASSUME TypeOK, NEW d \in Device, NEW e \in Device, HandleSignal(d), Head(down[d]).peer = e,
         Accepts(d, e)
  PROVE  /\ \A z, w \in Device : z # d \/ w # e => sessions'[z][w] = sessions[z][w]
         /\ DOMAIN sessions'[d][e] = DOMAIN sessions[d][e]
         /\ \A n \in DOMAIN sessions[d][e] : n # peers[d][e].session =>
              sessions'[d][e][n] = sessions[d][e][n]
         /\ Current(d, e)'.remote = Head(down[d]).session /\ Current(d, e)'.state = "new"
         /\ Current(d, e)'.caller = Current(d, e).caller
         /\ Current(d, e)'.reports =
              IF Head(down[d]).answers = 0 THEN Append(Current(d, e).reports, "LocalDescription")
              ELSE Current(d, e).reports
<1> DEFINE frame == Head(down[d])
<1>1. frame \in ServerMessage /\ frame.type = "Signal"
  BY HandledFrame DEF HandleSignal
<1>2. frame.session \in Nat \ {0} /\ frame.answers \in Nat
  BY <1>1, CarriedDown
<1>3. PICK n : n = peers[d][e].session
  OBVIOUS
<1>4. peers' = peers /\ e \in Known(d)
  BY DEF HandleSignal, engine, Accepts
<1>5. sessions' = [sessions EXCEPT ![d][e][n].remote = frame.session,
           ![d][e][n].reports =
             IF frame.answers = 0 THEN Append(@, "LocalDescription") ELSE @]
  BY <1>3 DEF HandleSignal, Accepts, Current, Known
<1> DEFINE old == sessions[d][e][n]
           reports == IF frame.answers = 0 THEN Append(old.reports, "LocalDescription")
                      ELSE old.reports
           v == [old EXCEPT !.remote = frame.session, !.reports = reports]
<1>6. n \in DOMAIN sessions[d][e] /\ old \in Session /\ old = Current(d, e)
  BY <1>3, <1>4, CurrentType
<1>7. reports \in Seq(Report)
  BY <1>6 DEF Session, Report
<1>8. sessions' = [sessions EXCEPT ![d][e][n] = v]
  <2>1. SessionsOK
    BY TypeParts
  <2>2. n \in DOMAIN sessions[d][e] /\ d \in DOMAIN sessions /\ e \in DOMAIN sessions[d]
    BY <1>6, <2>1 DEF SessionsOK
  <2> DEFINE described == [old EXCEPT !.remote = frame.session]
             list == [sessions[d][e] EXCEPT ![n] = described]
             lists == [sessions EXCEPT ![d] = [sessions[d] EXCEPT ![e] = list]]
  <2>3. lists[d] = [sessions[d] EXCEPT ![e] = list] /\ lists[d][e] = list /\ list[n] = described
    BY <2>2
  <2>4. sessions' = [lists EXCEPT ![d] = [lists[d] EXCEPT ![e] = [lists[d][e] EXCEPT ![n] =
                      [lists[d][e][n] EXCEPT !.reports = reports]]]]
    BY <1>5
  <2>5. v = [described EXCEPT !.reports = reports]
    OBVIOUS
  <2> HIDE DEF lists, v, reports
  <2>6. sessions' = [lists EXCEPT ![d] = [[sessions[d] EXCEPT ![e] = list] EXCEPT ![e] =
                      [list EXCEPT ![n] = v]]]
    BY <2>3, <2>4, <2>5
  <2>7. [list EXCEPT ![n] = v] = [sessions[d][e] EXCEPT ![n] = v]
    BY <2>2
  <2> HIDE DEF list
  <2>8. [[sessions[d] EXCEPT ![e] = list] EXCEPT ![e] = [sessions[d][e] EXCEPT ![n] = v]]
          = [sessions[d] EXCEPT ![e] = [sessions[d][e] EXCEPT ![n] = v]]
    BY <2>2
  <2>9. sessions' = [lists EXCEPT ![d] = [sessions[d] EXCEPT ![e] = [sessions[d][e] EXCEPT ![n] = v]]]
    BY <2>6, <2>7, <2>8
  <2> QED
    BY <2>2, <2>9 DEF lists
<1>9. /\ v \in Session /\ v.remote = frame.session /\ v.state = old.state
      /\ v.caller = old.caller /\ v.reports = reports
  <2> HIDE DEF reports
  <2> QED
    BY <1>2, <1>6, <1>7 DEF Session
<1> HIDE DEF v
<1>10. /\ DOMAIN sessions'[d][e] = DOMAIN sessions[d][e]
       /\ \A m \in DOMAIN sessions[d][e] :
            sessions'[d][e][m] = IF m = n THEN v ELSE sessions[d][e][m]
       /\ \A z, w \in Device : z # d \/ w # e => sessions'[z][w] = sessions[z][w]
  BY <1>6, <1>8, <1>9, Replaced
<1>11. Current(d, e)' = v
  <2>1. peers'[d][e].session = n /\ sessions'[d][e][n] = v
    BY <1>3, <1>4, <1>6, <1>10
  <2> QED
    BY <2>1 DEF Current
<1>12. old.state = "new"
  BY <1>6 DEF Accepts
<1> HIDE DEF old, frame
<1>13. /\ Current(d, e)'.remote = frame.session /\ Current(d, e)'.state = "new"
       /\ Current(d, e)'.caller = Current(d, e).caller
  BY <1>6, <1>9, <1>11, <1>12
<1>14. Current(d, e)'.reports = IF frame.answers = 0 THEN Append(Current(d, e).reports, "LocalDescription")
              ELSE Current(d, e).reports
  BY <1>6, <1>9, <1>11
<1> QED
  BY <1>3, <1>10, <1>13, <1>14 DEF frame

LEMMA SignalMeets ==
  ASSUME TypeOK, Meetings, NEW d \in Device, HandleSignal(d)
  PROVE  Meetings'
<1>1. /\ Inner /\ UNCHANGED <<up, held, secretFor, budget, peers>>
      /\ Arrives(d, "Signal") /\ Handled(d)
  BY DEF HandleSignal, engine, task, server, Inner
<1>2. \A x \in Device : HomeOnly(x)' /\ Connection(x)' /\ (Fresh(x)' => Fresh(x))
  BY <1>1, HandlerRest
<1>3. /\ down[d] # <<>> /\ down'[d] = Tail(down[d]) /\ down[d] \in Seq(ServerMessage)
      /\ \A x \in Device : x # d => down'[x] = down[x]
      /\ Head(down[d]) \in ServerMessage /\ Head(down[d]).type = "Signal"
  BY <1>1, HandledFrame
<1>4. PICK e \in Device : e = Head(down[d]).peer
  BY <1>3, CarriedDown
<1>5. Head(down[d]) \in From(e) /\ \A y : y # e => Head(down[d]) \notin About(y)
  BY <1>3, <1>4 DEF Leaves, About, Calls, Joins, From, Ends
<1>6. ~Free(down[d], From(e)) /\ Head(down[d]) \notin Leaves(e) \union Ends
      /\ Head(down[d]) \notin Calls(e) \union Joins(e)
  BY <1>3, <1>5, FreeTail DEF From, Leaves, Ends, Calls, Joins
<1>7. ~Arriving(d)
  <2>1. ~Free(down[d], ServerMessage \ Starts)
    BY <1>3, FreeTail DEF Starts
  <2> QED
    BY <2>1 DEF Meetings, Connection
<1>8. \A z, w \in Device : z # d \/ w # e => sessions'[z][w] = sessions[z][w]
  BY <1>4, SignalEffect, SignalIgnored
<1>9. ASSUME NEW x \in Device, NEW y \in Device, x # d \/ y # e PROVE Same(x, y)
  <2>1. Alike(down'[x], down[x], About(y))
    <3>1. CASE x = d
      BY <1>1, <1>5, <1>9, <3>1, HandledFrame
    <3>2. CASE x # d
      BY <1>3, <3>2, AlikeSame
    <3> QED
      BY <3>1, <3>2
  <2> QED
    BY <1>1, <1>8, <1>9, <2>1, AlikeSame DEF Same
<1>10. ASSUME e # d PROVE Pair(d, e)' /\ Pair(e, d)'
  <2>1. e \in Others(d) /\ Pair(d, e) /\ Pair(e, d) /\ Same(e, d)
    BY <1>9, <1>10, PairOf DEF Others
  <2>2. e \in Known(d)' <=> e \in Known(d)
    BY <1>1 DEF Known
  <2>3. UNCHANGED sessions \/ e \in Known(d)
    BY <1>4, SignalIgnored DEF Accepts
  <2>4. Free(down[d], Calls(e) \union Joins(e)) => Free(down'[d], Calls(e) \union Joins(e))
    BY <1>3, FreeTail
  <2>5. UNCHANGED sessions => (Describes(d, e)' => Describes(d, e)) /\ (Silent(e, d)' <=> Silent(e, d))
    BY <1>1 DEF Describes, Silent, Known
  <2>6. Newcomer(d, e)'
    BY <1>2, <2>1, <2>2, <2>3, <2>4, <2>5 DEF Newcomer, Pair
  <2>7. ~Meeting(d, e) => Gone(d, e)'
    <3>1. LastFree(down[d], Leaves(e) \union Ends, Calls(e) \union Joins(e)) =>
            LastFree(down'[d], Leaves(e) \union Ends, Calls(e) \union Joins(e))
      BY <1>3, <1>6, LastFreeTail
    <3> QED
      BY <2>1, <2>2, <2>4, <3>1 DEF Pair, Gone
  <2>8. ASSUME Arriving(e) PROVE Arrival(e, d)'
    <3>1. Arrival(e, d) /\ e \notin Known(d)
      BY <1>6, <2>1, <2>8 DEF Pair, Arrival
    <3>2. UNCHANGED sessions
      BY <2>3, <3>1
    <3>3. Free(down[d], Leaves(e)) => Free(down'[d], Leaves(e))
      BY <1>3, FreeTail
    <3>4. d \notin Known(e)' /\ (Silent(e, d)' <=> Silent(e, d))
      BY <2>1, <3>1, SameKept DEF Arrival, Same
    <3>5. Silent(d, e)' <=> Silent(d, e)
      BY <1>1, <3>2 DEF Silent, Known
    <3> QED
      BY <1>1, <2>2, <2>4, <2>5, <3>1, <3>2, <3>3, <3>4, <3>5 DEF Arrival, Inner
  <2>9. ASSUME Meeting(d, e) PROVE Setup(d, e)' \/ Setup(e, d)'
    <3>1. Setup(d, e) \/ Setup(e, d)
      BY <2>1, <2>9 DEF Pair
    <3>2. CASE ~Accepts(d, e)
      <4>1. UNCHANGED sessions
        BY <1>4, <3>2, SignalIgnored
      <4> QED
        BY <1>1, <1>3, <1>5, <2>1, <3>1, <3>2, <4>1, DescriptionIgnored DEF Accepts
    <3>3. CASE Accepts(d, e)
      <4>1. /\ e \in Known(d) /\ Current(d, e).remote = 0 /\ Current(d, e).state = "new"
            /\ Current(d, e).caller <=> Head(down[d]).answers # 0
        BY <3>3 DEF Accepts
      <4>2. /\ DOMAIN sessions'[d][e] = DOMAIN sessions[d][e]
            /\ \A n \in DOMAIN sessions[d][e] : n # peers[d][e].session =>
                 sessions'[d][e][n] = sessions[d][e][n]
            /\ Current(d, e)'.remote = Head(down[d]).session /\ Current(d, e)'.state = "new"
            /\ Current(d, e)'.caller = Current(d, e).caller
            /\ Current(d, e)'.reports =
              IF Head(down[d]).answers = 0 THEN Append(Current(d, e).reports, "LocalDescription")
              ELSE Current(d, e).reports
        BY <1>4, <3>3, SignalEffect
      <4>3. CASE Setup(d, e)
        <5>1. Current(d, e).caller = TRUE
          BY <4>1, <4>3 DEF Setup, Alive
        <5> QED
          BY <1>1, <1>3, <1>5, <2>1, <4>1, <4>2, <4>3, <5>1, CallerAccepts
      <4>4. CASE Setup(e, d)
        <5>1. Current(d, e).caller = FALSE
          BY <4>1, <4>4 DEF Setup, Alive
        <5> QED
          BY <1>1, <1>3, <1>5, <2>1, <4>1, <4>2, <4>4, <5>1, CalleeAccepts
      <4> QED
        BY <3>1, <4>3, <4>4
    <3> QED
      BY <3>2, <3>3
  <2> QED
    BY <1>1, <1>2, <1>7, <2>1, <2>6, <2>7, <2>8, <2>9, PairTouched
<1>11. \A x \in Device : \A y \in Others(x) : Pair(x, y)'
  <2> SUFFICES ASSUME NEW x \in Device, NEW y \in Others(x)
               PROVE  (Same(x, y) /\ Same(y, x)) \/ Pair(x, y)'
    BY <1>1, <1>2, Pairs
  <2>1. CASE x = d /\ y = e
    BY <1>10, <2>1 DEF Others
  <2>2. CASE x = e /\ y = d
    BY <1>10, <2>2 DEF Others
  <2>3. CASE ~(x = d /\ y = e) /\ ~(x = e /\ y = d)
    BY <1>9, <2>3 DEF Others
  <2> QED
    BY <2>1, <2>2, <2>3
<1> QED
  BY <1>1, <1>2, <1>11, SameFailures DEF Meetings

LEMMA SignalingMeets ==
  ASSUME TypeOK, Meetings, NEW d \in Device, HandleSignaling(d)
  PROVE  Meetings'
<1>1. ASSUME NEW type \in {"Paired", "Deleted", "Regenerated"}, Arrives(d, type) PROVE FALSE
  <2>1. Head(down[d]) \in Usual
    BY <1>1, UsualFrame DEF Arrives
  <2> QED
    BY <1>1, <2>1 DEF Arrives, Usual
<1>2. ~HandlePaired(d) /\ ~HandleDeleted(d) /\ ~HandleRegenerated(d)
  BY <1>1 DEF HandlePaired, HandleDeleted, HandleRegenerated
<1>3. CASE HandleWaitingToRetry(d)
  BY <1>3, WaitingMeets
<1>4. CASE HandleIdentity(d)
  BY <1>4, IdentityMeets
<1>5. CASE HandlePeers(d)
  BY <1>5, PeersMeets
<1>6. CASE HandlePeerJoined(d)
  BY <1>6, PeerJoinedMeets
<1>7. CASE HandlePeerLeft(d)
  BY <1>7, PeerLeftMeets
<1>8. CASE HandleSignal(d)
  BY <1>8, SignalMeets
<1> QED
  BY <1>2, <1>3, <1>4, <1>5, <1>6, <1>7, <1>8 DEF HandleSignaling

-----------------------------------------------------------------------------
(* Reports.                                                                *)

\* The current session of x with y reports, and what is kept of y is the rest.
Reported(x, y) ==
  /\ y \in Known(x) /\ y \in Known(x)' /\ peers'[x][y].session = peers[x][y].session
  /\ DOMAIN sessions'[x][y] = DOMAIN sessions[x][y]
  /\ \A n \in DOMAIN sessions[x][y] : n # peers[x][y].session =>
       sessions'[x][y][n] = sessions[x][y][n]
  /\ Current(x, y).reports # <<>> /\ Current(x, y)'.reports = Tail(Current(x, y).reports)
  /\ Current(x, y)'.remote = Current(x, y).remote /\ Current(x, y)'.state = Current(x, y).state
  /\ Current(x, y)'.caller = Current(x, y).caller
  /\ IF Head(Current(x, y).reports) = "Open" THEN peers'[x][y].connected = TRUE
     ELSE peers'[x][y].connected = peers[x][y].connected

LEMMA ReportedKept ==
  ASSUME TypeOK, NEW x \in Device, NEW y \in Device, Reported(x, y), Silent(x, y),
         NEW caller, Alive(x, y, caller)
  PROVE  /\ Silent(x, y)' /\ Alive(x, y, caller)'
         /\ ~Free(Current(x, y).reports, {"LocalDescription"}) =>
              \/ Head(Current(x, y).reports) = "LocalDescription"
              \/ ~Free(Current(x, y)'.reports, {"LocalDescription"})
         /\ Free(Current(x, y).reports, {"LocalDescription"}) =>
              Free(Current(x, y)'.reports, {"LocalDescription"})
<1> DEFINE q == Current(x, y).reports
<1>1. q \in Seq(Report) /\ q # <<>>
  BY CurrentType DEF Reported
<1>2. \A S : Free(q, S) <=> Head(q) \notin S /\ Free(Tail(q), S)
  BY <1>1, FreeTail
<1>3. Silent(x, y)'
  BY DEF Reported, Silent
<1>4. Current(x, y)'.reports = Tail(q)
  BY DEF Reported
<1>5. Alive(x, y, caller)'
  <2>1. /\ Current(x, y).caller = caller /\ Current(x, y).state \in {"new", "open"}
        /\ Free(q, {"Failed", "Closed"})
        /\ Current(x, y).state = "open" =>
             /\ Current(x, y).remote # 0
             /\ peers[x][y].connected \/ ~Free(q, {"Open"})
    BY DEF Reported, Alive
  <2>2. peers[x][y].connected \/ ~Free(q, {"Open"}) =>
          peers'[x][y].connected \/ ~Free(Tail(q), {"Open"})
    BY <1>2 DEF Reported
  <2>3. Free(Tail(q), {"Failed", "Closed"})
    BY <1>2, <2>1
  <2> QED
    BY <1>4, <2>1, <2>2, <2>3 DEF Reported, Alive
<1> QED
  BY <1>2, <1>3, <1>4, <1>5

LEMMA CallerReports ==
  ASSUME TypeOK, NEW c \in Device, NEW k \in Device, Setup(c, k), Same(k, c), Reported(c, k),
         down'[c] = down[c],
         IF Head(Current(c, k).reports) = "LocalDescription"
         THEN \E m \in OffersUp(c, k) : up'[c] = Append(up[c], m)
         ELSE up'[c] = up[c]
  PROVE  Setup(c, k)'
<1>1. up[c] \in Seq(ClientMessage) /\ k \in Known(c) /\ k \in Known(c)'
  BY DEF TypeOK, Reported
<1>2. /\ c \in Known(k)' <=> c \in Known(k)
      /\ Current(k, c)' = Current(k, c)
      /\ Silent(k, c)' <=> Silent(k, c)
      /\ peers'[k][c] = peers[k][c]
  BY SameKept DEF Same
<1>3. /\ Alike(down'[k], down[k], About(c)) /\ Alike(up'[k], up[k], To(c))
  BY DEF Same
<1>4. /\ OffersUp(c, k)' = OffersUp(c, k) /\ OffersDown(c, k)' = OffersDown(c, k)
      /\ Taken(c, k)' <=> Taken(c, k)
  BY <1>1, <1>2 DEF OffersUp, OffersDown, Taken, Reported
<1>5. AnswersUp(c, k)' = AnswersUp(c, k) /\ AnswersDown(c, k)' = AnswersDown(c, k)
  BY <1>2, <1>4 DEF AnswersUp, AnswersDown, Reported
<1>6. Silent(c, k)' /\ Alive(c, k, TRUE)' /\ Alive(k, c, FALSE)'
  BY <1>2, ReportedKept DEF Setup, Alive
<1>7. /\ Free(up[c], To(k) \ OffersUp(c, k)) => Free(up'[c], To(k) \ OffersUp(c, k))
      /\ ~Free(up[c], To(k)) \/ Head(Current(c, k).reports) = "LocalDescription" => ~Free(up'[c], To(k))
  <2>1. ASSUME NEW m \in OffersUp(c, k), up'[c] = Append(up[c], m)
        PROVE  /\ Free(up[c], To(k) \ OffersUp(c, k)) => Free(up'[c], To(k) \ OffersUp(c, k))
               /\ ~Free(up'[c], To(k))
    <3>1. m \in To(k) /\ m \in ClientMessage
      BY <2>1 DEF OffersUp, To
    <3> QED
      BY <1>1, <2>1, <3>1, FreeAppend
  <2> QED
    BY <2>1
<1>8. Told(c, k)'
  <2>1. Told(c, k)
    BY DEF Setup
  <2>2. Free(down'[c], Leaves(k) \union Joins(k)) /\ Free(down'[k], Leaves(c) \union Calls(c))
    BY <1>3, <2>1, AlikeUse, Kinds DEF Told
  <2>3. c \in Known(k) => Free(down'[k], From(c) \ OffersDown(c, k))
    <3>1. From(c) \ OffersDown(c, k) \in SUBSET About(c)
      BY Kinds
    <3> QED
      BY <1>3, <2>1, <3>1, AlikeUse DEF Told
  <2>4. c \notin Known(k) => FirstFree(down'[k], Joins(c), From(c) \ OffersDown(c, k))
    <3>1. From(c) \ OffersDown(c, k) \in SUBSET About(c) /\ Joins(c) \in SUBSET About(c)
      BY Kinds
    <3>2. c \notin Known(k) => FirstFree(down[k], Joins(c), From(c) \ OffersDown(c, k))
      BY <2>1 DEF Told
    <3>3. FirstFree(down'[k], Joins(c), From(c) \ OffersDown(c, k)) <=>
            FirstFree(down[k], Joins(c), From(c) \ OffersDown(c, k))
      BY <1>3, <3>1 DEF Alike
    <3> QED
      BY <3>2, <3>3
  <2>5. Free(up'[k], To(c) \ AnswersUp(c, k))
    <3>1. Free(up[k], To(c) \ AnswersUp(c, k)) /\ To(c) \ AnswersUp(c, k) \in SUBSET To(c)
      BY <2>1 DEF Told
    <3>2. Free(up'[k], To(c) \ AnswersUp(c, k)) <=> Free(up[k], To(c) \ AnswersUp(c, k))
      BY <1>3, <3>1 DEF Alike
    <3> QED
      BY <3>1, <3>2
  <2>6. Free(up'[c], To(k) \ OffersUp(c, k)) /\ Free(down'[c], From(k) \ AnswersDown(c, k))
    BY <1>7, <2>1 DEF Told
  <2> QED
    BY <1>1, <1>2, <1>4, <1>5, <2>2, <2>3, <2>4, <2>5, <2>6 DEF Told
<1>9. Offered(c, k)'
  <2> SUFFICES ASSUME Current(c, k).remote = 0, Free(Current(c, k)'.reports, {"LocalDescription"}),
                      Free(up'[c], To(k))
               PROVE  \/ c \notin Known(k) /\ Follows(down'[k], Joins(c), From(c))
                      \/ c \in Known(k) /\ ~Free(down'[k], From(c))
                      \/ c \in Known(k) /\ Current(k, c).remote # 0
    BY <1>2 DEF Reported, Offered
  <2>1. Free(up[c], To(k)) /\ Free(Current(c, k).reports, {"LocalDescription"})
    BY <1>7, ReportedKept DEF Setup
  <2>2. \/ c \notin Known(k) /\ Follows(down[k], Joins(c), From(c))
        \/ c \in Known(k) /\ ~Free(down[k], From(c))
        \/ c \in Known(k) /\ Current(k, c).remote # 0
    BY <1>1, <2>1 DEF Setup, Offered
  <2> QED
    BY <1>3, <2>2, AlikeUse, Kinds
<1>10. Answered(c, k)'
  <2>1. Free(up'[k], To(c)) <=> Free(up[k], To(c))
    BY <1>3, AlikeUse, Kinds
  <2> QED
    BY <1>2, <1>4, <2>1 DEF Setup, Answered, Reported
<1>11. Agreed(c, k)'
  BY <1>1, <1>2, <1>4 DEF Setup, Agreed, Reported
<1> QED
  BY <1>2, <1>6, <1>8, <1>9, <1>10, <1>11 DEF Setup

LEMMA CalleeReports ==
  ASSUME TypeOK, NEW c \in Device, NEW k \in Device, Setup(c, k), Same(c, k), Reported(k, c),
         down'[k] = down[k],
         IF Head(Current(k, c).reports) = "LocalDescription"
         THEN \E m \in AnswersUp(c, k) : up'[k] = Append(up[k], m)
         ELSE up'[k] = up[k]
  PROVE  Setup(c, k)'
<1>1. up[k] \in Seq(ClientMessage) /\ c \in Known(k) /\ c \in Known(k)'
  BY DEF TypeOK, Reported
<1>2. /\ k \in Known(c)' <=> k \in Known(c)
      /\ Current(c, k)' = Current(c, k)
      /\ Silent(c, k)' <=> Silent(c, k)
      /\ peers'[c][k] = peers[c][k]
  BY SameKept DEF Same
<1>3. /\ Alike(down'[c], down[c], About(k)) /\ Alike(up'[c], up[c], To(k))
  BY DEF Same
<1>4. /\ OffersUp(c, k)' = OffersUp(c, k) /\ OffersDown(c, k)' = OffersDown(c, k)
      /\ Taken(c, k)' <=> Taken(c, k)
  BY <1>1, <1>2 DEF OffersUp, OffersDown, Taken, Reported
<1>5. AnswersUp(c, k)' = AnswersUp(c, k) /\ AnswersDown(c, k)' = AnswersDown(c, k)
  BY <1>2, <1>4 DEF AnswersUp, AnswersDown, Reported
<1>6. Silent(k, c)' /\ Alive(c, k, TRUE)' /\ Alive(k, c, FALSE)'
  BY <1>2, ReportedKept DEF Setup, Alive
<1>7. /\ Free(up[k], To(c) \ AnswersUp(c, k)) => Free(up'[k], To(c) \ AnswersUp(c, k))
      /\ ~Free(up[k], To(c)) \/ Head(Current(k, c).reports) = "LocalDescription" => ~Free(up'[k], To(c))
  <2>1. ASSUME NEW m \in AnswersUp(c, k), up'[k] = Append(up[k], m)
        PROVE  /\ Free(up[k], To(c) \ AnswersUp(c, k)) => Free(up'[k], To(c) \ AnswersUp(c, k))
               /\ ~Free(up'[k], To(c))
    <3>1. m \in To(c) /\ m \in ClientMessage
      BY <2>1 DEF AnswersUp, To
    <3> QED
      BY <1>1, <2>1, <3>1, FreeAppend
  <2> QED
    BY <2>1
<1>8. Told(c, k)'
  <2>1. Told(c, k)
    BY DEF Setup
  <2>2. Free(down'[c], Leaves(k) \union Joins(k)) /\ Free(down'[k], Leaves(c) \union Calls(c))
    BY <1>3, <2>1, AlikeUse, Kinds DEF Told
  <2>3. k \in Known(c) \/ ~Free(down'[c], Calls(k))
    BY <1>3, <2>1, AlikeUse, Kinds DEF Told
  <2>4. Free(down'[k], From(c) \ OffersDown(c, k)) /\ Free(up'[k], To(c) \ AnswersUp(c, k))
    BY <1>1, <1>7, <2>1 DEF Told
  <2>5. Free(up'[c], To(k) \ OffersUp(c, k))
    <3>1. Free(up[c], To(k) \ OffersUp(c, k)) /\ To(k) \ OffersUp(c, k) \in SUBSET To(k)
      BY <2>1 DEF Told
    <3> QED
      BY <1>3, <3>1, AlikeUse
  <2>6. Free(down'[c], From(k) \ AnswersDown(c, k))
    <3>1. Free(down[c], From(k) \ AnswersDown(c, k)) /\ From(k) \ AnswersDown(c, k) \in SUBSET About(k)
      BY <2>1, Kinds DEF Told
    <3> QED
      BY <1>3, <3>1, AlikeUse
  <2> QED
    BY <1>1, <1>2, <1>4, <1>5, <2>2, <2>3, <2>4, <2>5, <2>6 DEF Told
<1>9. Offered(c, k)'
  <2>1. Free(up'[c], To(k)) <=> Free(up[c], To(k))
    BY <1>3, AlikeUse, Kinds
  <2> QED
    BY <1>1, <1>2, <2>1 DEF Setup, Offered, Reported
<1>10. Answered(c, k)'
  <2>1. ASSUME Current(k, c).remote # 0
        PROVE  /\ Taken(c, k)'
               /\ \/ ~Free(Current(k, c)'.reports, {"LocalDescription"})
                  \/ ~Free(up'[k], To(c)) \/ ~Free(down'[c], From(k))
                  \/ Current(c, k)'.remote # 0
    <3>1. /\ Taken(c, k)
          /\ \/ ~Free(Current(k, c).reports, {"LocalDescription"})
             \/ ~Free(up[k], To(c)) \/ ~Free(down[c], From(k))
             \/ Current(c, k).remote # 0
      BY <1>1, <2>1 DEF Setup, Answered
    <3>2. ~Free(down[c], From(k)) => ~Free(down'[c], From(k))
      BY <1>3, AlikeUse, Kinds
    <3> QED
      BY <1>2, <1>4, <1>7, <3>1, <3>2, ReportedKept DEF Setup
  <2>2. Current(k, c).remote = 0 => Free(Current(k, c)'.reports, {"LocalDescription"})
    BY <1>1, ReportedKept DEF Setup, Answered
  <2> QED
    BY <2>1, <2>2 DEF Answered, Reported
<1>11. Agreed(c, k)'
  BY <1>1, <1>2, <1>4 DEF Setup, Agreed, Reported
<1> QED
  BY <1>2, <1>6, <1>8, <1>9, <1>10, <1>11 DEF Setup

\* Every action on a report takes it from the session, and a signal is for the other end.
LEMMA RtcEffect ==
  ASSUME TypeOK, Meetings, NEW d \in Device, NEW e \in Others(d), NEW n \in DOMAIN sessions[d][e],
         HandleLocalDescription(d, e, n) \/ HandleOpen(d, e, n) \/ HandleClosed(d, e, n)
  PROVE  /\ Inner /\ UNCHANGED <<down, held, secretFor, budget>>
         /\ sessions[d][e][n].reports # <<>> /\ sessions[d][e][n] \in Session
         /\ sessions[d][e] \in Seq(Session)
         /\ DOMAIN sessions'[d][e] = DOMAIN sessions[d][e]
         /\ \A m \in DOMAIN sessions[d][e] : m # n => sessions'[d][e][m] = sessions[d][e][m]
         /\ \A z, w \in Device : z # d \/ w # e => sessions'[z][w] = sessions[z][w]
         /\ sessions'[d][e][n].reports = Tail(sessions[d][e][n].reports)
         /\ sessions'[d][e][n].remote = sessions[d][e][n].remote
         /\ sessions'[d][e][n].state = sessions[d][e][n].state
         /\ sessions'[d][e][n].caller = sessions[d][e][n].caller
<1>1. PICK report : Reports(d, e, n, report)
  BY DEF HandleLocalDescription, HandleOpen, HandleClosed
<1>2. e \in Device /\ sessions[d][e] \in Seq(Session) /\ sessions[d][e][n] \in Session
  BY DEF TypeOK, Others
<1> DEFINE old == sessions[d][e][n]
           reports == Tail(old.reports)
           v == [old EXCEPT !.reports = reports]
<1>3. old.reports # <<>> /\ old.reports \in Seq(Report)
  BY <1>1, <1>2 DEF Reports, Session
<1>4. reports \in Seq(Report)
  BY <1>3, HeadAndTail
<1>5. sessions' = [sessions EXCEPT ![d][e][n] = v]
  BY <1>1 DEF Reports
<1>6. /\ v \in Session /\ v.reports = reports /\ v.remote = old.remote /\ v.state = old.state
      /\ v.caller = old.caller
  <2> HIDE DEF reports
  <2> QED
    BY <1>2, <1>4 DEF Session
<1> HIDE DEF v
<1>7. /\ DOMAIN sessions'[d][e] = DOMAIN sessions[d][e]
      /\ \A m \in DOMAIN sessions[d][e] :
           sessions'[d][e][m] = IF m = n THEN v ELSE sessions[d][e][m]
      /\ \A z, w \in Device : z # d \/ w # e => sessions'[z][w] = sessions[z][w]
  BY <1>2, <1>5, <1>6, Replaced
<1>8. Inner /\ UNCHANGED <<down, held, secretFor, budget>>
  BY <1>1 DEF Reports, Inner, task, server
<1> QED
  BY <1>2, <1>3, <1>6, <1>7, <1>8

\* What it does to the peer and to what is sent.
LEMMA RtcSends ==
  ASSUME TypeOK, Meetings, NEW d \in Device, NEW e \in Others(d), NEW n \in DOMAIN sessions[d][e],
         HandleLocalDescription(d, e, n) \/ HandleOpen(d, e, n) \/ HandleClosed(d, e, n)
  PROVE  /\ \A z, w \in Device : z # d \/ w # e => peers'[z][w] = peers[z][w]
         /\ e \in Known(d)' <=> e \in Known(d)
         /\ peers'[d][e].session = peers[d][e].session
         /\ \A z \in Device : z # d => up'[z] = up[z]
         /\ LET head == Head(sessions[d][e][n].reports) IN
              \/ /\ head = "LocalDescription" /\ peers' = peers
                 /\ \E m \in To(e) \cap Local(d) :
                      /\ m.session = n
                      /\ m.answers = IF sessions[d][e][n].caller THEN 0
                                     ELSE sessions[d][e][n].remote
                      /\ up'[d] = Append(up[d], m)
              \/ /\ head = "Open" /\ up' = up
                 /\ e \in Known(d) => peers'[d][e].connected = TRUE
              \/ head \in {"Failed", "Closed"} /\ up' = up
<1>1. /\ e \in Device /\ sessions[d][e] \in Seq(Session) /\ sessions[d][e][n] \in Session
      /\ home[d] \in Ip /\ PeersOK
  <2>1. e \in Device /\ home[d] \in Ip /\ PeersOK
    BY TypeParts DEF Others
  <2>2. sessions[d][e] \in Seq(Session)
    BY <2>1 DEF TypeOK
  <2> QED
    BY <2>1, <2>2
<1>2. ASSUME NEW connected \in BOOLEAN, Connects(d, e, connected)
      PROVE  /\ \A z, w \in Device : z # d \/ w # e => peers'[z][w] = peers[z][w]
             /\ e \in Known(d)' <=> e \in Known(d)
             /\ peers'[d][e].session = peers[d][e].session
             /\ e \in Known(d) => peers'[d][e].connected = connected
             /\ up' = up
  <2>1. CASE peers[d][e] = None
    BY <1>2, <2>1 DEF Connects, Known
  <2>2. CASE peers[d][e] # None
    <3>1. peers[d][e] \in Peer
      BY <1>1, <2>2 DEF PeersOK
    <3> DEFINE v == [peers[d][e] EXCEPT !.connected = connected]
    <3>2. peers' = [peers EXCEPT ![d][e] = v] /\ up' = up
      BY <1>2, <2>2 DEF Connects
    <3>3. v \in Peer /\ v.connected = connected /\ v.session = peers[d][e].session
      BY <3>1 DEF Peer
    <3>4. v # None
      BY <3>3, NoneAssumption
    <3> HIDE DEF v
    <3>5. \A z, w \in Device : peers'[z][w] = IF z = d /\ w = e THEN v ELSE peers[z][w]
      BY <1>1, <3>2 DEF PeersOK
    <3> QED
      BY <1>1, <2>2, <3>2, <3>3, <3>4, <3>5 DEF Known
  <2> QED
    BY <2>1, <2>2
<1>3. CASE HandleLocalDescription(d, e, n)
  <2> DEFINE answers == IF sessions[d][e][n].caller THEN 0 ELSE sessions[d][e][n].remote
             m == [type |-> "Signal", peer |-> e, session |-> n, room |-> home[d],
                   answers |-> answers]
  <2>1. n \in Nat \ {0} /\ answers \in Nat /\ home[d] \in Room
    BY <1>1 DEF Session, Room
  <2>2. SignallingRoom(d, e) = home[d]
    BY <1>1 DEF Meetings, HomeOnly, SignallingRoom
  <2>3. Send(d, <<m>>) /\ peers' = peers /\ Head(sessions[d][e][n].reports) = "LocalDescription"
    BY <1>3, <2>2 DEF HandleLocalDescription, Reports
  <2>4. m \in ClientMessage
    <3> HIDE DEF answers
    <3> QED
      BY <1>1, <2>1, ClientMessages
  <2>5. m.type = "Signal" /\ m.peer = e /\ m.session = n /\ m.room = home[d] /\ m.answers = answers
    OBVIOUS
  <2> HIDE DEF m, answers
  <2>6. m \in To(e) \cap Local(d)
    BY <2>4, <2>5 DEF To, Local
  <2>7. up'[d] = Append(up[d], m) /\ \A z \in Device : z # d => up'[z] = up[z]
    <3>1. up[d] \o <<m>> = Append(up[d], m)
      BY <2>4 DEF TypeOK
    <3> QED
      BY <2>3, <3>1 DEF Send, TypeOK
  <2> QED
    BY <2>3, <2>5, <2>6, <2>7 DEF answers, Known
<1>4. CASE HandleOpen(d, e, n)
  <2>1. Connects(d, e, TRUE) /\ Head(sessions[d][e][n].reports) = "Open"
    BY <1>4 DEF HandleOpen, Reports
  <2> QED
    BY <1>2, <2>1
<1>5. CASE HandleClosed(d, e, n)
  <2>1. Connects(d, e, FALSE) /\ Head(sessions[d][e][n].reports) \in {"Failed", "Closed"}
    BY <1>5 DEF HandleClosed, Reports
  <2> QED
    BY <1>2, <2>1
<1> QED
  BY <1>3, <1>4, <1>5

LEMMA RtcMeets ==
  ASSUME TypeOK, Meetings, NEW d \in Device, HandleRtc(d)
  PROVE  Meetings'
<1>1. PICK e \in Others(d) : \E n \in DOMAIN sessions[d][e] :
        HandleLocalDescription(d, e, n) \/ HandleOpen(d, e, n) \/ HandleClosed(d, e, n)
  BY DEF HandleRtc
<1>2. PICK n \in DOMAIN sessions[d][e] :
        HandleLocalDescription(d, e, n) \/ HandleOpen(d, e, n) \/ HandleClosed(d, e, n)
  BY <1>1
<1>3. e \in Device /\ e # d /\ Pair(d, e) /\ Pair(e, d) /\ HomeOnly(d) /\ Connection(d)
  BY PairOf DEF Others
<1> DEFINE q == sessions[d][e][n].reports
<1>4. /\ Inner /\ UNCHANGED <<down, held, secretFor, budget>>
      /\ q # <<>> /\ sessions[d][e][n] \in Session /\ sessions[d][e] \in Seq(Session)
      /\ DOMAIN sessions'[d][e] = DOMAIN sessions[d][e]
      /\ \A m \in DOMAIN sessions[d][e] : m # n => sessions'[d][e][m] = sessions[d][e][m]
      /\ \A z, w \in Device : z # d \/ w # e => sessions'[z][w] = sessions[z][w]
      /\ sessions'[d][e][n].reports = Tail(q)
      /\ sessions'[d][e][n].remote = sessions[d][e][n].remote
      /\ sessions'[d][e][n].state = sessions[d][e][n].state
      /\ sessions'[d][e][n].caller = sessions[d][e][n].caller
  BY <1>2, RtcEffect
<1>5. /\ \A z, w \in Device : z # d \/ w # e => peers'[z][w] = peers[z][w]
      /\ e \in Known(d)' <=> e \in Known(d)
      /\ peers'[d][e].session = peers[d][e].session
      /\ \A z \in Device : z # d => up'[z] = up[z]
      /\ \/ /\ Head(q) = "LocalDescription" /\ peers' = peers
            /\ \E m \in To(e) \cap Local(d) :
                 /\ m.session = n
                 /\ m.answers = IF sessions[d][e][n].caller THEN 0 ELSE sessions[d][e][n].remote
                 /\ up'[d] = Append(up[d], m)
         \/ /\ Head(q) = "Open" /\ up' = up
            /\ e \in Known(d) => peers'[d][e].connected = TRUE
         \/ Head(q) \in {"Failed", "Closed"} /\ up' = up
  BY <1>2, RtcSends
<1>6. q \in Seq(Report) /\ \A S : Free(q, S) <=> Head(q) \notin S /\ Free(Tail(q), S)
  <2>1. q \in Seq(Report)
    BY <1>4 DEF Session
  <2> QED
    BY <1>4, <2>1, FreeTail
<1> HIDE DEF q
<1>7. Head(q) = "LocalDescription" => Describes(d, e) /\ ~Fresh(d)
  <2>1. Head(q) = "LocalDescription" => Describes(d, e)
    BY <1>6 DEF Describes, q
  <2> QED
    BY <1>3, <2>1 DEF Pair, Newcomer
<1>8. /\ Describes(d, e)' => Describes(d, e)
      /\ Silent(d, e) => e \in Known(d) /\ peers[d][e].session = n
  <2>1. ASSUME NEW m \in DOMAIN sessions'[d][e],
               ~Free(sessions'[d][e][m].reports, {"LocalDescription"})
        PROVE  ~Free(sessions[d][e][m].reports, {"LocalDescription"})
    BY <1>4, <1>6, <2>1 DEF q
  <2>2. Describes(d, e)' => Describes(d, e)
    BY <1>4, <2>1 DEF Describes
  <2> QED
    BY <1>4, <2>2 DEF Silent, q
\* What is sent is of its room, and nothing to join it.
<1>9. /\ up'[d] = up[d] \/ (/\ ~Fresh(d)
                            /\ \E m \in Local(d) \ Joining :
                                 m \in ClientMessage /\ m \in To(e) /\ up'[d] = Append(up[d], m))
      /\ up[d] \in Seq(ClientMessage)
  BY <1>5, <1>7 DEF TypeOK, To, Local, Joining
<1>10. Connection(d)' /\ (Fresh(d)' => Fresh(d)) /\ HomeOnly(d)'
  <2>1. link'[d] = link[d] /\ down'[d] = down[d] /\ (Inside(d)' <=> Inside(d))
        /\ (Arriving(d)' <=> Arriving(d)) /\ Local(d)' = Local(d)
    BY <1>4, InnerKept DEF Inner, Local
  <2>2. CASE up'[d] = up[d]
    BY <1>3, <1>4, <2>1, <2>2, ConnectionSame, HomeSame DEF Inner
  <2>3. ASSUME ~Fresh(d), NEW m \in Local(d) \ Joining, m \in ClientMessage, up'[d] = Append(up[d], m)
        PROVE  Connection(d)' /\ (Fresh(d)' => Fresh(d)) /\ HomeOnly(d)'
    <3>1. Free(down[d], Starts) /\ Free(up[d], Joining)
      BY <2>3 DEF Fresh
    <3>2. Free(up'[d], Joining) /\ Free(up'[d], ClientMessage \ Local(d))
      BY <1>3, <1>9, <2>3, <3>1, FreeAppend DEF HomeOnly
    <3>3. ~Fresh(d)'
      BY <2>1, <3>1, <3>2 DEF Fresh
    <3>4. \A i \in DOMAIN up'[d] : up'[d][i] \notin Joining
      BY <3>2 DEF Free
    <3>5. Connection(d)'
      BY <1>3, <2>1, <3>1, <3>2, <3>3, <3>4 DEF Connection
    <3>6. HomeOnly(d)'
      BY <1>3, <1>4, <2>1, <3>2 DEF HomeOnly, Inner
    <3> QED
      BY <3>3, <3>5, <3>6
  <2> QED
    BY <1>9, <2>2, <2>3
<1>11. \A x \in Device : HomeOnly(x)' /\ Connection(x)' /\ (Fresh(x)' => Fresh(x))
  <2> SUFFICES ASSUME NEW x \in Device, x # d PROVE HomeOnly(x)' /\ Connection(x)' /\ (Fresh(x)' => Fresh(x))
    BY <1>10
  <2>1. HomeOnly(x) /\ Connection(x) /\ (Inside(x)' <=> Inside(x)) /\ link'[x] = link[x]
    BY <1>4, InnerKept DEF Meetings, Inner
  <2> QED
    BY <1>4, <1>5, <2>1, ConnectionSame, HomeSame DEF Inner
<1>12. ASSUME NEW x \in Device, NEW y \in Device, x # d \/ y # e PROVE Same(x, y)
  <2>1. Alike(up'[x], up[x], To(y))
    <3>1. CASE x # d
      BY <1>5, <3>1, AlikeSame
    <3>2. CASE x = d
      <4>1. \A m \in To(e) : m \notin To(y)
        BY <1>12, <3>2 DEF To
      <4> QED
        BY <1>9, <3>2, <4>1, AlikeSame, AlikeAppend
    <3> QED
      BY <3>1, <3>2
  <2> QED
    BY <1>4, <1>5, <1>12, <2>1, AlikeSame DEF Same
<1>13. Pair(d, e)' /\ Pair(e, d)'
  <2>1. Same(e, d)
    BY <1>3, <1>12
  <2>2. Newcomer(d, e)'
    BY <1>3, <1>4, <1>5, <1>8, <1>11 DEF Pair, Newcomer
  <2>3. ~Meeting(d, e) => Gone(d, e)'
    BY <1>3, <1>4, <1>5 DEF Pair, Gone
  <2>4. ~Arriving(d)
    BY <1>3, <1>8 DEF Pair, Arrival
  <2>5. ASSUME Arriving(e) PROVE Arrival(e, d)'
    <3>1. Arrival(e, d) /\ ~Describes(d, e) /\ link[d] # "connected" /\ link'[d] # "connected"
      BY <1>3, <1>4, <1>8, <2>5 DEF Pair, Arrival, Inner
    <3>2. up'[d] = up[d]
      BY <1>5, <1>7, <3>1
    <3>3. d \notin Known(e)' /\ (Silent(e, d)' <=> Silent(e, d))
      BY <1>3, <2>1, <3>1, SameKept DEF Arrival, Same
    <3> QED
      BY <1>4, <1>5, <1>8, <3>1, <3>2, <3>3 DEF Arrival
  <2>6. ASSUME Meeting(d, e) PROVE Setup(d, e)' \/ Setup(e, d)'
    <3>1. Setup(d, e) \/ Setup(e, d)
      BY <1>3, <2>6 DEF Pair
    <3>2. e \in Known(d) /\ peers[d][e].session = n /\ Current(d, e) = sessions[d][e][n]
          /\ Current(d, e)' = sessions'[d][e][n] /\ Current(d, e).reports = q
      BY <1>5, <1>8, <3>1 DEF Setup, Current, q
    <3>3. Head(q) \notin {"Failed", "Closed"}
      BY <1>6, <3>1, <3>2 DEF Setup, Alive
    <3>4. Reported(d, e)
      BY <1>4, <1>5, <3>2, <3>3 DEF Reported
    <3>5. CASE Setup(d, e)
      <4>1. Current(d, e).caller = TRUE
        BY <3>2, <3>5 DEF Setup, Alive
      <4>2. \A m \in To(e) : m.session = n /\ m.answers = 0 => m \in OffersUp(d, e)
        BY <3>2 DEF OffersUp
      <4>3. Head(q) # "LocalDescription" => up'[d] = up[d]
        BY <1>5
      <4>4. Head(q) = "LocalDescription" => \E m \in OffersUp(d, e) : up'[d] = Append(up[d], m)
        BY <1>5, <3>2, <4>1, <4>2
      <4> QED
        BY <1>3, <1>4, <2>1, <3>2, <3>4, <3>5, <4>3, <4>4, CallerReports
    <3>6. CASE Setup(e, d)
      <4>1. Current(d, e).caller = FALSE
        BY <3>2, <3>6 DEF Setup, Alive
      <4>2. Head(q) = "LocalDescription" => Taken(e, d)
        BY <1>6, <3>2, <3>6 DEF Setup, Answered
      <4>3. Head(q) = "LocalDescription" => Current(d, e).remote = peers[e][d].session
        BY <4>2 DEF Taken
      <4>4. ASSUME Head(q) = "LocalDescription",
                   NEW m \in To(e), m.session = n, m.answers = Current(d, e).remote
            PROVE  m \in AnswersUp(e, d)
        BY <3>2, <4>2, <4>3, <4>4 DEF AnswersUp
      <4>5. Head(q) # "LocalDescription" => up'[d] = up[d]
        BY <1>5
      <4>6. Head(q) = "LocalDescription" => \E m \in AnswersUp(e, d) : up'[d] = Append(up[d], m)
        BY <1>5, <3>2, <4>1, <4>4
      <4> QED
        BY <1>3, <1>4, <2>1, <3>2, <3>4, <3>6, <4>5, <4>6, CalleeReports
    <3> QED
      BY <3>1, <3>5, <3>6
  <2> QED
    BY <1>3, <1>4, <1>11, <2>1, <2>2, <2>3, <2>4, <2>5, <2>6, PairTouched
<1>14. \A x \in Device : \A y \in Others(x) : Pair(x, y)'
  <2> SUFFICES ASSUME NEW x \in Device, NEW y \in Others(x)
               PROVE  (Same(x, y) /\ Same(y, x)) \/ Pair(x, y)'
    BY <1>4, <1>11, Pairs
  <2>1. CASE x = d /\ y = e
    BY <1>13, <2>1
  <2>2. CASE x = e /\ y = d
    BY <1>13, <2>2
  <2>3. CASE ~(x = d /\ y = e) /\ ~(x = e /\ y = d)
    BY <1>12, <2>3 DEF Others
  <2> QED
    BY <2>1, <2>2, <2>3
<1> QED
  BY <1>4, <1>11, <1>14, SameFailures DEF Meetings

\* Nothing is paired that the user could give up or trust.
LEMMA NoCommand ==
  ASSUME Meetings, NEW d \in Device
  PROVE  ~Command(d)
BY DEF Meetings, HomeOnly, Command, Unpair, SetAutoAccept

-----------------------------------------------------------------------------
(* The server and the channels.                                            *)

\* Messages are read from the front, frames come to the end.
LEMMA ConnectionCarried ==
  ASSUME TypeOK, NEW x \in Device, Connection(x), link'[x] = link[x], Inside(x)' <=> Inside(x),
         up'[x] = up[x] \/ (up[x] # <<>> /\ up'[x] = Tail(up[x])),
         \/ down'[x] = down[x]
         \/ ~Arriving(x) /\ \E f \in ServerMessage \ (Starts \union Ends) : down'[x] = Append(down[x], f)
  PROVE  Connection(x)' /\ (Fresh(x)' => Fresh(x))
<1>1. down[x] \in Seq(ServerMessage) /\ up[x] \in Seq(ClientMessage)
  BY DEF TypeOK
<1>2. \A S : Free(up[x], S) => Free(up'[x], S)
  BY <1>1, FreeTail
<1>3. /\ Free(down[x], Starts) => Free(down'[x], Starts)
      /\ Free(down[x], Ends) => Free(down'[x], Ends)
      /\ Arriving(x) => down'[x] = down[x]
  <2>1. ASSUME NEW f \in ServerMessage \ (Starts \union Ends), down'[x] = Append(down[x], f)
        PROVE  /\ Free(down[x], Starts) => Free(down'[x], Starts)
               /\ Free(down[x], Ends) => Free(down'[x], Ends)
    BY <1>1, <2>1, FreeAppend
  <2> QED
    BY <2>1
<1>4. \A i \in DOMAIN down'[x] : down'[x][i] \in Starts => i = 1
  <2>1. CASE down'[x] = down[x]
    BY <2>1 DEF Connection
  <2>2. ASSUME NEW f \in ServerMessage \ (Starts \union Ends), down'[x] = Append(down[x], f)
        PROVE  \A i \in DOMAIN down'[x] : down'[x][i] \in Starts => i = 1
    BY <1>1, <2>2, Appended DEF Connection
  <2> QED
    BY <2>1, <2>2
<1>5. \A i \in DOMAIN up'[x] : up'[x][i] \in Joining => i = Len(up'[x])
  <2>1. CASE up'[x] = up[x]
    BY <2>1 DEF Connection
  <2>2. CASE up[x] # <<>> /\ up'[x] = Tail(up[x])
    <3> SUFFICES ASSUME NEW i \in DOMAIN up'[x], up'[x][i] \in Joining PROVE i = Len(up'[x])
      OBVIOUS
    <3>1. /\ i \in Nat /\ i + 1 \in DOMAIN up[x] /\ up[x][i + 1] \in Joining
          /\ Len(up[x]) \in Nat /\ Len(up'[x]) = Len(up[x]) - 1
      BY <1>1, <2>2, Shortened
    <3>2. i + 1 = Len(up[x])
      BY <3>1 DEF Connection
    <3> QED
      BY <3>1, <3>2
  <2> QED
    BY <2>1, <2>2
<1>6. Fresh(x)' => Fresh(x)
  BY <1>2, <1>3 DEF Fresh
<1>7. up[x] = <<>> => up'[x] = <<>>
  OBVIOUS
<1>8. Len(up[x]) = 1 => Len(up'[x]) = 1 \/ Free(up'[x], Joining)
  <2>1. CASE up'[x] = up[x]
    BY <2>1
  <2>2. CASE up[x] # <<>> /\ up'[x] = Tail(up[x])
    <3>1. Len(up[x]) = 1 => up'[x] = <<>>
      <4>1. up'[x] \in Seq(ClientMessage) /\ Len(up'[x]) = Len(up[x]) - 1
        BY <1>1, <2>2, Shortened
      <4> QED
        BY <4>1, EmptySeq
    <3> QED
      BY <3>1, FreeEmpty
  <2> QED
    BY <2>1, <2>2
<1>9. Arriving(x)' => Arriving(x)
  BY DEF Arriving, Inside
<1>10. Free(down[x], ServerMessage \ Starts) /\ Arriving(x) => Free(down'[x], ServerMessage \ Starts)
  BY <1>3
<1>11. link[x] = "waiting" => /\ Free(down'[x], Starts) \/ up'[x] = <<>>
                              /\ Free(up'[x], Joining) \/ Len(up'[x]) = 1
  BY <1>2, <1>3, <1>7, <1>8 DEF Connection
<1> QED
  BY <1>2, <1>3, <1>4, <1>5, <1>6, <1>9, <1>10, <1>11 DEF Connection

\* An offer is passed on.
LEMMA OfferRelayed ==
  ASSUME TypeOK, NEW c \in Device, NEW k \in Device, Setup(c, k), UNCHANGED <<sessions, peers>>,
         up[c] # <<>>, Head(up[c]) \in To(k), up'[c] = Tail(up[c]), down'[c] = down[c],
         up'[k] = up[k], NEW f \in From(c), down'[k] = Append(down[k], f),
         f.session = Head(up[c]).session, f.answers = Head(up[c]).answers
  PROVE  Setup(c, k)'
<1>1. /\ up[c] \in Seq(ClientMessage) /\ down[k] \in Seq(ServerMessage) /\ f \in ServerMessage
      /\ f \notin Leaves(c) \union Calls(c)
  BY DEF TypeOK, From, Leaves, Calls
<1>2. /\ k \in Known(c)' <=> k \in Known(c)
      /\ c \in Known(k)' <=> c \in Known(k)
      /\ Current(k, c)' = Current(k, c) /\ Current(c, k)' = Current(c, k)
      /\ Silent(c, k)' <=> Silent(c, k)
      /\ Silent(k, c)' <=> Silent(k, c)
  BY SameKept
<1>3. /\ OffersUp(c, k)' = OffersUp(c, k) /\ OffersDown(c, k)' = OffersDown(c, k)
      /\ Taken(c, k)' <=> Taken(c, k)
      /\ AnswersUp(c, k)' = AnswersUp(c, k) /\ AnswersDown(c, k)' = AnswersDown(c, k)
  BY SameDescriptions
<1>4. Told(c, k)
  BY DEF Setup
<1>5. f \in OffersDown(c, k)
  <2>1. Head(up[c]) \in OffersUp(c, k)
    <3>1. Free(up[c], To(k) \ OffersUp(c, k))
      BY <1>4 DEF Told
    <3> QED
      BY <1>1, <3>1, FreeTail
  <2> QED
    BY <2>1 DEF OffersUp, OffersDown
<1>6. Told(c, k)'
  <2>1. Free(down'[k], Leaves(c) \union Calls(c))
    BY <1>1, <1>4, FreeAppend DEF Told
  <2>2. c \in Known(k) => Free(down'[k], From(c) \ OffersDown(c, k))
    BY <1>1, <1>4, <1>5, FreeAppend DEF Told
  <2>3. c \notin Known(k) => FirstFree(down'[k], Joins(c), From(c) \ OffersDown(c, k))
    BY <1>1, <1>4, <1>5, FirstFreeAppend DEF Told
  <2>4. Free(up'[c], To(k) \ OffersUp(c, k))
    BY <1>1, <1>4, FreeTail DEF Told
  <2> QED
    BY <1>2, <1>3, <1>4, <2>1, <2>2, <2>3, <2>4 DEF Told
<1>7. Offered(c, k)'
  <2>1. ~Free(down'[k], From(c))
    BY <1>1, FreeAppend
  <2>2. c \notin Known(k) => Follows(down'[k], Joins(c), From(c))
    <3>1. c \notin Known(k) => ~Free(down[k], Joins(c))
      BY <1>4 DEF Told, FirstFree, Free
    <3> QED
      BY <1>1, <3>1, FollowsAppend
  <2> QED
    BY <1>2, <2>1, <2>2 DEF Offered
<1>8. Answered(c, k)' /\ Agreed(c, k)' /\ Alive(c, k, TRUE)' /\ Alive(k, c, FALSE)'
  BY <1>2, <1>3 DEF Setup, Answered, Agreed, Alive
<1> QED
  BY <1>2, <1>6, <1>7, <1>8 DEF Setup

\* An answer is passed on.
LEMMA AnswerRelayed ==
  ASSUME TypeOK, NEW c \in Device, NEW k \in Device, Setup(c, k), UNCHANGED <<sessions, peers>>,
         up[k] # <<>>, Head(up[k]) \in To(c), up'[k] = Tail(up[k]), down'[k] = down[k],
         up'[c] = up[c], NEW f \in From(k), down'[c] = Append(down[c], f),
         f.session = Head(up[k]).session, f.answers = Head(up[k]).answers
  PROVE  Setup(c, k)'
<1>1. /\ up[k] \in Seq(ClientMessage) /\ down[c] \in Seq(ServerMessage) /\ f \in ServerMessage
      /\ f \notin Leaves(k) \union Joins(k)
  BY DEF TypeOK, From, Leaves, Joins
<1>2. /\ k \in Known(c)' <=> k \in Known(c)
      /\ c \in Known(k)' <=> c \in Known(k)
      /\ Current(k, c)' = Current(k, c) /\ Current(c, k)' = Current(c, k)
      /\ Silent(c, k)' <=> Silent(c, k)
      /\ Silent(k, c)' <=> Silent(k, c)
  BY SameKept
<1>3. /\ OffersUp(c, k)' = OffersUp(c, k) /\ OffersDown(c, k)' = OffersDown(c, k)
      /\ Taken(c, k)' <=> Taken(c, k)
      /\ AnswersUp(c, k)' = AnswersUp(c, k) /\ AnswersDown(c, k)' = AnswersDown(c, k)
  BY SameDescriptions
<1>4. Told(c, k)
  BY DEF Setup
<1>5. f \in AnswersDown(c, k)
  <2>1. Head(up[k]) \in AnswersUp(c, k)
    <3>1. Free(up[k], To(c) \ AnswersUp(c, k))
      BY <1>4 DEF Told
    <3> QED
      BY <1>1, <3>1, FreeTail
  <2> QED
    BY <2>1 DEF AnswersUp, AnswersDown
<1>6. Told(c, k)'
  <2>1. Free(down'[c], Leaves(k) \union Joins(k))
    BY <1>1, <1>4, FreeAppend DEF Told
  <2>2. Free(down'[c], From(k) \ AnswersDown(c, k))
    BY <1>1, <1>4, <1>5, FreeAppend DEF Told
  <2>3. k \in Known(c) \/ ~Free(down'[c], Calls(k))
    BY <1>1, <1>4, FreeAppend DEF Told
  <2>4. Free(up'[k], To(c) \ AnswersUp(c, k))
    BY <1>1, <1>4, FreeTail DEF Told
  <2> QED
    BY <1>2, <1>3, <1>4, <2>1, <2>2, <2>3, <2>4 DEF Told
<1>7. Answered(c, k)'
  <2>1. ~Free(down'[c], From(k))
    BY <1>1, FreeAppend
  <2> QED
    BY <1>2, <1>3, <2>1 DEF Setup, Answered
<1>8. Offered(c, k)' /\ Agreed(c, k)' /\ Alive(c, k, TRUE)' /\ Alive(k, c, FALSE)'
  BY <1>2, <1>3 DEF Setup, Offered, Agreed, Alive
<1> QED
  BY <1>2, <1>6, <1>7, <1>8 DEF Setup

LEMMA RelayEffect ==
  ASSUME TypeOK, Meetings, NEW d \in Device, ServerRelays(d)
  PROVE  /\ Inner /\ UNCHANGED <<sessions, peers, held, secretFor, budget>>
         /\ link[d] = "connected" /\ up[d] # <<>> /\ up[d] \in Seq(ClientMessage)
         /\ up'[d] = Tail(up[d]) /\ \A x \in Device : x # d => up'[x] = up[x]
         /\ \E e \in Device :
              /\ Head(up[d]) \in To(e)
              /\ IF e \in members[home[d]]
                 THEN \E f \in From(d) :
                        /\ f.session = Head(up[d]).session /\ f.answers = Head(up[d]).answers
                        /\ down'[e] = Append(down[e], f)
                        /\ \A x \in Device : x # e => down'[x] = down[x]
                 ELSE down' = down
<1> DEFINE m == Head(up[d])
<1>1. /\ Reads(d, "Signal") /\ Read(d) /\ UNCHANGED members
      /\ down' = IF m.peer \in members[m.room]
                 THEN [down EXCEPT ![m.peer] = Append(@,
                    [type |-> "Signal", peer |-> d, session |-> m.session, answers |-> m.answers])]
                 ELSE down
  BY DEF ServerRelays
<1>2. /\ m \in ClientMessage /\ m.type = "Signal" /\ up[d] # <<>> /\ up[d] \in Seq(ClientMessage)
      /\ link[d] = "connected"
  BY <1>1, ReadType DEF Reads, TypeOK
<1>3. m.peer \in Device /\ m.session \in Nat \ {0} /\ m.answers \in Nat
  BY <1>2, CarriedUp
<1>4. m.room = home[d]
  <2>1. Free(up[d], ClientMessage \ Local(d))
    BY DEF Meetings, HomeOnly
  <2>2. m \in Local(d)
    BY <1>2, <2>1, FreeTail
  <2> QED
    BY <1>2, <2>2 DEF Local, Joining
<1>5. Inner /\ UNCHANGED <<sessions, peers, held, secretFor, budget>>
  BY <1>1 DEF Reads, Inner, engine, task
<1>6. up'[d] = Tail(up[d]) /\ \A x \in Device : x # d => up'[x] = up[x]
  BY <1>1 DEF Read, TypeOK
<1>7. PICK e \in Device : e = m.peer
  BY <1>3
<1>8. m \in To(e)
  BY <1>2, <1>7 DEF To
<1> DEFINE f == [type |-> "Signal", peer |-> d, session |-> m.session, answers |-> m.answers]
<1>9. f \in ServerMessage /\ f.type = "Signal" /\ f.peer = d
      /\ f.session = m.session /\ f.answers = m.answers
  BY <1>3, ServerMessages
<1>10. down' = IF e \in members[home[d]] THEN [down EXCEPT ![e] = Append(@, f)] ELSE down
  BY <1>1, <1>4, <1>7
<1> HIDE DEF m, f
<1>11. f \in From(d)
  BY <1>9 DEF From
<1>12. e \in members[home[d]] =>
         down'[e] = Append(down[e], f) /\ \A x \in Device : x # e => down'[x] = down[x]
  BY <1>10 DEF TypeOK
<1> QED
  BY <1>2, <1>5, <1>6, <1>8, <1>9, <1>10, <1>11, <1>12 DEF m

LEMMA RelayMeets ==
  ASSUME TypeOK, Meetings, NEW d \in Device, ServerRelays(d)
  PROVE  Meetings'
<1>1. /\ Inner /\ UNCHANGED <<sessions, peers, held, secretFor, budget>>
      /\ link[d] = "connected" /\ up[d] # <<>> /\ up[d] \in Seq(ClientMessage)
      /\ up'[d] = Tail(up[d]) /\ \A x \in Device : x # d => up'[x] = up[x]
  BY RelayEffect
<1>2. PICK e \in Device :
        /\ Head(up[d]) \in To(e)
        /\ IF e \in members[home[d]]
           THEN \E f \in From(d) :
                  /\ f.session = Head(up[d]).session /\ f.answers = Head(up[d]).answers
                  /\ down'[e] = Append(down[e], f)
                  /\ \A x \in Device : x # e => down'[x] = down[x]
           ELSE down' = down
  BY RelayEffect
<1>3. e \in members[home[d]] => Inside(e) /\ home[e] = home[d] /\ link[e] = "connected"
  <2>1. home[d] \in Room
    BY TypeParts, ConstantTypes
  <2> QED
    BY <2>1 DEF Meetings, HomeOnly, Inside
<1>4. From(d) \subseteq ServerMessage /\ From(d) \cap (Starts \union Ends) = {} /\ From(d) \subseteq Usual
      /\ \A y : y # d => From(d) \cap About(y) = {}
  BY DEF From, Starts, Ends, Usual, About, Calls, Joins, Leaves
<1>5. \A x \in Device : /\ down[x] \in Seq(ServerMessage)
                        /\ \/ down'[x] = down[x]
                           \/ x = e /\ Inside(e) /\ \E f \in From(d) : down'[x] = Append(down[x], f)
  BY <1>2, <1>3 DEF TypeOK
<1>6. ASSUME NEW x \in Device PROVE HomeOnly(x)' /\ Connection(x)' /\ (Fresh(x)' => Fresh(x))
  <2>1. HomeOnly(x) /\ Connection(x) /\ (Inside(x)' <=> Inside(x)) /\ link'[x] = link[x]
    BY <1>1, InnerKept DEF Meetings, Inner
  <2>2. up'[x] = up[x] \/ (up[x] # <<>> /\ up'[x] = Tail(up[x]))
    BY <1>1
  <2>3. \/ down'[x] = down[x]
        \/ ~Arriving(x) /\ \E f \in ServerMessage \ (Starts \union Ends) : down'[x] = Append(down[x], f)
    BY <1>4, <1>5 DEF Arriving
  <2>4. Connection(x)' /\ (Fresh(x)' => Fresh(x))
    BY <2>1, <2>2, <2>3, ConnectionCarried
  <2>5. Free(up[x], ClientMessage \ Local(x)) => Free(up'[x], ClientMessage \ Local(x))
    BY <1>1, FreeTail
  <2>6. Free(down[x], ServerMessage \ Usual) => Free(down'[x], ServerMessage \ Usual)
    <3>1. ASSUME NEW f \in From(d), down'[x] = Append(down[x], f)
          PROVE  Free(down[x], ServerMessage \ Usual) => Free(down'[x], ServerMessage \ Usual)
      BY <1>4, <1>5, <3>1, FreeAppend
    <3> QED
      BY <1>5, <3>1
  <2>7. Local(x)' = Local(x)
    BY <1>1 DEF Local, Inner
  <2>8. HomeOnly(x)'
    BY <1>1, <2>1, <2>5, <2>6, <2>7 DEF HomeOnly, Inner
  <2> QED
    BY <2>4, <2>8
<1>7. ASSUME NEW x \in Device, NEW y \in Device, x # y, {x, y} # {d, e} PROVE Same(x, y)
  <2>1. Alike(up'[x], up[x], To(y))
    <3>1. CASE x = d
      <4>1. Head(up[d]) \notin To(y)
        BY <1>2, <1>7, <3>1 DEF To
      <4> QED
        BY <1>1, <3>1, <4>1, AlikeTail
    <3>2. CASE x # d
      BY <1>1, <3>2, AlikeSame
    <3> QED
      BY <3>1, <3>2
  <2>2. Alike(down'[x], down[x], About(y))
    <3>1. CASE down'[x] = down[x]
      BY <3>1, AlikeSame
    <3>2. ASSUME x = e, NEW f \in From(d), down'[x] = Append(down[x], f)
          PROVE  Alike(down'[x], down[x], About(y))
      <4>1. y # d
        BY <1>7, <3>2
      <4>2. f \in ServerMessage /\ f \notin About(y)
        BY <1>4, <4>1
      <4> QED
        BY <1>5, <3>2, <4>2, AlikeAppend
    <3> QED
      BY <1>5, <3>1, <3>2
  <2> QED
    BY <1>1, <2>1, <2>2 DEF Same
<1>8. ASSUME d # e PROVE Pair(d, e)' /\ Pair(e, d)'
  <2>1. Pair(d, e) /\ Pair(e, d)
    BY <1>8, PairOf
  <2>2. /\ Meeting(d, e)' <=> Meeting(d, e)
        /\ Meeting(e, d)' <=> Meeting(e, d)
        /\ Meeting(e, d) <=> Meeting(d, e)
        /\ Arriving(d)' <=> Arriving(d)
        /\ Arriving(e)' <=> Arriving(e)
        /\ link' = link /\ down'[d] = down[d] /\ up'[e] = up[e]
    BY <1>1, <1>2, <1>8, InnerKept, MeetingBoth DEF Inner
  <2>3. /\ e \in Known(d)' <=> e \in Known(d)
        /\ d \in Known(e)' <=> d \in Known(e)
        /\ Silent(d, e)' <=> Silent(d, e)
        /\ Silent(e, d)' <=> Silent(e, d)
        /\ Describes(d, e)' <=> Describes(d, e)
        /\ Describes(e, d)' <=> Describes(e, d)
    BY <1>1, SameKept
  <2>4. ~Free(up[d], To(e))
    BY <1>1, <1>2, FreeTail
  <2>5. ~Arriving(e)
    BY <2>1, <2>4 DEF Pair, Arrival
  <2>6. /\ Free(down[e], Calls(d) \union Joins(d)) => Free(down'[e], Calls(d) \union Joins(d))
        /\ Free(down[e], Leaves(d)) => Free(down'[e], Leaves(d))
        /\ LastFree(down[e], Leaves(d) \union Ends, Calls(d) \union Joins(d)) =>
             LastFree(down'[e], Leaves(d) \union Ends, Calls(d) \union Joins(d))
    <3>1. ASSUME NEW f \in From(d), down'[e] = Append(down[e], f)
          PROVE  /\ Free(down[e], Calls(d) \union Joins(d)) => Free(down'[e], Calls(d) \union Joins(d))
                 /\ Free(down[e], Leaves(d)) => Free(down'[e], Leaves(d))
                 /\ LastFree(down[e], Leaves(d) \union Ends, Calls(d) \union Joins(d)) =>
                      LastFree(down'[e], Leaves(d) \union Ends, Calls(d) \union Joins(d))
      <4>1. f \in ServerMessage /\ f \notin Calls(d) \union Joins(d) /\ f \notin Leaves(d)
        BY DEF From, Calls, Joins, Leaves
      <4> QED
        BY <1>5, <3>1, <4>1, FreeAppend, LastFreeAppend
    <3> QED
      BY <1>5, <3>1
  <2>7. Newcomer(d, e)' /\ Newcomer(e, d)'
    BY <1>6, <2>1, <2>2, <2>3, <2>6 DEF Pair, Newcomer
  <2>8. ~Meeting(d, e) => Gone(d, e)' /\ Gone(e, d)'
    BY <2>1, <2>2, <2>3, <2>6 DEF Pair, Gone
  <2>9. ASSUME Arriving(d) PROVE Arrival(d, e)'
    <3>1. Arrival(d, e)
      BY <2>1, <2>9 DEF Pair
    <3>2. link[e] # "connected" => down'[e] = down[e]
      BY <1>2, <1>3
    <3> QED
      BY <2>2, <2>3, <2>6, <3>1, <3>2 DEF Arrival
  <2>10. ASSUME Meeting(d, e) PROVE Setup(d, e)' \/ Setup(e, d)'
    <3>1. Setup(d, e) \/ Setup(e, d)
      BY <2>1, <2>10 DEF Pair
    <3>2. PICK f \in From(d) :
            /\ f.session = Head(up[d]).session /\ f.answers = Head(up[d]).answers
            /\ down'[e] = Append(down[e], f)
      BY <1>2, <2>10 DEF Meeting, Inside
    <3>3. CASE Setup(d, e)
      BY <1>1, <1>2, <2>2, <3>2, <3>3, OfferRelayed
    <3>4. CASE Setup(e, d)
      BY <1>1, <1>2, <2>2, <3>2, <3>4, AnswerRelayed
    <3> QED
      BY <3>1, <3>3, <3>4
  <2> QED
    BY <2>2, <2>5, <2>7, <2>8, <2>9, <2>10 DEF Pair
<1>9. \A x \in Device : \A y \in Others(x) : Pair(x, y)'
  <2> SUFFICES ASSUME NEW x \in Device, NEW y \in Others(x)
               PROVE  (Same(x, y) /\ Same(y, x)) \/ Pair(x, y)'
    BY <1>1, <1>6, Pairs
  <2>1. CASE {x, y} = {d, e}
    <3>1. d # e /\ ((x = d /\ y = e) \/ (x = e /\ y = d))
      BY <2>1 DEF Others
    <3> QED
      BY <1>8, <3>1
  <2>2. CASE {x, y} # {d, e}
    BY <1>7, <2>2 DEF Others
  <2> QED
    BY <2>1, <2>2
<1> QED
  BY <1>1, <1>6, <1>9, SameFailures DEF Meetings

\* A session that gets into a state and reports it.
Turned(old, new, state, report) ==
  /\ new.caller = old.caller /\ new.remote = old.remote
  /\ new.state = state /\ new.reports = Append(old.reports, report)

LEMMA TurnedSession ==
  ASSUME NEW old \in Session, NEW state \in {"open", "closed"}, NEW report \in Report, NEW new,
         new = [old EXCEPT !.state = state, !.reports = Append(@, report)]
  PROVE  new \in Session /\ Turned(old, new, state, report)
<1> DEFINE reports == Append(old.reports, report)
<1>1. reports \in Seq(Report) /\ new = [old EXCEPT !.state = state, !.reports = reports]
  BY DEF Session
<1> HIDE DEF reports
<1>2. new \in Session /\ new.caller = old.caller /\ new.remote = old.remote
      /\ new.state = state /\ new.reports = reports
  BY <1>1 DEF Session
<1> QED
  BY <1>2 DEF Turned, reports

LEMMA OpensEffect ==
  ASSUME TypeOK, NEW d \in Device, NEW e \in Others(d), NEW n \in DOMAIN sessions[d][e],
         ChannelOpens(d, e, n)
  PROVE  LET k == sessions[d][e][n].remote IN
         /\ Inner /\ UNCHANGED <<peers, up, down, held, secretFor, budget>>
         /\ sessions[d][e][n].caller /\ sessions[d][e][n].state = "new" /\ k # 0
         /\ sessions[e][d][k].state = "new" /\ sessions[e][d][k].remote = n
         /\ \A x, y \in Device : {x, y} # {d, e} => sessions'[x][y] = sessions[x][y]
         /\ DOMAIN sessions'[d][e] = DOMAIN sessions[d][e]
         /\ DOMAIN sessions'[e][d] = DOMAIN sessions[e][d]
         /\ \A i \in DOMAIN sessions[d][e] : i # n => sessions'[d][e][i] = sessions[d][e][i]
         /\ \A i \in DOMAIN sessions[e][d] : i # k => sessions'[e][d][i] = sessions[e][d][i]
         /\ Turned(sessions[d][e][n], sessions'[d][e][n], "open", "Open")
         /\ k \in DOMAIN sessions[e][d] =>
              Turned(sessions[e][d][k], sessions'[e][d][k], "open", "Open")
<1>0. SessionsOK /\ e \in Device /\ e # d
  BY TypeParts DEF Others
<1>1. /\ sessions[d][e] \in Seq(Session) /\ sessions[d][e][n] \in Session
      /\ sessions[e][d] \in Seq(Session)
  BY <1>0 DEF SessionsOK
<1> DEFINE Opened(session) == [session EXCEPT !.state = "open", !.reports = Append(@, "Open")]
           k == sessions[d][e][n].remote
           near == [sessions[d][e] EXCEPT ![n] = Opened(sessions[d][e][n])]
           far == [sessions[e][d] EXCEPT ![k] = Opened(sessions[e][d][k])]
<1>2. Inner /\ UNCHANGED <<peers, up, down, held, secretFor, budget>>
  BY DEF ChannelOpens, Inner, engine, task, server
<1>3. /\ sessions[d][e][n].caller /\ sessions[d][e][n].state = "new" /\ k # 0
      /\ sessions[e][d][k].state = "new" /\ sessions[e][d][k].remote = n
  BY DEF ChannelOpens, CanOpen, Remote
<1>4. sessions' = [sessions EXCEPT ![d][e][n] = Opened(@), ![e][d][k] = Opened(@)]
  BY DEF ChannelOpens
<1>5. \A session \in Session :
        Opened(session) \in Session /\ Turned(session, Opened(session), "open", "Open")
  <2>1. "Open" \in Report
    BY DEF Report
  <2> QED
    BY <2>1, TurnedSession
<1> HIDE DEF Opened, k
<1>6. /\ near \in Seq(Session) /\ DOMAIN near = DOMAIN sessions[d][e]
      /\ \A i \in DOMAIN sessions[d][e] :
           near[i] = IF i = n THEN Opened(sessions[d][e][n]) ELSE sessions[d][e][i]
  BY <1>1, <1>5, Updated
<1>7. /\ DOMAIN far = DOMAIN sessions[e][d]
      /\ \A i \in DOMAIN sessions[e][d] :
           far[i] = IF i = k THEN Opened(sessions[e][d][k]) ELSE sessions[e][d][i]
  BY <1>1
<1>8. sessions' = [sessions EXCEPT ![d] = [sessions[d] EXCEPT ![e] = near],
                                   ![e] = [sessions[e] EXCEPT ![d] = far]]
  BY <1>0, <1>4 DEF SessionsOK
<1> HIDE DEF near, far
<1>9. \A x, y \in Device :
        sessions'[x][y] = IF x = d /\ y = e THEN near ELSE IF x = e /\ y = d THEN far
                          ELSE sessions[x][y]
  BY <1>0, <1>8 DEF SessionsOK
<1>10. sessions'[d][e] = near /\ sessions'[e][d] = far
  BY <1>0, <1>9
<1>11. \A x, y \in Device : {x, y} # {d, e} => sessions'[x][y] = sessions[x][y]
  BY <1>9
<1>12. k \in DOMAIN sessions[e][d] => sessions[e][d][k] \in Session
  BY <1>1
<1>13. /\ Turned(sessions[d][e][n], sessions'[d][e][n], "open", "Open")
       /\ k \in DOMAIN sessions[e][d] =>
            Turned(sessions[e][d][k], sessions'[e][d][k], "open", "Open")
  BY <1>1, <1>5, <1>6, <1>7, <1>10, <1>12
<1> QED
  BY <1>2, <1>3, <1>6, <1>7, <1>10, <1>11, <1>13 DEF k

LEMMA ClosesEffect ==
  ASSUME TypeOK, NEW d \in Device, NEW e \in Others(d), NEW n \in DOMAIN sessions[d][e],
         ChannelCloses(d, e, n)
  PROVE  /\ Inner /\ UNCHANGED <<peers, up, down, held, secretFor, budget>>
         /\ sessions[d][e][n].state = "open"
         /\ sessions[e][d][sessions[d][e][n].remote].state \in {"closed", "failed"}
         /\ \A x, y \in Device : x # d \/ y # e => sessions'[x][y] = sessions[x][y]
         /\ DOMAIN sessions'[d][e] = DOMAIN sessions[d][e]
         /\ \A i \in DOMAIN sessions[d][e] : i # n => sessions'[d][e][i] = sessions[d][e][i]
         /\ Turned(sessions[d][e][n], sessions'[d][e][n], "closed", "Closed")
<1>1. e \in Device /\ sessions[d][e] \in Seq(Session) /\ sessions[d][e][n] \in Session
  BY DEF TypeOK, Others
<1> DEFINE v == ClosedSession(sessions[d][e][n])
<1>2. sessions' = [sessions EXCEPT ![d][e][n] = v]
  BY DEF ChannelCloses
<1>3. v \in Session /\ Turned(sessions[d][e][n], v, "closed", "Closed")
  BY <1>1, TurnedSession DEF ClosedSession, Report
<1> HIDE DEF v
<1>4. /\ DOMAIN sessions'[d][e] = DOMAIN sessions[d][e]
      /\ \A i \in DOMAIN sessions[d][e] :
           sessions'[d][e][i] = IF i = n THEN v ELSE sessions[d][e][i]
      /\ \A x, y \in Device : x # d \/ y # e => sessions'[x][y] = sessions[x][y]
  BY <1>1, <1>2, <1>3, Replaced
<1>5. Inner /\ UNCHANGED <<peers, up, down, held, secretFor, budget>>
  BY DEF ChannelCloses, Inner, engine, task, server
<1>6. /\ sessions[d][e][n].state = "open"
      /\ sessions[e][d][sessions[d][e][n].remote].state \in {"closed", "failed"}
  BY DEF ChannelCloses, CanClose, Remote
<1> QED
  BY <1>3, <1>4, <1>5, <1>6

\* A session that only turns has nothing new to describe.
LEMMA TurnedDescribes ==
  ASSUME TypeOK, NEW x \in Device, NEW y \in Device, NEW n, NEW state, NEW report \in {"Open", "Closed"},
         DOMAIN sessions'[x][y] = DOMAIN sessions[x][y],
         \A i \in DOMAIN sessions[x][y] : i # n => sessions'[x][y][i] = sessions[x][y][i],
         n \in DOMAIN sessions[x][y] => Turned(sessions[x][y][n], sessions'[x][y][n], state, report)
  PROVE  Describes(x, y)' => Describes(x, y)
<1> SUFFICES ASSUME Describes(x, y)' PROVE Describes(x, y)
  OBVIOUS
<1>1. PICK i \in DOMAIN sessions[x][y] : ~Free(sessions'[x][y][i].reports, {"LocalDescription"})
  BY DEF Describes
<1>2. sessions[x][y] \in Seq(Session)
  BY DEF TypeOK
<1>3. sessions[x][y][i] \in Session
  BY <1>2
<1>4. sessions[x][y][i].reports \in Seq(Report) /\ report \in Report /\ report \notin {"LocalDescription"}
  BY <1>3 DEF Session, Report
<1>5. CASE i # n
  BY <1>1, <1>5 DEF Describes
<1>6. CASE i = n
  <2>1. sessions'[x][y][i].reports = Append(sessions[x][y][i].reports, report)
    BY <1>6 DEF Turned
  <2>2. ~Free(sessions[x][y][i].reports, {"LocalDescription"})
    BY <1>1, <1>4, <2>1, FreeAppend, SMTT(30)
  <2> QED
    BY <2>2 DEF Describes
<1> QED
  BY <1>5, <1>6

LEMMA PairTurned ==
  ASSUME NEW x \in Device, NEW y \in Device, Pair(x, y), Inner, UNCHANGED <<peers, up, down>>,
         Describes(x, y)' => Describes(x, y), Arriving(x) => Arrival(x, y)',
         Meeting(x, y) => Setup(x, y)' \/ Setup(y, x)'
  PROVE  Pair(x, y)'
<1>1. /\ Meeting(x, y)' <=> Meeting(x, y)
      /\ Arriving(x)' <=> Arriving(x)
      /\ y \in Known(x)' <=> y \in Known(x)
  BY InnerKept DEF Known
<1>2. Newcomer(x, y)' /\ (~Meeting(x, y) => Gone(x, y)')
  BY <1>1 DEF Pair, Newcomer, Gone, Fresh
<1> QED
  BY <1>1, <1>2 DEF Pair

\* The current session of x with y opens.
LEMMA OpenedKept ==
  ASSUME TypeOK, NEW x \in Device, NEW y \in Device, Silent(x, y), NEW caller, Alive(x, y, caller),
         y \in Known(x), UNCHANGED peers, Current(x, y).remote # 0,
         DOMAIN sessions'[x][y] = DOMAIN sessions[x][y],
         \A i \in DOMAIN sessions[x][y] : i # peers[x][y].session =>
           sessions'[x][y][i] = sessions[x][y][i],
         Turned(Current(x, y), Current(x, y)', "open", "Open")
  PROVE  /\ Silent(x, y)' /\ Alive(x, y, caller)'
         /\ Free(Current(x, y)'.reports, {"LocalDescription"})
              <=> Free(Current(x, y).reports, {"LocalDescription"})
<1>1. Current(x, y).reports \in Seq(Report) /\ "Open" \in Report /\ y \in Known(x)'
  BY CurrentType DEF Report, Known
<1>2. Silent(x, y)'
  BY <1>1 DEF Silent
<1>3. /\ Free(Current(x, y)'.reports, {"Failed", "Closed"})
           <=> Free(Current(x, y).reports, {"Failed", "Closed"})
      /\ Free(Current(x, y)'.reports, {"LocalDescription"})
           <=> Free(Current(x, y).reports, {"LocalDescription"})
      /\ ~Free(Current(x, y)'.reports, {"Open"})
  BY <1>1, FreeAppend DEF Turned
<1>4. Alive(x, y, caller)'
  BY <1>1, <1>3 DEF Alive, Turned
<1> QED
  BY <1>2, <1>3, <1>4

\* The channel of a call opens at both ends.
LEMMA SetupOpens ==
  ASSUME TypeOK, NEW c \in Device, NEW k \in Device, Setup(c, k), k \in Known(c),
         UNCHANGED <<peers, up, down>>, Current(c, k).remote # 0,
         DOMAIN sessions'[c][k] = DOMAIN sessions[c][k],
         DOMAIN sessions'[k][c] = DOMAIN sessions[k][c],
         \A i \in DOMAIN sessions[c][k] : i # peers[c][k].session =>
           sessions'[c][k][i] = sessions[c][k][i],
         \A i \in DOMAIN sessions[k][c] : i # peers[k][c].session =>
           sessions'[k][c][i] = sessions[k][c][i],
         Turned(Current(c, k), Current(c, k)', "open", "Open"),
         Turned(Current(k, c), Current(k, c)', "open", "Open")
  PROVE  Setup(c, k)'
<1>1. /\ Taken(c, k) /\ c \in Known(k) /\ Current(c, k).remote = peers[k][c].session
      /\ Current(k, c).remote = peers[c][k].session /\ Current(k, c).remote # 0
  <2>1. Taken(c, k) /\ Current(c, k).remote = peers[k][c].session
    BY DEF Setup, Agreed
  <2>2. Current(k, c).remote = peers[c][k].session /\ c \in Known(k)
    BY <2>1 DEF Taken
  <2> QED
    BY <2>1, <2>2, CurrentType
<1>2. k \in Known(c)' /\ c \in Known(k)'
  BY <1>1 DEF Known
<1>3. /\ Silent(c, k)' /\ Alive(c, k, TRUE)' /\ Silent(k, c)' /\ Alive(k, c, FALSE)'
      /\ Free(Current(k, c)'.reports, {"LocalDescription"})
           <=> Free(Current(k, c).reports, {"LocalDescription"})
  BY <1>1, OpenedKept DEF Setup
<1>4. /\ Current(c, k)'.remote = Current(c, k).remote
      /\ Current(k, c)'.remote = Current(k, c).remote
      /\ Current(c, k)'.state = "open" /\ Current(k, c)'.state = "open"
  BY DEF Turned
<1>5. Taken(c, k)'
  BY <1>1, <1>2, <1>4 DEF Taken
<1>6. /\ OffersUp(c, k)' = OffersUp(c, k) /\ OffersDown(c, k)' = OffersDown(c, k)
      /\ AnswersUp(c, k)' = AnswersUp(c, k) /\ AnswersDown(c, k)' = AnswersDown(c, k)
  BY <1>1, <1>2, <1>5 DEF OffersUp, OffersDown, AnswersUp, AnswersDown
<1>7. Told(c, k)'
  BY <1>1, <1>2, <1>6 DEF Setup, Told
<1>8. Offered(c, k)' /\ Answered(c, k)' /\ Agreed(c, k)'
  BY <1>1, <1>2, <1>4, <1>5 DEF Offered, Answered, Agreed
<1> QED
  BY <1>3, <1>7, <1>8 DEF Setup

\* A session that is not closed is the current one.
LEMMA NotLeaked ==
  ASSUME NoSessionIsLeaked, NEW x \in Device, NEW y \in Device, NEW n \in DOMAIN sessions[x][y],
         sessions[x][y][n].state # "closed"
  PROVE  y \in Known(x) /\ peers[x][y].session = n /\ Current(x, y) = sessions[x][y][n]
BY DEF NoSessionIsLeaked, Known, Current

LEMMA StillRest ==
  ASSUME Meetings, Inner, UNCHANGED <<up, down, held, secretFor>>
  PROVE  \A x \in Device : HomeOnly(x)' /\ Connection(x)' /\ (Fresh(x)' => Fresh(x))
<1> SUFFICES ASSUME NEW x \in Device
             PROVE  HomeOnly(x)' /\ Connection(x)' /\ (Fresh(x)' => Fresh(x))
  OBVIOUS
<1>1. HomeOnly(x) /\ Connection(x) /\ (Inside(x)' <=> Inside(x)) /\ link'[x] = link[x]
  BY InnerKept DEF Meetings, Inner
<1> QED
  BY <1>1, ConnectionSame, HomeSame DEF Inner

LEMMA OpensMeets ==
  ASSUME TypeOK, NoSessionIsLeaked, Meetings, NEW d \in Device, NEW e \in Others(d),
         NEW n \in DOMAIN sessions[d][e], ChannelOpens(d, e, n)
  PROVE  Meetings'
<1> DEFINE k == sessions[d][e][n].remote
<1>2. /\ Inner /\ UNCHANGED <<peers, up, down, held, secretFor, budget>>
      /\ sessions[d][e][n].caller /\ sessions[d][e][n].state = "new" /\ k # 0
      /\ sessions[e][d][k].state = "new" /\ sessions[e][d][k].remote = n
      /\ \A x, y \in Device : {x, y} # {d, e} => sessions'[x][y] = sessions[x][y]
      /\ DOMAIN sessions'[d][e] = DOMAIN sessions[d][e]
      /\ DOMAIN sessions'[e][d] = DOMAIN sessions[e][d]
      /\ \A i \in DOMAIN sessions[d][e] : i # n => sessions'[d][e][i] = sessions[d][e][i]
      /\ \A i \in DOMAIN sessions[e][d] : i # k => sessions'[e][d][i] = sessions[e][d][i]
      /\ Turned(sessions[d][e][n], sessions'[d][e][n], "open", "Open")
      /\ k \in DOMAIN sessions[e][d] =>
           Turned(sessions[e][d][k], sessions'[e][d][k], "open", "Open")
  BY OpensEffect
<1>1. k = sessions[d][e][n].remote
  OBVIOUS
<1> HIDE DEF k
<1>3. e \in Device /\ e # d /\ Pair(d, e) /\ Pair(e, d)
  BY PairOf DEF Others
<1>4. /\ e \in Known(d) /\ peers[d][e].session = n /\ Current(d, e) = sessions[d][e][n]
      /\ Current(d, e)' = sessions'[d][e][n]
  BY <1>2, <1>3, NotLeaked DEF Current
<1>5. k \in DOMAIN sessions[e][d] => d \in Known(e) /\ peers[e][d].session = k
  BY <1>2, <1>3, NotLeaked
<1>6. (Describes(d, e)' => Describes(d, e)) /\ (Describes(e, d)' => Describes(e, d))
  BY <1>2, <1>3, TurnedDescribes, SMTT(30)
<1>7. ~Arriving(d)
  BY <1>3, <1>4 DEF Pair, Arrival
<1>8. ASSUME Arriving(e) PROVE Arrival(e, d)'
  <2>1. Arrival(e, d)
    BY <1>3, <1>8 DEF Pair
  <2>2. d \notin Known(e) /\ link[d] # "connected" /\ ~Describes(d, e)
    BY <1>4, <2>1 DEF Arrival
  <2>3. \A i \in DOMAIN sessions[e][d] : sessions'[e][d][i] = sessions[e][d][i]
    BY <1>2, <1>5, <2>2
  <2>4. Silent(e, d)'
    BY <1>2, <2>1, <2>2, <2>3 DEF Arrival, Silent, Known
  <2>5. link'[d] # "connected" /\ d \notin Known(e)' /\ ~Describes(d, e)'
    BY <1>2, <1>6, <2>2 DEF Inner, Known
  <2> QED
    BY <1>2, <2>1, <2>2, <2>4, <2>5 DEF Arrival, Known
<1>9. ASSUME Meeting(d, e) PROVE Setup(d, e)'
  <2>1. Setup(d, e)
    <3>1. ~Setup(e, d)
      BY <1>2, <1>4 DEF Setup, Alive
    <3> QED
      BY <1>3, <1>9, <3>1 DEF Pair
  <2>2. Taken(d, e) /\ k = peers[e][d].session /\ d \in Known(e)
    <3>1. Taken(d, e) /\ Current(d, e).remote = peers[e][d].session
      BY <1>1, <1>2, <1>4, <2>1 DEF Setup, Agreed
    <3> QED
      BY <1>1, <1>4, <3>1 DEF Taken
  <2>3. k \in DOMAIN sessions[e][d] /\ Current(e, d) = sessions[e][d][k]
        /\ Current(e, d)' = sessions'[e][d][k]
    BY <1>2, <1>3, <2>2, CurrentType DEF Current
  <2>4. Turned(Current(d, e), Current(d, e)', "open", "Open")
        /\ Turned(Current(e, d), Current(e, d)', "open", "Open")
        /\ Current(d, e).remote # 0
    BY <1>1, <1>2, <1>4, <2>3
  <2> QED
    BY <1>2, <1>3, <1>4, <2>1, <2>2, <2>4, SetupOpens
<1>10. Pair(d, e)' /\ Pair(e, d)'
  <2>1. Meeting(e, d) <=> Meeting(d, e)
    BY <1>3, MeetingBoth
  <2> QED
    BY <1>2, <1>3, <1>6, <1>7, <1>8, <1>9, <2>1, PairTurned
<1>11. \A x \in Device : HomeOnly(x)' /\ Connection(x)' /\ (Fresh(x)' => Fresh(x))
  BY <1>2, StillRest
<1>12. \A x \in Device : \A y \in Others(x) : Pair(x, y)'
  <2> SUFFICES ASSUME NEW x \in Device, NEW y \in Others(x)
               PROVE  (Same(x, y) /\ Same(y, x)) \/ Pair(x, y)'
    BY <1>2, <1>11, Pairs
  <2>1. CASE {x, y} = {d, e}
    <3>1. (x = d /\ y = e) \/ (x = e /\ y = d)
      BY <1>3, <2>1 DEF Others
    <3> QED
      BY <1>10, <3>1
  <2>2. CASE {x, y} # {d, e}
    <3>1. {y, x} # {d, e} /\ y \in Device
      BY <2>2 DEF Others
    <3> QED
      BY <1>2, <2>2, <3>1, AlikeSame DEF Same
  <2> QED
    BY <2>1, <2>2
<1> QED
  BY <1>2, <1>11, <1>12, SameFailures DEF Meetings

LEMMA ClosesMeets ==
  ASSUME TypeOK, NoSessionIsLeaked, Meetings, NEW d \in Device, NEW e \in Others(d),
         NEW n \in DOMAIN sessions[d][e], ChannelCloses(d, e, n)
  PROVE  Meetings'
<1>1. /\ Inner /\ UNCHANGED <<peers, up, down, held, secretFor, budget>>
      /\ sessions[d][e][n].state = "open"
      /\ sessions[e][d][sessions[d][e][n].remote].state \in {"closed", "failed"}
      /\ \A x, y \in Device : x # d \/ y # e => sessions'[x][y] = sessions[x][y]
      /\ DOMAIN sessions'[d][e] = DOMAIN sessions[d][e]
      /\ \A i \in DOMAIN sessions[d][e] : i # n => sessions'[d][e][i] = sessions[d][e][i]
      /\ Turned(sessions[d][e][n], sessions'[d][e][n], "closed", "Closed")
  BY ClosesEffect
<1>2. e \in Device /\ e # d /\ Pair(d, e) /\ Pair(e, d)
  BY PairOf DEF Others
<1>3. e \in Known(d) /\ peers[d][e].session = n /\ Current(d, e) = sessions[d][e][n]
  BY <1>1, <1>2, NotLeaked
<1>4. /\ Describes(d, e)' => Describes(d, e)
      /\ sessions'[e][d] = sessions[e][d]
  BY <1>1, <1>2, TurnedDescribes
<1>5. Describes(e, d)' <=> Describes(e, d)
  BY <1>1, <1>4, <1>2, SameKept
<1>6. ~Arriving(d)
  BY <1>2, <1>3 DEF Pair, Arrival
<1>7. ASSUME Arriving(e) PROVE Arrival(e, d)'
  <2>1. Arrival(e, d)
    BY <1>2, <1>7 DEF Pair
  <2>2. d \notin Known(e) /\ link[d] # "connected" /\ ~Describes(d, e)
    BY <1>3, <2>1 DEF Arrival
  <2>3. (Silent(e, d)' <=> Silent(e, d)) /\ link'[d] # "connected" /\ d \notin Known(e)'
    BY <1>1, <1>2, <1>4, <2>2, SameKept DEF Inner
  <2> QED
    BY <1>1, <1>4, <2>1, <2>2, <2>3 DEF Arrival, Known
\* The ends of a call are open together, and neither has closed.
<1>8. ~Meeting(d, e)
  <2> SUFFICES ASSUME Setup(d, e) \/ Setup(e, d) PROVE FALSE
    BY <1>2 DEF Pair
  <2>1. d \in Known(e) /\ Current(d, e).remote = peers[e][d].session
    <3>1. Current(d, e).remote # 0
      BY <1>1, <1>3 DEF Setup, Alive
    <3>2. Taken(d, e) \/ Taken(e, d)
      BY <1>3, <3>1 DEF Setup, Agreed, Answered
    <3>3. d \in Known(e)
      BY <3>2 DEF Taken
    <3>4. Setup(d, e) => Current(d, e).remote = peers[e][d].session
      BY <1>3, <3>1 DEF Setup, Agreed
    <3>5. Setup(e, d) => Current(d, e).remote = peers[e][d].session
      BY <1>3, <3>1 DEF Setup, Answered, Taken
    <3> QED
      BY <3>3, <3>4, <3>5
  <2>2. Current(e, d) = sessions[e][d][sessions[d][e][n].remote]
    BY <1>3, <2>1 DEF Current
  <2>3. Current(e, d).state \in {"new", "open"}
    BY <2>1 DEF Setup, Alive
  <2> QED
    BY <1>1, <2>2, <2>3
<1>9. Pair(d, e)' /\ Pair(e, d)'
  <2>1. Meeting(e, d) <=> Meeting(d, e)
    BY <1>2, MeetingBoth
  <2> QED
    BY <1>1, <1>2, <1>4, <1>5, <1>6, <1>7, <1>8, <2>1, PairTurned
<1>10. \A x \in Device : HomeOnly(x)' /\ Connection(x)' /\ (Fresh(x)' => Fresh(x))
  BY <1>1, StillRest
<1>11. \A x \in Device : \A y \in Others(x) : Pair(x, y)'
  <2> SUFFICES ASSUME NEW x \in Device, NEW y \in Others(x)
               PROVE  (Same(x, y) /\ Same(y, x)) \/ Pair(x, y)'
    BY <1>1, <1>10, Pairs
  <2>1. CASE (x = d /\ y = e) \/ (x = e /\ y = d)
    BY <1>9, <2>1
  <2>2. CASE ~(x = d /\ y = e) /\ ~(x = e /\ y = d)
    BY <1>1, <2>2, AlikeSame DEF Same, Others
  <2> QED
    BY <2>1, <2>2
<1> QED
  BY <1>1, <1>10, <1>11, SameFailures DEF Meetings

-----------------------------------------------------------------------------
(* The signaling task.                                                     *)

\* A step about d leaves the others as they are to each other.
LEMMA PairsElsewhere ==
  ASSUME Meetings, NEW d \in Device, home' = home,
         \A x \in Device : x # d => /\ link'[x] = link[x] /\ (Inside(x)' <=> Inside(x))
                                    /\ Fresh(x)' => Fresh(x),
         \A x, y \in Device : x # d /\ y # d => Same(x, y),
         \A y \in Others(d) : Pair(d, y)' /\ Pair(y, d)'
  PROVE  \A x \in Device : \A y \in Others(x) : Pair(x, y)'
<1> SUFFICES ASSUME NEW x \in Device, NEW y \in Others(x), x # d, y # d PROVE Pair(x, y)'
  BY DEF Others
<1>1. y \in Device /\ Pair(x, y)
  BY DEF Meetings, Others
<1>2. Same(x, y) /\ Same(y, x)
  BY <1>1
<1>3. /\ Meeting(x, y)' <=> Meeting(x, y)
      /\ Arriving(x)' <=> Arriving(x)
  BY <1>1 DEF Meeting, Arriving
<1> QED
  BY <1>1, <1>2, <1>3, PairSame

LEMMA NotUnderWay ==
  ASSUME NEW d \in Device, ~UnderWay(d), NEW e \in Others(d)
  PROVE  /\ down[d] = <<>>
         /\ Free(down[e], Calls(d) \union Joins(d)) /\ Free(down[e], Leaves(d))
         /\ Free(down[e], From(d)) /\ Free(up[e], To(d))
         /\ Silent(d, e) /\ Silent(e, d) /\ ~Describes(d, e) /\ ~Describes(e, d)
<1>1. /\ down[d] = <<>>
      /\ \A i \in DOMAIN down[e] :
           /\ ~(down[e][i].type \in {"PeerJoined", "PeerLeft", "Signal"} /\ down[e][i].peer = d)
           /\ ~(down[e][i].type = "Peers" /\ d \in down[e][i].peers)
      /\ \A i \in DOMAIN up[e] : ~(up[e][i].type = "Signal" /\ up[e][i].peer = d)
      /\ \A n \in DOMAIN sessions[d][e] : sessions[d][e][n].reports = <<>>
      /\ \A n \in DOMAIN sessions[e][d] : sessions[e][d][n].reports = <<>>
  BY DEF UnderWay
<1>2. Silent(d, e) /\ Silent(e, d) /\ ~Describes(d, e) /\ ~Describes(e, d)
  BY <1>1, FreeEmpty DEF Silent, Describes
<1>3. /\ Free(down[e], Calls(d) \union Joins(d)) /\ Free(down[e], Leaves(d))
      /\ Free(down[e], From(d)) /\ Free(up[e], To(d))
  BY <1>1 DEF Free, Calls, Joins, Leaves, From, To
<1> QED
  BY <1>1, <1>2, <1>3

\* A device that is not connected is in no room.
LEMMA OutsideRooms ==
  ASSUME TypeOK, Meetings, NEW d \in Device, link[d] # "connected"
  PROVE  /\ ~Inside(d) /\ ~Arriving(d) /\ \A room \in Room : d \notin members[room]
         /\ \A y \in Device : ~Meeting(d, y) /\ ~Meeting(y, d)
<1>1. ~Inside(d)
  BY InsideConnected
<1> QED
  BY <1>1 DEF Arriving, Meetings, HomeOnly, Meeting

LEMMA ConnectMeets ==
  ASSUME Unpaired, TypeOK, Meetings, hurried = {}, NEW d \in Device, Connect(d)
  PROVE  Meetings'
<1> DEFINE start == [type |-> "Identity"]
<1>1. /\ link[d] = "connecting" /\ ~UnderWay(d)
      /\ link' = [link EXCEPT ![d] = "connected"]
      /\ down' = [down EXCEPT ![d] = Append(@, start)]
      /\ UNCHANGED <<peers, held, secretFor, sessions, up, home, members, budget>>
  BY DEF Connect, Unpaired, engine, task, server
<1>2. start \in ServerMessage /\ start \in Starts /\ start \in Usual /\ start \notin Ends
  BY ServerMessages DEF Starts, Usual, Ends
<1> HIDE DEF start
<1>3. /\ down[d] = <<>>
      /\ \A e \in Others(d) :
           /\ Free(down[e], Calls(d) \union Joins(d)) /\ Free(down[e], Leaves(d))
           /\ Free(down[e], From(d)) /\ Free(up[e], To(d))
           /\ Silent(d, e) /\ Silent(e, d) /\ ~Describes(d, e) /\ ~Describes(e, d)
  <2>1. down[d] = <<>>
    BY <1>1 DEF UnderWay
  <2> QED
    BY <1>1, <2>1, NotUnderWay
<1>4. /\ down'[d] = Append(<<>>, start) /\ link'[d] = "connected"
      /\ \A x \in Device : x # d => down'[x] = down[x] /\ link'[x] = link[x]
      /\ \A x \in Device : Inside(x)' <=> Inside(x)
  BY <1>1, <1>3 DEF TypeOK, Inside
<1>5. \A S : Free(down'[d], S) <=> start \notin S
  <2> SUFFICES ASSUME NEW S PROVE Free(down'[d], S) <=> start \notin S
    OBVIOUS
  <2>1. down[d] \in Seq(ServerMessage) /\ Append(down[d], start) = down'[d]
    BY <1>3, <1>4 DEF TypeOK
  <2>2. Free(Append(down[d], start), S) <=> Free(down[d], S) /\ start \notin S
    BY <1>2, <2>1, FreeAppend
  <2> QED
    BY <1>3, <2>1, <2>2, FreeEmpty
<1>6. ~Inside(d) /\ Connection(d) /\ HomeOnly(d) /\ \A room \in Room : d \notin members[room]
  BY <1>1, OutsideRooms DEF Meetings
<1>7. \A x \in Device : x # d => Connection(x)' /\ (Fresh(x)' <=> Fresh(x)) /\ HomeOnly(x)'
  <2> SUFFICES ASSUME NEW x \in Device, x # d
               PROVE  Connection(x)' /\ (Fresh(x)' <=> Fresh(x)) /\ HomeOnly(x)'
    OBVIOUS
  <2>1. Connection(x) /\ HomeOnly(x) /\ Local(x)' = Local(x)
    BY <1>1 DEF Meetings, Local
  <2>2. HomeOnly(x)'
    BY <1>1, <1>4, <2>1 DEF HomeOnly
  <2> QED
    BY <1>1, <1>4, <2>1, <2>2, ConnectionSame
<1>8. Connection(d)' /\ HomeOnly(d)'
  <2>1. \A i \in DOMAIN down'[d] : i = 1
    BY <1>2, <1>4, Appended
  <2>2. Local(d)' = Local(d)
    BY <1>1 DEF Local
  <2>3. HomeOnly(d)'
    BY <1>1, <1>2, <1>5, <1>6, <2>2 DEF HomeOnly
  <2>4. Free(up[d], Joining)
    BY <1>1, <1>6 DEF Connection
  <2>5. Connection(d)'
    BY <1>1, <1>2, <1>4, <1>5, <1>6, <2>1, <2>4 DEF Connection
  <2> QED
    BY <2>3, <2>5
<1>9. \A x, y \in Device : x # d /\ y # d => Same(x, y)
  BY <1>1, <1>4, AlikeSame DEF Same
<1>10. ASSUME NEW e \in Others(d) PROVE Pair(d, e)' /\ Pair(e, d)'
  <2>1. e \in Device /\ e # d /\ Pair(d, e) /\ Pair(e, d)
    BY PairOf DEF Others
  <2>2. ~Meeting(d, e) /\ ~Meeting(e, d) /\ ~Meeting(d, e)' /\ ~Meeting(e, d)'
    BY <1>4, <1>6 DEF Meeting
  <2>3. e \notin Known(d)
    <3>1. Gone(d, e) /\ DOMAIN down[d] = {}
      BY <1>3, <2>1, <2>2 DEF Pair
    <3> QED
      BY <3>1 DEF Gone, LastFree
  <2>4. link[e] = "connected" => d \notin Known(e)
    <3> SUFFICES ASSUME link[e] = "connected" PROVE d \notin Known(e)
      OBVIOUS
    <3>1. Gone(e, d) /\ Free(down[e], Leaves(d)) /\ Free(down[e], Ends)
      BY <1>3, <2>1, <2>2 DEF Pair, Meetings, Connection
    <3> QED
      BY <3>1 DEF Gone, LastFree, Free
  <2>5. /\ e \notin Known(d)' /\ (d \in Known(e)' <=> d \in Known(e))
        /\ Silent(d, e)' /\ Silent(e, d)' /\ ~Describes(d, e)' /\ ~Describes(e, d)'
    BY <1>1, <1>3, <2>1, <2>3, SameKept
  <2>6. Free(down'[d], Calls(e) \union Joins(e)) /\ Free(down'[d], Leaves(e))
        /\ Free(down'[d], From(e))
    BY <1>2, <1>5 DEF Starts, Calls, Joins, Leaves, From
  <2>7. Newcomer(d, e)' /\ Gone(d, e)'
    BY <2>5, <2>6 DEF Newcomer, Gone
  <2>8. Arrival(d, e)'
    BY <1>1, <1>3, <1>4, <2>1, <2>4, <2>5 DEF Arrival
  <2>9. Newcomer(e, d)' /\ Gone(e, d)'
    BY <1>3, <1>4, <1>7, <2>1, <2>2, <2>5 DEF Pair, Newcomer, Gone
  <2>10. ASSUME Arriving(e)' PROVE Arrival(e, d)'
    <3>1. Arrival(e, d)
      BY <1>4, <2>1, <2>10 DEF Pair, Arriving
    <3> QED
      BY <1>1, <2>5, <2>6, <3>1 DEF Arrival
  <2> QED
    BY <2>2, <2>7, <2>8, <2>9, <2>10 DEF Pair
<1>11. \A x \in Device : \A y \in Others(x) : Pair(x, y)'
  BY <1>1, <1>4, <1>7, <1>9, <1>10, PairsElsewhere
<1> QED
  BY <1>1, <1>7, <1>8, <1>11, SameFailures DEF Meetings

LEMMA RetryMeets ==
  ASSUME Unpaired, TypeOK, Meetings, hurried' = {}, NEW d \in Device, Retry(d)
  PROVE  Meetings'
<1>1. /\ link[d] = "waiting"
      /\ link' = [link EXCEPT ![d] = "connecting"]
      /\ \/ up[d] = <<>> /\ ~UnderWay(d) /\ up' = up
         \/ up[d] # <<>> /\ up' = [up EXCEPT ![d] = Tail(@)]
      /\ UNCHANGED <<peers, held, secretFor, sessions, down, home, members, budget>>
  BY DEF Retry, Unpaired, engine, task, server
<1>2. /\ link'[d] = "connecting" /\ up[d] \in Seq(ClientMessage)
      /\ \A x \in Device : x # d => up'[x] = up[x] /\ link'[x] = link[x]
      /\ \A x \in Device : Inside(x)' <=> Inside(x)
      /\ \/ up[d] = <<>> /\ ~UnderWay(d) /\ up'[d] = <<>>
         \/ up[d] # <<>> /\ up'[d] = Tail(up[d])
  BY <1>1 DEF TypeOK, Inside
<1>3. ~Inside(d) /\ Connection(d) /\ HomeOnly(d) /\ \A room \in Room : d \notin members[room]
  BY <1>1, OutsideRooms DEF Meetings
<1>4. \A S : Free(up[d], S) => Free(up'[d], S)
  BY <1>2, FreeTail
<1>5. Free(down[d], Starts) /\ Free(up'[d], Joining)
  <2>1. CASE up[d] = <<>> /\ ~UnderWay(d) /\ up'[d] = <<>>
    <3>1. down[d] = <<>>
      BY <2>1 DEF UnderWay
    <3> QED
      BY <2>1, <3>1, FreeEmpty
  <2>2. CASE up[d] # <<>> /\ up'[d] = Tail(up[d])
    <3>1. Free(down[d], Starts) /\ (Free(up[d], Joining) \/ Len(up[d]) = 1)
      BY <1>1, <1>3, <2>2 DEF Connection
    <3>2. Len(up[d]) = 1 => up'[d] = <<>>
      <4>1. up'[d] \in Seq(ClientMessage) /\ Len(up'[d]) = Len(up[d]) - 1
        BY <1>2, <2>2, Shortened
      <4> QED
        BY <4>1, EmptySeq
    <3> QED
      BY <1>4, <3>1, <3>2, FreeEmpty
  <2> QED
    BY <1>2, <2>1, <2>2
<1>6. \A x \in Device : x # d => Connection(x)' /\ (Fresh(x)' <=> Fresh(x)) /\ HomeOnly(x)'
  <2> SUFFICES ASSUME NEW x \in Device, x # d
               PROVE  Connection(x)' /\ (Fresh(x)' <=> Fresh(x)) /\ HomeOnly(x)'
    OBVIOUS
  <2>1. Connection(x) /\ HomeOnly(x) /\ Local(x)' = Local(x)
    BY <1>1 DEF Meetings, Local
  <2>2. HomeOnly(x)'
    BY <1>1, <1>2, <2>1 DEF HomeOnly
  <2> QED
    BY <1>1, <1>2, <2>1, <2>2, ConnectionSame
<1>7. Connection(d)' /\ HomeOnly(d)' /\ ~Fresh(d)'
  <2>1. Local(d)' = Local(d)
    BY <1>1 DEF Local
  <2>2. HomeOnly(d)'
    BY <1>1, <1>3, <1>4, <2>1 DEF HomeOnly
  <2>3. ~Fresh(d)'
    BY <1>1, <1>5 DEF Fresh
  <2>4. \A i \in DOMAIN up'[d] : up'[d][i] \notin Joining
    BY <1>5 DEF Free
  <2>5. Connection(d)'
    BY <1>1, <1>2, <1>3, <1>5, <2>3, <2>4 DEF Connection, Arriving
  <2> QED
    BY <2>2, <2>3, <2>5
<1>8. \A x, y \in Device : x # d /\ y # d => Same(x, y)
  BY <1>1, <1>2, AlikeSame DEF Same
<1>9. ASSUME NEW e \in Others(d) PROVE Pair(d, e)' /\ Pair(e, d)'
  <2>1. e \in Device /\ e # d /\ Pair(d, e) /\ Pair(e, d)
    BY PairOf DEF Others
  <2>2. ~Meeting(d, e) /\ ~Meeting(e, d) /\ ~Meeting(d, e)' /\ ~Meeting(e, d)' /\ ~Arriving(d)'
    BY <1>2, <1>3 DEF Meeting, Arriving
  <2>3. /\ e \in Known(d)' <=> e \in Known(d)
        /\ d \in Known(e)' <=> d \in Known(e)
        /\ Silent(e, d)' <=> Silent(e, d)
        /\ Describes(d, e)' <=> Describes(d, e)
        /\ Describes(e, d)' <=> Describes(e, d)
    BY <1>1, <2>1, SameKept
  <2>4. Newcomer(d, e)' /\ Gone(d, e)' /\ Newcomer(e, d)' /\ Gone(e, d)'
    BY <1>1, <1>6, <1>7, <2>1, <2>2, <2>3 DEF Pair, Newcomer, Gone
  <2>5. ASSUME Arriving(e)' PROVE Arrival(e, d)'
    <3>1. Arrival(e, d)
      BY <1>2, <2>1, <2>5 DEF Pair, Arriving
    <3>2. link[d] # "connected" /\ link'[d] # "connected"
      BY <1>1, <1>2
    <3> QED
      BY <1>1, <1>4, <2>3, <3>1, <3>2 DEF Arrival
  <2> QED
    BY <2>2, <2>4, <2>5 DEF Pair
<1>10. \A x \in Device : \A y \in Others(x) : Pair(x, y)'
  BY <1>1, <1>2, <1>6, <1>8, <1>9, PairsElsewhere
<1> QED
  BY <1>1, <1>6, <1>7, <1>10, SameFailures DEF Meetings

LEMMA DropEffect ==
  ASSUME Unpaired, TypeOK, Meetings, hurried' = {}, NEW d \in Device, Drop(d)
  PROVE  /\ UNCHANGED <<peers, held, secretFor, sessions, home>> /\ NoFailures'
         /\ link[d] = "connected" /\ link'[d] = "waiting" /\ up'[d] = <<>>
         /\ \A x \in Device : x # d => up'[x] = up[x] /\ link'[x] = link[x]
         /\ \A room \in Room : members'[room] = members[room] \ {d}
         /\ \A x \in Device : Inside(x)' <=> x # d /\ Inside(x)
         /\ \E f \in Ends : \E n \in 0..Len(down[d]) : down'[d] = Append(SubSeq(down[d], 1, n), f)
         /\ \A x \in Device : x # d =>
              IF Meeting(d, x) THEN \E f \in Leaves(d) : down'[x] = Append(down[x], f)
                               ELSE down'[x] = down[x]
<1>1. /\ link[d] = "connected" /\ Spend({"drop"})
      /\ link' = [link EXCEPT ![d] = "waiting"]
      /\ members' = [room \in Room |-> members[room] \ {d}]
      /\ UNCHANGED <<peers, held, secretFor, sessions, home>>
  BY DEF Drop, Unpaired, engine
<1>2. PICK n \in 0..Len(down[d]) :
        down' = [e \in Device |->
          IF e = d THEN Append(SubSeq(down[d], 1, n), [type |-> "WaitingToRetry"])
          ELSE IF \E room \in Room : {d, e} \subseteq members[room]
          THEN Append(down[e], [type |-> "PeerLeft", peer |-> d]) ELSE down[e]]
  BY DEF Drop
<1>3. NoFailures'
  BY <1>1, NoneFail DEF Meetings
<1>4. up'[d] = <<>> /\ \A x \in Device : x # d => up'[x] = up[x]
  <2>1. up[d] \in Seq(ClientMessage)
    BY DEF TypeOK
  <2>2. PICK k \in 0..Len(up[d]) :
          /\ up' = [up EXCEPT ![d] = SubSeq(@, k + 1, Len(@))]
          /\ hurried' = IF k < Len(up[d]) THEN hurried \union {d} ELSE hurried
    BY DEF Drop
  <2>3. ~(k < Len(up[d]))
    BY <2>2
  <2>4. k = Len(up[d])
    BY <2>1, <2>2, <2>3
  <2>5. SubSeq(up[d], Len(up[d]) + 1, Len(up[d])) = <<>>
    BY <2>1
  <2> QED
    BY <2>2, <2>4, <2>5 DEF TypeOK
<1>5. link'[d] = "waiting" /\ \A x \in Device : x # d => link'[x] = link[x]
  BY <1>1 DEF TypeOK
<1>6. ASSUME NEW x \in Device PROVE home[x] \in Room /\ home'[x] = home[x]
  BY <1>1, TypeParts, ConstantTypes
<1>7. \A x \in Device : Inside(x)' <=> x # d /\ Inside(x)
  BY <1>1, <1>6 DEF Inside
<1>8. [type |-> "WaitingToRetry"] \in Ends /\ [type |-> "PeerLeft", peer |-> d] \in Leaves(d)
  BY ServerMessages DEF Ends, Leaves
<1>9. \A x \in Device : (\E room \in Room : {d, x} \subseteq members[room]) <=> Meeting(d, x)
  <2> SUFFICES ASSUME NEW x \in Device
               PROVE  (\E room \in Room : {d, x} \subseteq members[room]) <=> Meeting(d, x)
    OBVIOUS
  <2>1. HomeOnly(d) /\ HomeOnly(x) /\ home[d] \in Room
    BY <1>6 DEF Meetings
  <2>2. ASSUME NEW room \in Room, {d, x} \subseteq members[room] PROVE Meeting(d, x)
    <3>1. room = home[d] /\ room = home[x]
      BY <2>1, <2>2 DEF HomeOnly
    <3> QED
      BY <2>2, <3>1 DEF Meeting, Inside
  <2>3. Meeting(d, x) => {d, x} \subseteq members[home[d]]
    BY DEF Meeting, Inside
  <2> QED
    BY <2>1, <2>2, <2>3
<1>10. \E f \in Ends : \E m \in 0..Len(down[d]) : down'[d] = Append(SubSeq(down[d], 1, m), f)
  <2>1. down'[d] = Append(SubSeq(down[d], 1, n), [type |-> "WaitingToRetry"])
    BY <1>2
  <2> QED
    BY <1>8, <2>1
<1>11. ASSUME NEW x \in Device, x # d
       PROVE  IF Meeting(d, x) THEN \E f \in Leaves(d) : down'[x] = Append(down[x], f)
                               ELSE down'[x] = down[x]
  <2>1. down'[x] = IF Meeting(d, x) THEN Append(down[x], [type |-> "PeerLeft", peer |-> d])
                   ELSE down[x]
    BY <1>2, <1>9, <1>11
  <2> QED
    BY <1>8, <2>1
<1> QED
  BY <1>1, <1>3, <1>4, <1>5, <1>7, <1>10, <1>11

LEMMA DropMeets ==
  ASSUME Unpaired, TypeOK, Meetings, hurried' = {}, NEW d \in Device, Drop(d)
  PROVE  Meetings'
<1>1. /\ UNCHANGED <<peers, held, secretFor, sessions, home>> /\ NoFailures'
      /\ link[d] = "connected" /\ link'[d] = "waiting" /\ up'[d] = <<>>
      /\ \A x \in Device : x # d => up'[x] = up[x] /\ link'[x] = link[x]
      /\ \A room \in Room : members'[room] = members[room] \ {d}
      /\ \A x \in Device : Inside(x)' <=> x # d /\ Inside(x)
      /\ \A x \in Device : x # d =>
           IF Meeting(d, x) THEN \E f \in Leaves(d) : down'[x] = Append(down[x], f)
                            ELSE down'[x] = down[x]
  BY DropEffect
<1>2. PICK end \in Ends, n \in 0..Len(down[d]) : down'[d] = Append(SubSeq(down[d], 1, n), end)
  BY DropEffect
<1>3. /\ Ends \subseteq ServerMessage /\ Leaves(d) \subseteq ServerMessage
      /\ Leaves(d) \subseteq Usual /\ Leaves(d) \cap (Starts \union Ends) = {}
      /\ Ends \subseteq Usual /\ Ends \cap Starts = {}
      /\ \A y : Ends \cap (Calls(y) \union Joins(y)) = {} /\ Leaves(d) \cap (Calls(y) \union Joins(y)) = {}
      /\ \A y : y # d => Leaves(d) \cap About(y) = {}
  BY DEF Ends, Leaves, Usual, Starts, About, Calls, Joins, From
<1>4. \A S : Free(down[d], S) /\ end \notin S => Free(down'[d], S)
  <2> SUFFICES ASSUME NEW S, Free(down[d], S), end \notin S PROVE Free(down'[d], S)
    OBVIOUS
  <2>1. down[d] \in Seq(ServerMessage)
    BY DEF TypeOK
  <2>2. PICK q \in Seq(ServerMessage) : q = SubSeq(down[d], 1, n)
    BY <2>1, Truncated
  <2>3. Free(q, S)
    BY <2>1, <2>2, FreePrefix
  <2>4. Free(Append(q, end), S)
    BY <1>3, <2>3, FreeAppend
  <2> QED
    BY <1>2, <2>2, <2>4
<1>5. HomeOnly(d) /\ Connection(d)
  BY DEF Meetings
<1>6. Fresh(d)' => Fresh(d)
  BY <1>1, <1>3, <1>4, FreeEmpty DEF Fresh
<1>7. HomeOnly(d)' /\ Connection(d)'
  <2>1. Local(d)' = Local(d)
    BY <1>1 DEF Local
  <2>2. HomeOnly(d)'
    BY <1>1, <1>3, <1>4, <1>5, <2>1, FreeEmpty DEF HomeOnly
  <2>3. \A i \in DOMAIN down'[d] : down'[d][i] \in Starts => i = 1
    <3>1. down[d] \in Seq(ServerMessage)
      BY DEF TypeOK
    <3>2. SubSeq(down[d], 1, n) \in Seq(ServerMessage)
          /\ \A i \in DOMAIN SubSeq(down[d], 1, n) :
               i \in DOMAIN down[d] /\ SubSeq(down[d], 1, n)[i] = down[d][i]
      BY <3>1
    <3> QED
      BY <1>2, <1>3, <1>5, <3>2, Appended DEF Connection
  <2>4. DOMAIN up'[d] = {} /\ Free(up'[d], Joining)
    BY <1>1, FreeEmpty
  <2>5. Connection(d)'
    BY <1>1, <2>3, <2>4 DEF Connection, Arriving
  <2> QED
    BY <2>2, <2>5
<1>8. ASSUME NEW x \in Device, x # d
      PROVE  HomeOnly(x)' /\ Connection(x)' /\ (Fresh(x)' => Fresh(x))
  <2>1. /\ HomeOnly(x) /\ Connection(x) /\ (Inside(x)' <=> Inside(x)) /\ link'[x] = link[x]
        /\ up'[x] = up[x] /\ Local(x)' = Local(x) /\ down[x] \in Seq(ServerMessage)
    BY <1>1, <1>8 DEF Meetings, Local, TypeOK
  <2>2. \/ down'[x] = down[x]
        \/ ~Arriving(x) /\ \E f \in ServerMessage \ (Starts \union Ends) :
             f \in Usual /\ down'[x] = Append(down[x], f)
    <3>1. Meeting(d, x) => ~Arriving(x)
      BY DEF Meeting, Arriving
    <3> QED
      BY <1>1, <1>3, <1>8, <3>1
  <2>3. Connection(x)' /\ (Fresh(x)' => Fresh(x))
    BY <2>1, <2>2, ConnectionCarried
  <2>4. Free(down[x], ServerMessage \ Usual) => Free(down'[x], ServerMessage \ Usual)
    <3>1. ASSUME NEW f \in ServerMessage, f \in Usual, down'[x] = Append(down[x], f)
          PROVE  Free(down[x], ServerMessage \ Usual) => Free(down'[x], ServerMessage \ Usual)
      BY <2>1, <3>1, FreeAppend
    <3> QED
      BY <2>2, <3>1
  <2>5. HomeOnly(x)'
    BY <1>1, <2>1, <2>4 DEF HomeOnly
  <2> QED
    BY <2>3, <2>5
<1>9. ASSUME NEW x \in Device, NEW y \in Device, x # d, y # d PROVE Same(x, y)
  <2>1. Alike(down'[x], down[x], About(y))
    <3>1. CASE down'[x] = down[x]
      BY <3>1, AlikeSame
    <3>2. ASSUME NEW f \in Leaves(d), down'[x] = Append(down[x], f)
          PROVE  Alike(down'[x], down[x], About(y))
      <4>1. f \in ServerMessage /\ f \notin About(y) /\ down[x] \in Seq(ServerMessage)
        BY <1>3, <1>9 DEF TypeOK
      <4> QED
        BY <3>2, <4>1, AlikeAppend
    <3> QED
      BY <1>1, <1>9, <3>1, <3>2
  <2> QED
    BY <1>1, <1>9, <2>1, AlikeSame DEF Same
<1>10. ASSUME NEW e \in Others(d) PROVE Pair(d, e)' /\ Pair(e, d)'
  <2>1. e \in Device /\ e # d /\ Pair(d, e) /\ Pair(e, d) /\ down[e] \in Seq(ServerMessage)
    BY PairOf DEF Others, TypeOK
  <2>2. ~Meeting(d, e)' /\ ~Meeting(e, d)' /\ ~Arriving(d)'
    BY <1>1 DEF Meeting, Arriving
  <2>3. /\ e \in Known(d)' <=> e \in Known(d)
        /\ d \in Known(e)' <=> d \in Known(e)
        /\ Silent(e, d)' <=> Silent(e, d)
        /\ Describes(d, e)' <=> Describes(d, e)
        /\ Describes(e, d)' <=> Describes(e, d)
    BY <1>1, <2>1, SameKept
  <2>4. Free(down[d], Calls(e) \union Joins(e)) => Free(down'[d], Calls(e) \union Joins(e))
    BY <1>3, <1>4
  <2>5. Newcomer(d, e)'
    BY <1>6, <2>1, <2>3, <2>4 DEF Pair, Newcomer
  <2>6. Gone(d, e)'
    <3>1. PICK q \in Seq(ServerMessage) : q = SubSeq(down[d], 1, n)
      <4>1. down[d] \in Seq(ServerMessage)
        BY DEF TypeOK
      <4> QED
        BY <4>1, Truncated
    <3>2. LastFree(Append(q, end), Leaves(e) \union Ends, Calls(e) \union Joins(e))
      BY <1>3, LastFreeAppend
    <3> QED
      BY <1>2, <3>1, <3>2 DEF Gone
  <2>7. Newcomer(e, d)'
    <3>1. Free(down[e], Calls(d) \union Joins(d)) => Free(down'[e], Calls(d) \union Joins(d))
      <4>1. ASSUME NEW f \in Leaves(d), down'[e] = Append(down[e], f)
            PROVE  Free(down[e], Calls(d) \union Joins(d)) => Free(down'[e], Calls(d) \union Joins(d))
        <5>1. f \in ServerMessage /\ f \notin Calls(d) \union Joins(d)
          BY <1>3
        <5> QED
          BY <2>1, <4>1, <5>1, FreeAppend
      <4> QED
        BY <1>1, <2>1, <4>1
    <3> QED
      BY <1>8, <2>1, <2>3, <3>1 DEF Pair, Newcomer
  <2>8. Gone(e, d)'
    <3>1. CASE Meeting(d, e)
      <4>1. PICK f \in Leaves(d) : down'[e] = Append(down[e], f)
        BY <1>1, <2>1, <3>1
      <4>2. f \in ServerMessage /\ f \in Leaves(d) \union Ends
        BY <1>3
      <4>3. LastFree(down'[e], Leaves(d) \union Ends, Calls(d) \union Joins(d))
        BY <2>1, <4>1, <4>2, LastFreeAppend
      <4> QED
        BY <4>3 DEF Gone
    <3>2. CASE ~Meeting(d, e)
      <4>1. Gone(e, d) /\ down'[e] = down[e]
        BY <1>1, <2>1, <3>2, MeetingBoth DEF Pair
      <4> QED
        BY <2>3, <4>1 DEF Gone
    <3> QED
      BY <3>1, <3>2
  <2>9. ASSUME Arriving(e)' PROVE Arrival(e, d)'
    <3>1. Arriving(e)
      BY <1>1, <2>1, <2>9 DEF Arriving
    <3>2. Arrival(e, d) /\ e \notin Known(d)
      BY <1>1, <2>1, <3>1 DEF Pair, Arrival
    <3>3. Free(up'[d], To(e)) /\ link'[d] # "connected"
      BY <1>1, FreeEmpty
    <3> QED
      BY <2>3, <2>4, <3>2, <3>3 DEF Arrival
  <2> QED
    BY <2>2, <2>5, <2>6, <2>7, <2>8, <2>9 DEF Pair
<1>11. \A x \in Device : \A y \in Others(x) : Pair(x, y)'
  BY <1>1, <1>8, <1>9, <1>10, PairsElsewhere
<1> QED
  BY <1>1, <1>7, <1>8, <1>11 DEF Meetings

-----------------------------------------------------------------------------
(* A device enters its room.                                               *)

LEMMA OneOrNone ==
  ASSUME NEW A, NEW q \in Seq(A)
  PROVE  (Len(q) = 1 => Tail(q) = <<>>) /\ (DOMAIN q = {} => q = <<>>)
<1>1. Len(q) \in Nat /\ DOMAIN q = 1..Len(q) /\ (q # <<>> => Len(q) # 0)
  BY EmptySeq, LenProperties
<1>2. Len(q) = 1 => Tail(q) = <<>>
  <2> SUFFICES ASSUME Len(q) = 1 PROVE Tail(q) = <<>>
    OBVIOUS
  <2>1. Tail(q) \in Seq(A) /\ Len(Tail(q)) = 0
    BY <1>1, HeadTailProperties
  <2> QED
    BY <2>1, EmptySeq
<1>3. DOMAIN q = {} => q = <<>>
  <2>1. q # <<>> => 1 \in DOMAIN q
    BY <1>1
  <2> QED
    BY <2>1
<1> QED
  BY <1>2, <1>3

LEMMA JoinEffect ==
  ASSUME TypeOK, Meetings, NEW d \in Device, ServerJoinsIpRoom(d)
  PROVE  /\ UNCHANGED <<peers, held, secretFor, sessions, home, link, budget>>
         /\ Arriving(d) /\ link[d] = "connected" /\ up'[d] = <<>>
         /\ \A x \in Device : x # d => up'[x] = up[x]
         /\ \A room \in Room : members'[room] = IF room = home[d] THEN members[room] \union {d}
                                                ELSE members[room]
         /\ \A x \in Device : Inside(x)' <=> x = d \/ Inside(x)
         /\ \A x \in Device : x # d =>
              IF Meeting(d, x)' THEN \E f \in Joins(d) \cap Usual : down'[x] = Append(down[x], f)
                                ELSE down'[x] = down[x]
         /\ \/ down'[d] = <<>> /\ \A x \in Device : x # d => ~Meeting(d, x)'
            \/ \E f \in Usual : /\ f.type = "Peers" /\ down'[d] = Append(<<>>, f)
                                /\ \A x \in Device : x # d => (f \in Calls(x) <=> Meeting(d, x)')
<1> DEFINE room == home[d]
           there == members[room]
<1>1. /\ link[d] = "connected" /\ up[d] # <<>> /\ Head(up[d]).type = "JoinIpRoom"
      /\ UNCHANGED <<peers, held, secretFor, sessions, home, link, budget>>
      /\ up' = [up EXCEPT ![d] = Tail(@)]
  BY DEF ServerJoinsIpRoom, Reads, Read, engine, task
<1>2. /\ up[d] \in Seq(ClientMessage) /\ down[d] \in Seq(ServerMessage)
      /\ room \in Ip /\ room \in Room /\ there \subseteq Device
      /\ \A x \in Device : home[x] \in Room
  BY TypeParts, ConstantTypes DEF TypeOK
<1>3. Head(up[d]) \in Joining /\ ~Free(up[d], Joining)
  BY <1>1, <1>2, FreeTail DEF Joining
<1>4. Connection(d) /\ Fresh(d) /\ ~Inside(d) /\ Arriving(d)
  BY <1>1, <1>3 DEF Meetings, Fresh, Connection, Arriving
<1>5. up'[d] = <<>> /\ \A x \in Device : x # d => up'[x] = up[x]
  <2>1. Head(up[d]) = up[d][1] /\ 1 \in DOMAIN up[d] /\ Tail(up[d]) \in Seq(ClientMessage)
        /\ Len(Tail(up[d])) = Len(up[d]) - 1
    BY <1>1, <1>2, Shortened
  <2>2. Len(up[d]) = 1
    BY <1>3, <1>4, <2>1 DEF Connection
  <2>4. Tail(up[d]) = <<>>
    BY <1>1, <1>2, <2>2, OneOrNone
  <2> QED
    BY <1>1, <2>4 DEF TypeOK
<1>6. down[d] = <<>>
  <2>1. Free(down[d], Starts) /\ Free(down[d], ServerMessage \ Starts)
    BY <1>3, <1>4 DEF Connection
  <2>2. \A i \in DOMAIN down[d] : down[d][i] \in ServerMessage
    BY <1>2
  <2>3. DOMAIN down[d] = {}
    BY <2>1, <2>2 DEF Free
  <2> QED
    BY <1>2, <2>3, OneOrNone
<1> DEFINE called == [type |-> "Peers", room |-> room, peers |-> there]
           join == [type |-> "PeerJoined", room |-> room, peer |-> d]
<1>7. /\ members' = [members EXCEPT ![room] = @ \union {d}]
      /\ down' = [e \in Device |->
           IF e = d /\ there # {} THEN Append(down[e], called)
           ELSE IF e \in there \ {d} THEN Append(down[e], join) ELSE down[e]]
  BY <1>4 DEF ServerJoinsIpRoom, Enters, Inside
<1>8. /\ called \in ServerMessage /\ called.type = "Peers" /\ called.room = room /\ called.peers = there
      /\ join \in ServerMessage /\ join.type = "PeerJoined" /\ join.room = room /\ join.peer = d
  BY <1>2, ServerMessages
<1> HIDE DEF called, join
<1>9. called \in Usual /\ join \in Joins(d) \cap Usual
      /\ \A x \in Device : called \in Calls(x) <=> x \in there
  BY <1>2, <1>8 DEF Usual, Joins, Calls
<1>10. \A r \in Room : members'[r] = IF r = room THEN members[r] \union {d} ELSE members[r]
  BY <1>7 DEF TypeOK
<1>11. \A x \in Device : x # d => (x \in there <=> home[x] = room /\ Inside(x))
  BY <1>2 DEF Meetings, HomeOnly, Inside
<1>12. \A x \in Device : Inside(x)' <=> x = d \/ Inside(x)
  BY <1>1, <1>2, <1>10 DEF Inside
<1>13. \A x \in Device : x # d => (Meeting(d, x)' <=> x \in there)
  BY <1>1, <1>11, <1>12 DEF Meeting
<1>14. d \notin there
  BY <1>4 DEF Inside
<1>15. ASSUME NEW x \in Device, x # d
       PROVE  IF Meeting(d, x)' THEN \E f \in Joins(d) \cap Usual : down'[x] = Append(down[x], f)
                                ELSE down'[x] = down[x]
  <2>1. down'[x] = IF x \in there THEN Append(down[x], join) ELSE down[x]
    BY <1>7, <1>15
  <2> QED
    BY <1>9, <1>13, <1>15, <2>1
<1>16. \/ down'[d] = <<>> /\ \A x \in Device : x # d => ~Meeting(d, x)'
       \/ \E f \in Usual : /\ f.type = "Peers" /\ down'[d] = Append(<<>>, f)
                           /\ \A x \in Device : x # d => (f \in Calls(x) <=> Meeting(d, x)')
  <2>1. CASE there = {}
    BY <1>6, <1>7, <1>13, <2>1
  <2>2. CASE there # {}
    <3>1. down'[d] = Append(<<>>, called)
      BY <1>6, <1>7, <2>2
    <3> QED
      BY <1>8, <1>9, <1>13, <3>1
  <2> QED
    BY <2>1, <2>2
<1> QED
  BY <1>1, <1>4, <1>5, <1>10, <1>12, <1>15, <1>16


\* The newcomer will call, and the others await its call.
LEMMA SetupBegins ==
  ASSUME NEW c \in Device, NEW k \in Device, k \notin Known(c)', c \notin Known(k)',
         Silent(c, k)', Silent(k, c)', up'[c] = <<>>, Free(up'[k], To(c)),
         Free(down'[c], Leaves(k) \union Joins(k)), Free(down'[c], From(k)),
         ~Free(down'[c], Calls(k)), Free(down'[k], Leaves(c) \union Calls(c)),
         \A S : FirstFree(down'[k], Joins(c), From(c) \ S)
  PROVE  Setup(c, k)'
<1>1. Alive(c, k, TRUE)' /\ Alive(k, c, FALSE)'
  BY DEF Alive
<1>2. Offered(c, k)' /\ Answered(c, k)' /\ Agreed(c, k)'
  BY DEF Offered, Answered, Agreed
<1>3. /\ Free(up'[c], To(k) \ OffersUp(c, k)')
      /\ Free(up'[k], To(c) \ AnswersUp(c, k)')
      /\ Free(down'[c], From(k) \ AnswersDown(c, k)')
      /\ FirstFree(down'[k], Joins(c), From(c) \ OffersDown(c, k)')
  <2>1. Free(up'[c], To(k) \ OffersUp(c, k)')
    BY FreeEmpty
  <2>2. \A S : Free(up'[k], To(c) \ S) /\ Free(down'[c], From(k) \ S)
    BY DEF Free
  <2> QED
    BY <2>1, <2>2
<1>4. Told(c, k)'
  BY <1>3 DEF Told
<1> QED
  BY <1>1, <1>2, <1>4 DEF Setup

LEMMA JoinMeets ==
  ASSUME TypeOK, Meetings, NEW d \in Device, ServerJoinsIpRoom(d)
  PROVE  Meetings'
<1>1. /\ UNCHANGED <<peers, held, secretFor, sessions, home, link, budget>>
      /\ Arriving(d) /\ link[d] = "connected" /\ up'[d] = <<>>
      /\ \A x \in Device : x # d => up'[x] = up[x]
      /\ \A room \in Room : members'[room] = IF room = home[d] THEN members[room] \union {d}
                                             ELSE members[room]
      /\ \A x \in Device : Inside(x)' <=> x = d \/ Inside(x)
      /\ \A x \in Device : x # d =>
           IF Meeting(d, x)' THEN \E f \in Joins(d) \cap Usual : down'[x] = Append(down[x], f)
                             ELSE down'[x] = down[x]
  BY JoinEffect
<1>2. \/ down'[d] = <<>> /\ \A x \in Device : x # d => ~Meeting(d, x)'
      \/ \E f \in Usual : /\ f.type = "Peers" /\ down'[d] = Append(<<>>, f)
                          /\ \A x \in Device : x # d => (f \in Calls(x) <=> Meeting(d, x)')
  BY JoinEffect
<1>3. \A f \in Usual : f.type = "Peers" =>
        /\ f \in ServerMessage
        /\ \A y : f \notin Starts \union Ends \union Leaves(y) \union Joins(y) \union From(y)
  BY DEF Usual, Starts, Ends, Leaves, Joins, From
<1>4. \A f \in Joins(d) : /\ f \in ServerMessage \ (Starts \union Ends)
                          /\ f \notin Leaves(d) \union Calls(d) \union From(d)
                          /\ \A y : y # d => f \notin About(y)
  BY DEF Joins, Starts, Ends, Leaves, Calls, From, About
\* What d is told.
<1>5. /\ \A y : /\ Free(down'[d], Leaves(y) \union Joins(y)) /\ Free(down'[d], From(y))
                /\ Free(down'[d], Leaves(y))
      /\ Free(down'[d], Starts) /\ Free(down'[d], Ends) /\ Free(down'[d], ServerMessage \ Usual)
      /\ \A x \in Device : x # d => /\ Free(down'[d], Calls(x)) <=> ~Meeting(d, x)'
                                    /\ Free(down'[d], Calls(x) \union Joins(x)) <=> ~Meeting(d, x)'
  <2>1. CASE down'[d] = <<>> /\ \A x \in Device : x # d => ~Meeting(d, x)'
    BY <2>1, FreeEmpty
  <2>2. CASE \E f \in Usual : /\ f.type = "Peers" /\ down'[d] = Append(<<>>, f)
                              /\ \A x \in Device : x # d => (f \in Calls(x) <=> Meeting(d, x)')
    <3>1. PICK f \in Usual : /\ f.type = "Peers" /\ down'[d] = Append(<<>>, f)
                             /\ \A x \in Device : x # d => (f \in Calls(x) <=> Meeting(d, x)')
      BY <2>2
    <3>2. f \in ServerMessage
      BY <1>3, <3>1
    <3>3. ASSUME NEW S PROVE Free(down'[d], S) <=> f \notin S
      <4>1. <<>> \in Seq(ServerMessage)
        OBVIOUS
      <4>2. Free(Append(<<>>, f), S) <=> Free(<<>>, S) /\ f \notin S
        BY <3>2, <4>1, FreeAppend
      <4> QED
        BY <3>1, <4>2, FreeEmpty
    <3> QED
      BY <1>3, <3>1, <3>3
  <2> QED
    BY <1>2, <2>1, <2>2
<1>6. Connection(d) /\ HomeOnly(d)
  BY DEF Meetings
<1>7. Connection(d)' /\ HomeOnly(d)' /\ ~Fresh(d)'
  <2>1. Local(d)' = Local(d)
    BY <1>1 DEF Local
  <2>2. HomeOnly(d)'
    BY <1>1, <1>5, <1>6, <2>1, FreeEmpty DEF HomeOnly
  <2>3. ~Fresh(d)'
    BY <1>1, <1>5, FreeEmpty DEF Fresh
  <2>4. (\A i \in DOMAIN down'[d] : down'[d][i] \notin Starts) /\ DOMAIN up'[d] = {}
    BY <1>1, <1>5 DEF Free
  <2>5. Connection(d)'
    BY <1>1, <1>5, <2>3, <2>4, FreeEmpty DEF Connection, Arriving
  <2> QED
    BY <2>2, <2>3, <2>5
<1>8. ASSUME NEW x \in Device, x # d
      PROVE  HomeOnly(x)' /\ Connection(x)' /\ (Fresh(x)' => Fresh(x))
  <2>1. /\ HomeOnly(x) /\ Connection(x) /\ (Inside(x)' <=> Inside(x)) /\ link'[x] = link[x]
        /\ up'[x] = up[x] /\ Local(x)' = Local(x) /\ down[x] \in Seq(ServerMessage)
    BY <1>1, <1>8 DEF Meetings, Local, TypeOK
  <2>2. \/ down'[x] = down[x]
        \/ ~Arriving(x) /\ \E f \in ServerMessage \ (Starts \union Ends) :
             f \in Usual /\ down'[x] = Append(down[x], f)
    <3>1. Meeting(d, x)' => ~Arriving(x)
      BY <2>1 DEF Meeting, Arriving
    <3> QED
      BY <1>1, <1>4, <1>8, <3>1
  <2>3. Connection(x)' /\ (Fresh(x)' => Fresh(x))
    BY <2>1, <2>2, ConnectionCarried
  <2>4. Free(down[x], ServerMessage \ Usual) => Free(down'[x], ServerMessage \ Usual)
    <3>1. ASSUME NEW f \in ServerMessage, f \in Usual, down'[x] = Append(down[x], f)
          PROVE  Free(down[x], ServerMessage \ Usual) => Free(down'[x], ServerMessage \ Usual)
      BY <2>1, <3>1, FreeAppend
    <3> QED
      BY <2>2, <3>1
  <2>5. HomeOnly(x)'
    BY <1>1, <1>8, <2>1, <2>4, ZenonT(60) DEF HomeOnly
  <2> QED
    BY <2>3, <2>5
<1>9. ASSUME NEW x \in Device, NEW y \in Device, x # d, y # d PROVE Same(x, y)
  <2>1. Alike(down'[x], down[x], About(y))
    <3>1. CASE down'[x] = down[x]
      BY <3>1, AlikeSame
    <3>2. ASSUME NEW f \in Joins(d), down'[x] = Append(down[x], f)
          PROVE  Alike(down'[x], down[x], About(y))
      <4>1. f \in ServerMessage /\ f \notin About(y) /\ down[x] \in Seq(ServerMessage)
        BY <1>4, <1>9 DEF TypeOK
      <4> QED
        BY <3>2, <4>1, AlikeAppend
    <3> QED
      BY <1>1, <1>9, <3>1, <3>2
  <2> QED
    BY <1>1, <1>9, <2>1, AlikeSame DEF Same
<1>10. ASSUME NEW e \in Others(d) PROVE Pair(d, e)' /\ Pair(e, d)'
  <2>1. e \in Device /\ e # d /\ Pair(d, e) /\ Pair(e, d) /\ down[e] \in Seq(ServerMessage)
    BY PairOf DEF Others, TypeOK
  <2>2. Arrival(d, e) /\ ~Arriving(d)' /\ ~Meeting(d, e) /\ ~Meeting(e, d)
        /\ (Meeting(e, d)' <=> Meeting(d, e)')
    BY <1>1, <2>1 DEF Pair, Arriving, Meeting
  <2>3. /\ e \in Known(d)' <=> e \in Known(d)
        /\ d \in Known(e)' <=> d \in Known(e)
        /\ Silent(d, e)' <=> Silent(d, e)
        /\ Silent(e, d)' <=> Silent(e, d)
        /\ Describes(d, e)' <=> Describes(d, e)
        /\ Describes(e, d)' <=> Describes(e, d)
    BY <1>1, <2>1, SameKept
  <2>4. CASE ~Meeting(d, e)'
    <3>1. down'[e] = down[e]
      BY <1>1, <2>1, <2>4
    <3>2. Newcomer(d, e)' /\ Gone(d, e)'
      BY <1>5, <1>7, <2>1, <2>2, <2>3, <2>4 DEF Newcomer, Gone, Arrival
    <3>3. Newcomer(e, d)' /\ Gone(e, d)'
      BY <1>8, <2>1, <2>2, <2>3, <3>1 DEF Pair, Newcomer, Gone
    <3>4. ASSUME Arriving(e)' PROVE Arrival(e, d)'
      <4>1. Arriving(e)
        BY <1>1, <2>1, <3>4 DEF Arriving
      <4>2. Arrival(e, d)
        BY <2>1, <4>1 DEF Pair
      <4>3. Free(down'[d], Calls(e) \union Joins(e)) /\ Free(down'[d], Leaves(e))
            /\ Free(up'[d], To(e))
        BY <1>1, <1>5, <2>1, <2>4, FreeEmpty
      <4> QED
        BY <1>1, <2>2, <2>3, <4>2, <4>3 DEF Arrival
    <3> QED
      BY <2>2, <2>4, <3>2, <3>3, <3>4 DEF Pair
  <2>5. CASE Meeting(d, e)'
    <3>1. Inside(e) /\ link[e] = "connected" /\ ~Arriving(e)' /\ ~Fresh(e)'
      <4>1. Inside(e) /\ Inside(e)'
        BY <1>1, <2>1, <2>5 DEF Meeting
      <4>2. link[e] = "connected"
        BY <2>1, <4>1, InsideConnected
      <4> QED
        BY <1>8, <2>1, <4>1, <4>2 DEF Arriving, Connection
    <3>2. /\ e \notin Known(d) /\ d \notin Known(e) /\ Silent(d, e) /\ Silent(e, d)
          /\ Free(down[e], Leaves(d)) /\ Free(down[e], Calls(d) \union Joins(d))
          /\ Free(up[e], To(d))
      BY <2>2, <3>1 DEF Arrival
    <3>3. PICK f \in Joins(d) : f \in Usual /\ down'[e] = Append(down[e], f)
      BY <1>1, <2>1, <2>5
    <3>4. f \in ServerMessage /\ f \notin Leaves(d) \union Calls(d) /\ f \notin From(d)
      BY <1>4
    <3>5. Free(down'[e], Leaves(d) \union Calls(d))
      <4>1. Free(down[e], Leaves(d) \union Calls(d)) /\ Free(down[e], Joins(d))
        BY <3>2 DEF Free
      <4> QED
        BY <2>1, <3>3, <3>4, <4>1, FreeAppend
    <3>6. ASSUME NEW S PROVE FirstFree(down'[e], Joins(d), From(d) \ S)
      <4>1. Free(down[e], Joins(d))
        BY <3>2 DEF Free
      <4> QED
        BY <2>1, <3>3, <3>4, <4>1, FirstFreeAppend
    <3>7. Free(up'[e], To(d))
      BY <1>1, <2>1, <3>2
    <3>8. Setup(d, e)'
      BY <1>1, <1>5, <2>1, <2>3, <2>5, <3>2, <3>5, <3>6, <3>7, SetupBegins
    <3> QED
      BY <1>7, <2>2, <2>5, <3>1, <3>8 DEF Pair, Newcomer
  <2> QED
    BY <2>4, <2>5
<1>11. \A x \in Device : \A y \in Others(x) : Pair(x, y)'
  BY <1>1, <1>8, <1>9, <1>10, PairsElsewhere
<1> QED
  BY <1>1, <1>7, <1>8, <1>11, SameFailures DEF Meetings

-----------------------------------------------------------------------------
(* All steps.                                                              *)

LEMMA ServerMeets ==
  ASSUME TypeOK, Meetings, NEW d \in Device, Server(d)
  PROVE  Meetings'
<1>1. ASSUME NEW type \in {"RoomSecrets", "RoomSecretsDeleted"}, Reads(d, type) PROVE FALSE
  <2>1. up[d] # <<>> /\ up[d] \in Seq(ClientMessage) /\ Head(up[d]).type = type
        /\ Head(up[d]) \in ClientMessage
    BY <1>1, ReadType DEF Reads, TypeOK
  <2>2. Free(up[d], ClientMessage \ Local(d))
    BY DEF Meetings, HomeOnly
  <2>3. Head(up[d]) \in Local(d)
    BY <2>1, <2>2, FreeTail
  <2> QED
    BY <1>1, <2>1, <2>3 DEF Local, Joining
<1>2. ~ServerRegisters(d) /\ ~ServerDeletes(d)
  BY <1>1 DEF ServerRegisters, ServerDeletes
<1> QED
  BY <1>2, JoinMeets, RelayMeets DEF Server

\* No room of a pairing is in use, and nothing fails or is paired.
LEMMA NeverHappens ==
  ASSUME TypeOK, Meetings
  PROVE  /\ \A old, new \in Secret : ~ServerRotates(old, new)
         /\ \A d, e \in Device, secret \in Secret : ~ServerPairs(d, e, secret)
         /\ \A d \in Device : \A e \in Others(d) : \A n \in DOMAIN sessions[d][e] : ~IceFails(d, e, n)
<1>1. ASSUME NEW old \in Secret, NEW new \in Secret, ServerRotates(old, new) PROVE FALSE
  <2>1. old \in Room /\ members[old] \in SUBSET Device /\ members[old] # {}
    BY <1>1 DEF ServerRotates, Room, TypeOK
  <2>2. PICK x \in Device : x \in members[old]
    BY <2>1
  <2>3. old = home[x]
    BY <2>1, <2>2 DEF Meetings, HomeOnly
  <2> QED
    BY <2>3, TypeParts, RoomAssumption
<1>2. ASSUME NEW d \in Device, NEW e \in Device, NEW secret \in Secret, ServerPairs(d, e, secret)
      PROVE  FALSE
  <2>1. Spend({"pairing"})
    BY <1>2 DEF ServerPairs
  <2> QED
    BY <2>1, NoneFail DEF Meetings
<1>3. ASSUME NEW d \in Device, NEW e \in Others(d), NEW n \in DOMAIN sessions[d][e], IceFails(d, e, n)
      PROVE  FALSE
  <2>1. Spend({"iceFailure"})
    BY <1>3 DEF IceFails
  <2> QED
    BY <2>1, NoneFail DEF Meetings
<1> QED
  BY <1>1, <1>2, <1>3

LEMMA StillMeets == TypeOK /\ Meetings /\ UNCHANGED vars => Meetings'
<1> SUFFICES ASSUME TypeOK, Meetings, UNCHANGED vars PROVE Meetings'
  OBVIOUS
<1>1. Inner /\ UNCHANGED <<sessions, peers, up, down, held, secretFor, budget>>
  BY DEF vars, engine, task, server, Inner
<1>2. \A x \in Device : HomeOnly(x)' /\ Connection(x)' /\ (Fresh(x)' => Fresh(x))
  BY <1>1, StillRest
<1>3. \A x, y \in Device : Same(x, y)
  BY <1>1, AlikeSame DEF Same
<1>4. \A x \in Device : \A y \in Others(x) : Pair(x, y)'
  BY <1>1, <1>2, <1>3, Pairs DEF Others
<1> QED
  BY <1>1, <1>2, <1>4, SameFailures DEF Meetings

\* A wait that was cut short is not forgotten.
LEMMA HurriedStays ==
  ASSUME [Next]_vars, hurried' = {}
  PROVE  hurried = {}
<1>1. CASE UNCHANGED vars
  BY <1>1 DEF vars, task
<1>2. ASSUME NEW d \in Device, Connect(d) \/ Retry(d) \/ Drop(d)
      PROVE  hurried' \in {hurried, hurried \union {d}}
  BY <1>2 DEF Connect, Retry, Drop
<1>3. ASSUME NEW d \in Device, HandleSignaling(d)
      PROVE  UNCHANGED task
  BY <1>3 DEF HandleSignaling, HandleWaitingToRetry, HandleIdentity, HandlePeers,
     HandlePeerJoined, HandlePeerLeft, HandleSignal, HandlePaired, HandleDeleted,
     HandleRegenerated
<1>4. ASSUME NEW d \in Device, HandleRtc(d) \/ Command(d)
      PROVE  UNCHANGED task
  BY <1>4 DEF HandleRtc, HandleLocalDescription, HandleOpen, HandleClosed, Reports, Command,
     Unpair, SetAutoAccept
<1>5. ASSUME NEW d \in Device, Channel(d) \/ Server(d)
      PROVE  UNCHANGED task
  BY <1>5 DEF Channel, ChannelOpens, ChannelCloses, Server, ServerJoinsIpRoom,
     ServerRegisters, ServerDeletes, ServerRelays, Reads
<1>6. CASE \E d \in Device : \E e \in Others(d) : \E n \in DOMAIN sessions[d][e] : IceFails(d, e, n)
  BY <1>6 DEF IceFails, task
<1>7. CASE \/ \E d, e \in Device : \E secret \in Secret : ServerPairs(d, e, secret)
           \/ \E old, new \in Secret : ServerRotates(old, new)
  BY <1>7 DEF ServerPairs, ServerRotates, task
<1>8. CASE Next
  BY <1>2, <1>3, <1>4, <1>5, <1>6, <1>7, <1>8 DEF Next, task
<1> QED
  BY <1>1, <1>8

LEMMA MeetingsStep ==
  ASSUME Unpaired, TypeOK, NoSessionIsLeaked, Meetings, [Next]_vars, hurried' = {}
  PROVE  Meetings'
<1>0. hurried = {}
  BY HurriedStays
<1>1. CASE UNCHANGED vars
  BY <1>1, StillMeets
<1>2. ASSUME NEW d \in Device, HandleSignaling(d) \/ HandleRtc(d) \/ Command(d)
      PROVE  Meetings'
  BY <1>2, SignalingMeets, RtcMeets, NoCommand
<1>3. ASSUME NEW d \in Device, Connect(d) \/ Retry(d) \/ Drop(d)
      PROVE  Meetings'
  BY <1>0, <1>3, ConnectMeets, RetryMeets, DropMeets
<1>4. ASSUME NEW d \in Device, Channel(d) PROVE Meetings'
  BY <1>4, OpensMeets, ClosesMeets DEF Channel
<1>5. ASSUME NEW d \in Device, Server(d) PROVE Meetings'
  BY <1>5, ServerMeets
<1>6. CASE Next
  BY <1>2, <1>3, <1>4, <1>5, <1>6, NeverHappens DEF Next
<1> QED
  BY <1>1, <1>6

LEMMA InitMeetings == Unpaired /\ Init => Meetings
<1> SUFFICES ASSUME Unpaired, Init PROVE Meetings
  OBVIOUS
<1>1. TypeOK
  BY InitSafe
<1>2. NoFailures
  BY DEF Unpaired, Init, NoFailures
<1> SUFFICES ASSUME NEW x \in Device
             PROVE  HomeOnly(x) /\ Connection(x) /\ \A y \in Others(x) : Pair(x, y)
  BY <1>2 DEF Meetings
<1>3. /\ held[x] = {} /\ \A y \in Device : secretFor[x][y] = None /\ peers[x][y] = None
      /\ \A room \in Room : members[room] = {}
      /\ link[x] = "connecting" /\ up[x] = <<>> /\ down[x] = <<>>
  BY DEF Init, Unpaired
<1>4. home[x] \in Room
  BY <1>1, TypeParts, ConstantTypes
<1>5. HomeOnly(x)
  BY <1>3, FreeEmpty DEF HomeOnly
<1>6. Connection(x) /\ ~Fresh(x) /\ ~Inside(x) /\ ~Arriving(x)
  BY <1>3, <1>4, FreeEmpty DEF Connection, Fresh, Inside, Arriving
<1>7. ASSUME NEW y \in Others(x) PROVE Pair(x, y)
  BY <1>3, <1>6, FreeEmpty DEF Pair, Newcomer, Gone, Meeting, Known, Others
<1> QED
  BY <1>5, <1>6, <1>7

LEMMA SetupDone ==
  ASSUME TypeOK, NEW c \in Device, NEW k \in Device, Setup(c, k), Quiet
  PROVE  /\ k \in Known(c) /\ peers[c][k].connected /\ Current(c, k).state = "open"
         /\ c \in Known(k) /\ peers[k][c].connected /\ Current(k, c).state = "open"
<1>1. up[c] = <<>> /\ up[k] = <<>> /\ down[c] = <<>> /\ down[k] = <<>>
  BY DEF Quiet
<1>2. \A S : Free(<<>>, S) /\ \A T : ~FirstFree(<<>>, S, T) /\ ~Follows(<<>>, S, T)
  BY DEF Free, FirstFree, Follows
<1>3. k \in Known(c) /\ c \in Known(k)
  BY <1>1, <1>2 DEF Setup, Told
<1>4. Current(c, k).reports = <<>> /\ Current(k, c).reports = <<>>
  BY <1>3, CurrentType, SMTT(30) DEF Quiet
<1>5. Current(k, c).remote # 0 \/ Current(c, k).remote # 0
  BY <1>1, <1>2, <1>3, <1>4 DEF Setup, Offered
<1>6. Current(c, k).remote # 0
  BY <1>1, <1>2, <1>3, <1>4, <1>5 DEF Setup, Answered
<1>7. Taken(c, k) /\ Current(c, k).remote = peers[k][c].session
  BY <1>3, <1>6 DEF Setup, Agreed
<1>8. Current(c, k).state = "open" <=> Current(k, c).state = "open"
  BY <1>3 DEF Setup, Agreed
<1>9. Current(c, k).state = "open"
  <2> SUFFICES ASSUME Current(c, k).state = "new", Current(k, c).state = "new" PROVE FALSE
    BY <1>3, <1>8 DEF Setup, Alive
  <2> DEFINE n == peers[c][k].session
  <2>1. n \in DOMAIN sessions[c][k] /\ Current(c, k) = sessions[c][k][n]
    BY <1>3, CurrentType
  <2>2. Remote(c, k, n) = Current(k, c) /\ Current(k, c).remote = n
    BY <1>7, <2>1 DEF Remote, Current, Taken
  <2>3. Current(c, k).caller
    BY <1>3 DEF Setup, Alive
  <2>4. CanOpen(c, k, n)
    BY <1>6, <2>1, <2>2, <2>3 DEF CanOpen
  <2> QED
    BY <2>1, <2>4 DEF Quiet
<1>10. peers[c][k].connected /\ peers[k][c].connected
  BY <1>2, <1>3, <1>4, <1>8, <1>9 DEF Setup, Alive
<1> QED
  BY <1>3, <1>8, <1>9, <1>10

LEMMA MeetingsConnect == TypeOK /\ (hurried = {} => Meetings) => QuietMeansConnected
<1> SUFFICES ASSUME TypeOK, Meetings, Quiet, NEW d \in Device, NEW e \in Others(d), Meet(d, e)
             PROVE  e \in Known(d) /\ peers[d][e].connected /\ Current(d, e).state = "open"
  BY DEF QuietMeansConnected
<1>1. e \in Device /\ Pair(d, e) /\ HomeOnly(d) /\ HomeOnly(e)
  BY PairOf DEF Others, Meetings
<1>2. PICK room \in Room : {d, e} \subseteq members[room]
  BY DEF Meet
<1>3. room = home[d] /\ room = home[e]
  BY <1>1, <1>2 DEF HomeOnly
<1>4. Meeting(d, e)
  BY <1>2, <1>3 DEF Meeting, Inside
<1>5. Setup(d, e) \/ Setup(e, d)
  BY <1>1, <1>4 DEF Pair
<1> QED
  BY <1>1, <1>5, SetupDone

\* "Peers already in the room when we arrive are the ones we call", and "a peer arriving after
\* us calls us". Of devices that neither have pairings nor make any, whose dials and ICE
\* attempts never fail, exactly one end of every pair in a room calls, its offer and the answer
\* reach the sessions they are for, and when nothing is on its way any more both ends are
\* connected. That a device reconnects in between, any number of times, does no harm as long
\* as each wait to retry lasts its time and outlasts what is under way about it (Settles): the
\* property says nothing once a message has cut a wait short.
THEOREM QuietConnects ==
  ASSUME Settles,
         InitiallyHeld = {} /\ \A limits \in Limits : limits["pairing"] = 0,
         \A limits \in Limits : limits["dialFailure"] = 0 /\ limits["iceFailure"] = 0
  PROVE  Spec => []QuietMeansConnected
<1>0. Unpaired
  BY DEF Unpaired
<1>1. Init => TypeOK /\ NoSessionIsLeaked /\ (hurried = {} => Meetings)
  BY <1>0, InitSafe, InitMeetings
<1>2. TypeOK /\ NoSessionIsLeaked /\ (hurried = {} => Meetings) /\ [Next]_vars
        => (TypeOK /\ NoSessionIsLeaked /\ (hurried = {} => Meetings))'
  BY <1>0, StepSafe, MeetingsStep, HurriedStays
<1> QED
  BY <1>1, <1>2, MeetingsConnect, PTL DEF Spec
=============================================================================
