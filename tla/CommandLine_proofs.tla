------------------------- MODULE CommandLine_proofs -------------------------
(***************************************************************************)
(* Proofs about CommandLine, for any devices and rooms, whatever --to asks *)
(* for and however often each device comes and the connection is lost.     *)
(***************************************************************************)
EXTENDS CommandLine, SequenceTheorems, TLAPS

SessionsOK == sessions \in [Remote -> Seq(Session)]
PeersOK == peers \in [Remote -> Peer \union {None}]
CurrentOK == \A r \in Known : peers[r].session \in DOMAIN sessions[r]
MainOK ==
  /\ paired \subseteq Remote
  /\ joined \in BOOLEAN /\ room \in Room /\ stopping \in BOOLEAN /\ running \in BOOLEAN
QueuesOK ==
  /\ link \in {"connecting", "connected", "waiting", "ended"}
  /\ up \in Seq(ClientMessage) /\ down \in Seq(SignalingEvent)
LivesOK ==
  /\ life \in [Remote -> Nat] /\ lives \in [Remote -> Nat]
  /\ \A r \in Remote : life[r] \in {0, lives[r]} /\ lives[r] \in 0..MaxLives[r]
  /\ within \subseteq Room
BatchesOK ==
  /\ batches = [r \in Remote |-> batches[r]]
  /\ \A r \in Remote : batches[r] \in [1..MaxLives[r] -> Nat]
BoundsOK == late \in BOOLEAN /\ budget \in [drops : 0..MaxDrops, pairings : 0..MaxPairings]

\* TypeOK, with the domains of the functions that it leaves open.
TypeInv ==
  /\ SessionsOK /\ PeersOK /\ CurrentOK /\ MainOK /\ QueuesOK /\ LivesOK /\ BatchesOK /\ BoundsOK

LEMMA TypeInvImplies == TypeInv => TypeOK
BY DEF TypeInv, TypeOK, SessionsOK, PeersOK, CurrentOK, MainOK, QueuesOK, LivesOK, BatchesOK,
       BoundsOK

-----------------------------------------------------------------------------
(* Sequences and messages.                                                 *)

LEMMA HeadAndTail ==
  ASSUME NEW S, NEW q \in Seq(S), q # <<>>
  PROVE  /\ Head(q) \in S /\ Tail(q) \in Seq(S) /\ Head(q) = q[1] /\ 1 \in DOMAIN q
         /\ \A i \in DOMAIN Tail(q) : i + 1 \in DOMAIN q /\ Tail(q)[i] = q[i + 1]
OBVIOUS

LEMMA Appended ==
  ASSUME NEW S, NEW q \in Seq(S), NEW x \in S
  PROVE  /\ Append(q, x) \in Seq(S) /\ Len(Append(q, x)) = Len(q) + 1
         /\ DOMAIN Append(q, x) = DOMAIN q \union {Len(q) + 1}
         /\ Append(q, x)[Len(q) + 1] = x
         /\ \A i \in DOMAIN q : Append(q, x)[i] = q[i] /\ i # Len(q) + 1
OBVIOUS

LEMMA Mapped ==
  ASSUME NEW S, NEW q \in Seq(S), NEW f \in [DOMAIN q -> S]
  PROVE  f \in Seq(S) /\ Len(f) = Len(q)
<1>1. DOMAIN q = 1..Len(q) /\ Len(q) \in Nat
  OBVIOUS
<1>2. f \in [1..Len(q) -> S]
  BY <1>1, Zenon
<1>3. f \in Seq(S)
  BY <1>1, <1>2, SeqDef
<1>4. DOMAIN f = 1..Len(q) /\ DOMAIN f = 1..Len(f) /\ Len(f) \in Nat
  BY <1>2, <1>3
<1> QED
  BY <1>1, <1>3, <1>4

LEMMA Replaced ==
  ASSUME NEW S, NEW q \in Seq(S), NEW n, NEW v, n \in DOMAIN q => v \in S
  PROVE  /\ [q EXCEPT ![n] = v] \in Seq(S) /\ Len([q EXCEPT ![n] = v]) = Len(q)
         /\ DOMAIN [q EXCEPT ![n] = v] = DOMAIN q
         /\ \A k \in DOMAIN q : [q EXCEPT ![n] = v][k] = IF k = n THEN v ELSE q[k]
<1> DEFINE f == [q EXCEPT ![n] = v]
<1>1. DOMAIN f = DOMAIN q /\ \A k \in DOMAIN q : f[k] = IF k = n THEN v ELSE q[k]
  OBVIOUS
<1>2. \A k \in DOMAIN q : q[k] \in S
  OBVIOUS
<1>3. f \in [DOMAIN q -> S]
  <2>1. f = [k \in DOMAIN q |-> f[k]]
    OBVIOUS
  <2> HIDE DEF f
  <2> QED
    BY <1>1, <1>2, <2>1
<1> HIDE DEF f
<1>4. f \in Seq(S) /\ Len(f) = Len(q)
  BY <1>3, Mapped
<1> QED
  BY <1>1, <1>4 DEF f

LEMMA ClientMessages ==
  /\ [type |-> "JoinIpRoom"] \in ClientMessage /\ [type |-> "RoomSecrets"] \in ClientMessage
  /\ Shutdown \in ClientMessage
  /\ \A r \in Remote, n \in Nat \ {0}, place \in Room :
       [type |-> "Signal", peer |-> r, session |-> n, room |-> place] \in ClientMessage
BY DEF ClientMessage, Shutdown

LEMMA SignalingEvents ==
  /\ \A type \in {"WaitingToRetry", "Identity", "Closed"} : [type |-> type] \in SignalingEvent
  /\ \A place \in Room, present \in SUBSET Remote :
       [type |-> "Peers", room |-> place, peers |-> present] \in SignalingEvent
  /\ \A r \in Remote :
       /\ [type |-> "PeerLeft", peer |-> r] \in SignalingEvent
       /\ [type |-> "Paired", peer |-> r] \in SignalingEvent
  /\ \A r \in Remote, stay \in Nat \ {0}, b \in BOOLEAN :
       [type |-> "Signal", peer |-> r, life |-> stay, offer |-> b] \in SignalingEvent
BY DEF SignalingEvent

LEMMA CarriedDown ==
  ASSUME NEW frame \in SignalingEvent
  PROVE  /\ frame.type = "Peers" => frame.room \in Room /\ frame.peers \subseteq Remote
         /\ frame.type \in {"PeerLeft", "Signal", "Paired"} => frame.peer \in Remote
         /\ frame.type = "Signal" => frame.life \in Nat \ {0} /\ frame.offer \in BOOLEAN
BY DEF SignalingEvent

LEMMA CarriedUp ==
  ASSUME NEW message \in ClientMessage
  PROVE  message.type = "Signal" =>
           /\ message.peer \in Remote /\ message.session \in Nat \ {0}
           /\ message.room \in Room
BY DEF ClientMessage

-----------------------------------------------------------------------------
(* Sessions.                                                               *)

LEMMA SessionFields ==
  ASSUME NEW session \in Session
  PROVE  /\ session.caller \in BOOLEAN /\ session.remote \in Nat /\ session.heard \in BOOLEAN
         /\ session.over \in BOOLEAN /\ session.state \in {"new", "open", "failed", "closed"}
         /\ session.reports \in Seq(Report)
BY DEF Session

LEMMA NewSessionType ==
  ASSUME NEW isCaller \in BOOLEAN
  PROVE  NewSession(isCaller) \in Session
<1>1. <<>> \in Seq(Report) /\ <<"LocalDescription">> \in Seq(Report)
  BY DEF Report
<1> QED
  BY <1>1 DEF NewSession, Session

\* close(): the session is closed, and reports so if it was not.
LEMMA ClosedIs ==
  ASSUME NEW session \in Session
  PROVE  /\ ClosedSession(session) \in Session /\ ClosedSession(session).state = "closed"
         /\ session.state = "closed" => ClosedSession(session) = session
         /\ session.state # "closed" =>
              /\ ClosedSession(session).remote = 0 /\ ~ClosedSession(session).heard
              /\ ClosedSession(session).reports = Append(session.reports, "Closed")
<1> DEFINE reports == Append(session.reports, "Closed")
<1>1. reports \in Seq(Report)
  BY Appended, SessionFields DEF Report
<1> HIDE DEF reports
<1> DEFINE fresh == [caller |-> FALSE, remote |-> 0, heard |-> FALSE, over |-> FALSE,
                     state |-> "new", reports |-> <<>>]
           v == [fresh EXCEPT !.state = "closed", !.reports = reports]
<1>2. v \in Session /\ v.state = "closed" /\ v.remote = 0 /\ ~v.heard /\ v.reports = reports
  BY <1>1 DEF Session
<1>3. NewSession(FALSE) = fresh
  BY Zenon DEF NewSession
<1> HIDE DEF fresh
<1>4. ClosedSession(session) = IF session.state = "closed" THEN session ELSE v
  BY <1>3, Zenon DEF ClosedSession, reports
<1> HIDE DEF v
<1> QED
  BY <1>2, <1>4 DEF reports

LEMMA AcceptIs ==
  ASSUME NEW session \in Session, NEW frame \in SignalingEvent, frame.type = "Signal"
  PROVE  LET v == Accept(session, frame)
             fits == session.state = "new" /\ session.remote = 0 /\ (session.caller <=> ~frame.offer)
         IN
         /\ v \in Session /\ v.caller = session.caller /\ v.over = session.over
         /\ v.state = session.state
         /\ ~fits => v = session
         /\ fits => /\ v.remote = frame.life /\ (v.heard <=> ~frame.offer)
                    /\ frame.offer => v.reports = Append(session.reports, "LocalDescription")
                    /\ ~frame.offer => v.reports = session.reports
<1>1. frame.life \in Nat /\ frame.offer \in BOOLEAN /\ session.caller \in BOOLEAN
  BY CarriedDown, SessionFields
<1> DEFINE reports == IF frame.offer THEN Append(session.reports, "LocalDescription")
                      ELSE session.reports
           heard == ~frame.offer
           fits == session.state = "new" /\ session.remote = 0 /\ session.caller = heard
           v == [session EXCEPT !.remote = frame.life, !.heard = heard, !.reports = reports]
<1>2. reports \in Seq(Report)
  BY Appended, SessionFields DEF Report
<1>3. Accept(session, frame) = IF fits THEN v ELSE session
  BY Zenon DEF Accept
<1>4. /\ frame.offer => reports = Append(session.reports, "LocalDescription")
      /\ ~frame.offer => reports = session.reports
  OBVIOUS
<1>5. heard \in BOOLEAN /\ (heard <=> ~frame.offer)
  OBVIOUS
<1>6. fits <=> session.state = "new" /\ session.remote = 0 /\ (session.caller <=> ~frame.offer)
  BY <1>1, <1>5
<1> HIDE DEF reports, heard
<1>7. /\ v \in Session /\ v.caller = session.caller /\ v.over = session.over
      /\ v.state = session.state /\ v.remote = frame.life /\ v.heard = heard
      /\ v.reports = reports
  BY <1>1, <1>2, <1>5 DEF Session
<1> HIDE DEF v, fits
<1> QED
  BY <1>3, <1>4, <1>5, <1>6, <1>7, Zenon

\* One session of r becomes v, the others stay.
Changed(r, n, v) ==
  /\ \A x \in Remote : x # r => sessions'[x] = sessions[x]
  /\ Len(sessions'[r]) = Len(sessions[r]) /\ DOMAIN sessions'[r] = DOMAIN sessions[r]
  /\ \A k \in DOMAIN sessions[r] : sessions'[r][k] = IF k = n THEN v ELSE sessions[r][k]

\* A session with r is built.
Built(r, v) ==
  /\ Len(sessions'[r]) = Len(sessions[r]) + 1
  /\ DOMAIN sessions'[r] = DOMAIN sessions[r] \union {Len(sessions[r]) + 1}
  /\ sessions'[r][Len(sessions[r]) + 1] = v
  /\ \A k \in DOMAIN sessions[r] : sessions'[r][k] = sessions[r][k] /\ k # Len(sessions[r]) + 1

LEMMA SessionChanges ==
  ASSUME SessionsOK, NEW r \in Remote, NEW n, NEW v, n \in DOMAIN sessions[r] => v \in Session,
         sessions' = [sessions EXCEPT ![r][n] = v]
  PROVE  SessionsOK' /\ Changed(r, n, v)
<1> DEFINE list == [sessions[r] EXCEPT ![n] = v]
<1>1. sessions[r] \in Seq(Session)
  BY DEF SessionsOK
<1>2. /\ list \in Seq(Session) /\ DOMAIN list = DOMAIN sessions[r]
      /\ Len(list) = Len(sessions[r])
      /\ \A k \in DOMAIN sessions[r] : list[k] = IF k = n THEN v ELSE sessions[r][k]
  BY <1>1, Replaced
<1>3. sessions' = [sessions EXCEPT ![r] = list]
  OBVIOUS
<1> HIDE DEF list
<1> QED
  BY <1>2, <1>3 DEF SessionsOK, Changed

LEMMA SessionBuilt ==
  ASSUME SessionsOK, NEW r \in Remote, NEW v \in Session,
         sessions'[r] = Append(sessions[r], v)
  PROVE  sessions'[r] \in Seq(Session) /\ Built(r, v)
BY Appended DEF SessionsOK, Built

\* Reports that are handled.
LEMMA TakenIs ==
  ASSUME SessionsOK, NEW r \in Remote, NEW n \in DOMAIN sessions[r],
         sessions[r][n].reports # <<>>
  PROVE  LET s == sessions[r][n]
             v == [s EXCEPT !.reports = Tail(@)]
         IN  /\ v \in Session /\ Taken(r, n) = [sessions EXCEPT ![r][n] = v]
             /\ v.caller = s.caller /\ v.remote = s.remote /\ v.heard = s.heard
             /\ v.over = s.over /\ v.state = s.state /\ v.reports = Tail(s.reports)
<1>1. sessions[r] \in Seq(Session) /\ sessions[r][n] \in Session
  BY DEF SessionsOK
<1>2. Tail(sessions[r][n].reports) \in Seq(Report)
  BY <1>1, HeadAndTail, SessionFields
<1>3. Taken(r, n) = [sessions EXCEPT ![r][n] =
                       [sessions[r][n] EXCEPT !.reports = Tail(sessions[r][n].reports)]]
  BY <1>1 DEF Taken, SessionsOK
<1> QED
  BY <1>1, <1>2, <1>3 DEF Session

LEMMA FailedIs ==
  ASSUME NEW session \in Session
  PROVE  LET v == [NewSession(FALSE) EXCEPT !.state = "failed",
                      !.reports = Append(session.reports, "Failed")]
         IN  /\ v \in Session /\ v.state = "failed" /\ v.remote = 0 /\ ~v.heard
             /\ v.reports = Append(session.reports, "Failed")
<1> DEFINE reports == Append(session.reports, "Failed")
           fresh == [caller |-> FALSE, remote |-> 0, heard |-> FALSE, over |-> FALSE,
                     state |-> "new", reports |-> <<>>]
           v == [fresh EXCEPT !.state = "failed", !.reports = reports]
<1>1. reports \in Seq(Report)
  BY Appended, SessionFields DEF Report
<1> HIDE DEF reports
<1>2. v \in Session /\ v.state = "failed" /\ v.remote = 0 /\ ~v.heard /\ v.reports = reports
  BY <1>1 DEF Session
<1>3. NewSession(FALSE) = fresh
  BY Zenon DEF NewSession
<1> HIDE DEF fresh
<1>4. [NewSession(FALSE) EXCEPT !.state = "failed",
         !.reports = Append(session.reports, "Failed")] = v
  BY <1>3, Zenon DEF reports
<1> HIDE DEF v
<1> QED
  BY <1>2, <1>4, Zenon DEF reports

\* What a session reports when its channel opens.
Opening(r) == <<"Open", IF life[r] \in Wanted[r] THEN "WantedName" ELSE "Name">>

LEMMA OpenedIs ==
  ASSUME NEW r \in Remote, NEW session \in Session
  PROVE  LET v == [session EXCEPT !.state = "open", !.reports = @ \o Opening(r)]
         IN  /\ v \in Session /\ v.state = "open" /\ v.remote = session.remote
             /\ v.heard = session.heard /\ v.over = session.over /\ v.caller = session.caller
             /\ v.reports = session.reports \o Opening(r) /\ Opening(r) \in Seq(Report)
<1>1. Opening(r) \in Seq(Report)
  BY DEF Opening, Report
<1>2. session.reports \o Opening(r) \in Seq(Report)
  BY <1>1, SessionFields, ConcatProperties
<1> QED
  BY <1>1, <1>2 DEF Session

-----------------------------------------------------------------------------
(* Types.                                                                  *)

LEMMA CurrentKept ==
  ASSUME CurrentOK, \A x \in Remote : DOMAIN sessions[x] \subseteq DOMAIN sessions'[x],
         \A x \in Remote : peers'[x] # None =>
           \/ peers[x] # None /\ peers'[x].session = peers[x].session
           \/ peers'[x].session \in DOMAIN sessions'[x]
  PROVE  CurrentOK'
BY DEF CurrentOK, Known

LEMMA ChangedKept ==
  ASSUME CurrentOK, NEW r \in Remote, NEW n, NEW v, Changed(r, n, v),
         \A x \in Remote : peers'[x] # None =>
           peers[x] # None /\ peers'[x].session = peers[x].session
  PROVE  CurrentOK'
<1>1. \A x \in Remote : DOMAIN sessions[x] \subseteq DOMAIN sessions'[x]
  BY DEF Changed
<1> QED
  BY <1>1, CurrentKept

LEMMA HandledType ==
  ASSUME QueuesOK, NEW type, Arrives(type), Handled
  PROVE  /\ down' \in Seq(SignalingEvent) /\ down # <<>>
         /\ Head(down) \in SignalingEvent /\ Head(down).type = type
BY HeadAndTail DEF QueuesOK, Arrives, Handled

LEMMA ReadType ==
  ASSUME QueuesOK, NEW type, Reads(type)
  PROVE  /\ Head(up) \in ClientMessage /\ Head(up).type = type
         /\ Tail(up) \in Seq(ClientMessage) /\ up # <<>>
BY HeadAndTail DEF QueuesOK, Reads

LEMMA SpendType ==
  ASSUME BoundsOK, NEW kind \in {"drops", "pairings"}, Spend(kind)
  PROVE  /\ budget' \in [drops : 0..MaxDrops, pairings : 0..MaxPairings]
         /\ budget'.drops = IF kind = "drops" THEN budget.drops - 1 ELSE budget.drops
<1>1. MaxDrops \in Nat /\ MaxPairings \in Nat
  BY BoundAssumption
<1>2. CASE kind = "drops"
  BY <1>1, <1>2 DEF BoundsOK, Spend
<1>3. CASE kind = "pairings"
  BY <1>1, <1>3 DEF BoundsOK, Spend
<1> QED
  BY <1>2, <1>3

LEMMA UnknownType ==
  ASSUME PeersOK, NEW r \in Remote
  PROVE  /\ r \in Known <=> peers[r] # None
         /\ r \in Known => peers[r] \in Peer
BY DEF PeersOK, Known

\* What the loop keeps of a new session.
LEMMA NewPeerType ==
  ASSUME SessionsOK, NEW r \in Remote
  PROVE  /\ NewPeer(r) \in Peer /\ NewPeer(r) # None
         /\ NewPeer(r).session = Len(sessions[r]) + 1 /\ ~NewPeer(r).sent /\ ~NewPeer(r).wanted
<1>1. Len(sessions[r]) \in Nat
  BY DEF SessionsOK
<1>2. NewPeer(r) \in Peer
  BY <1>1 DEF NewPeer, Peer
<1> QED
  BY <1>1, <1>2, NoneAssumption DEF NewPeer

LEMMA WaitingToRetryType ==
  ASSUME TypeInv, HandleWaitingToRetry
  PROVE  TypeInv'
<1>1. down' \in Seq(SignalingEvent)
  BY HandledType DEF HandleWaitingToRetry, TypeInv
<1>2. PeersOK' /\ CurrentOK'
  BY DEF HandleWaitingToRetry, PeersOK, CurrentOK, Known
<1> QED
  BY <1>1, <1>2 DEF HandleWaitingToRetry, TypeInv, others, SessionsOK, MainOK, QueuesOK, LivesOK,
                    BatchesOK, BoundsOK

\* The loop ends: every session the list has is closed.
LEMMA ClosingSessions ==
  ASSUME SessionsOK, HandleClosed
  PROVE  /\ SessionsOK'
         /\ \A r \in Remote :
              /\ DOMAIN sessions'[r] = DOMAIN sessions[r]
              /\ \A n \in DOMAIN sessions[r] :
                   sessions'[r][n] = IF r \in Known /\ peers[r].session = n
                                     THEN ClosedSession(sessions[r][n]) ELSE sessions[r][n]
<1> DEFINE Ended(r, n) == IF r \in Known /\ peers[r].session = n
                          THEN ClosedSession(sessions[r][n]) ELSE sessions[r][n]
           List(r) == [n \in DOMAIN sessions[r] |-> Ended(r, n)]
<1>1. \A r \in Remote : sessions[r] \in Seq(Session)
  BY DEF SessionsOK
<1>2. ASSUME NEW r \in Remote, NEW n \in DOMAIN sessions[r]
      PROVE  Ended(r, n) \in Session
  <2>1. sessions[r][n] \in Session
    BY <1>1
  <2> QED
    BY <2>1, ClosedIs
<1>3. sessions' = [r \in Remote |-> List(r)]
  BY Zenon DEF HandleClosed
<1> HIDE DEF Ended
<1>4. ASSUME NEW r \in Remote
      PROVE  List(r) \in Seq(Session)
  <2>1. List(r) \in [DOMAIN sessions[r] -> Session]
    BY <1>2
  <2> HIDE DEF List
  <2> QED
    BY <1>1, <2>1, Mapped
<1>5. \A r \in Remote :
        /\ DOMAIN sessions'[r] = DOMAIN sessions[r]
        /\ \A n \in DOMAIN sessions[r] : sessions'[r][n] = Ended(r, n)
  BY <1>3
<1> HIDE DEF List
<1>6. SessionsOK'
  BY <1>3, <1>4 DEF SessionsOK
<1> QED
  BY <1>5, <1>6 DEF Ended

LEMMA ClosedType ==
  ASSUME TypeInv, HandleClosed
  PROVE  TypeInv'
<1>1. down' \in Seq(SignalingEvent)
  BY HandledType DEF HandleClosed, TypeInv
<1>2. SessionsOK' /\ \A x \in Remote : DOMAIN sessions[x] = DOMAIN sessions'[x]
  BY ClosingSessions DEF TypeInv
<1>3. CurrentOK' /\ PeersOK'
  BY <1>2 DEF TypeInv, HandleClosed, CurrentOK, PeersOK, Known
<1> QED
  BY <1>1, <1>2, <1>3 DEF HandleClosed, TypeInv, others, MainOK, QueuesOK, LivesOK, BatchesOK,
                          BoundsOK

LEMMA IdentityType ==
  ASSUME TypeInv, HandleIdentity
  PROVE  TypeInv'
<1>1. down' \in Seq(SignalingEvent)
  BY HandledType DEF HandleIdentity, TypeInv
<1>2. up' \in Seq(ClientMessage)
  <2>1. /\ <<[type |-> "JoinIpRoom"]>> \in Seq(ClientMessage)
        /\ <<[type |-> "RoomSecrets"]>> \in Seq(ClientMessage) /\ <<>> \in Seq(ClientMessage)
        /\ up \in Seq(ClientMessage)
    BY ClientMessages DEF TypeInv, QueuesOK
  <2>2. /\ up \o <<[type |-> "JoinIpRoom"]>> \o <<>> \in Seq(ClientMessage)
        /\ up \o <<[type |-> "JoinIpRoom"]>> \o <<[type |-> "RoomSecrets"]>> \in Seq(ClientMessage)
    BY <2>1, ConcatProperties
  <2> QED
    BY <2>1, <2>2 DEF HandleIdentity
<1> QED
  BY <1>1, <1>2 DEF HandleIdentity, TypeInv, others, SessionsOK, PeersOK, CurrentOK, Known, MainOK,
                    QueuesOK, LivesOK, BatchesOK, BoundsOK

LEMMA PairedType ==
  ASSUME TypeInv, HandlePaired
  PROVE  TypeInv'
<1>1. down' \in Seq(SignalingEvent) /\ Head(down).peer \in Remote
  BY HandledType, CarriedDown DEF HandlePaired, TypeInv
<1>2. up' \in Seq(ClientMessage)
  BY ClientMessages, Appended DEF HandlePaired, TypeInv, QueuesOK
<1> QED
  BY <1>1, <1>2 DEF HandlePaired, TypeInv, others, SessionsOK, PeersOK, CurrentOK, Known, MainOK,
                    QueuesOK, LivesOK, BatchesOK, BoundsOK

\* A session is built for each of the called.
Dials(called) ==
  /\ sessions' = [r \in Remote |->
       IF r \in called THEN Append(sessions[r], NewSession(TRUE)) ELSE sessions[r]]
  /\ peers' = [r \in Remote |-> IF r \in called THEN NewPeer(r) ELSE peers[r]]

\* The called are some of those that are to be.
LEMMA SomeDialled ==
  ASSUME TypeInv, HandlePeers
  PROVE  \E called \in SUBSET (Head(down).peers \ Known) : called \in SUBSET Remote /\ Dials(called)
<1> DEFINE asked == Head(down).peers \ Known
<1>1. asked \in SUBSET Remote
  BY HandledType, CarriedDown DEF HandlePeers, TypeInv
<1>2. Dial(asked, TRUE)
  BY DEF HandlePeers
<1> HIDE DEF asked
<1>3. \E called \in SUBSET asked : Dials(called)
  BY <1>2, Zenon DEF Dial, Dials
<1> QED
  BY <1>1, <1>3 DEF asked

\* dial, for each of the peers that are called.
LEMMA Dialled ==
  ASSUME SessionsOK, PeersOK, CurrentOK, NEW called \in SUBSET Remote, Dials(called)
  PROVE  /\ SessionsOK' /\ PeersOK' /\ CurrentOK'
         /\ \A r \in called : Built(r, NewSession(TRUE)) /\ peers'[r] = NewPeer(r)
         /\ \A r \in Remote \ called : sessions'[r] = sessions[r] /\ peers'[r] = peers[r]
<1>1. /\ \A r \in called : /\ sessions'[r] = Append(sessions[r], NewSession(TRUE))
                           /\ peers'[r] = NewPeer(r)
      /\ \A r \in Remote \ called : sessions'[r] = sessions[r] /\ peers'[r] = peers[r]
      /\ sessions' = [r \in Remote |-> sessions'[r]] /\ peers' = [r \in Remote |-> peers'[r]]
  BY Zenon DEF Dials
<1>2. \A r \in called : sessions'[r] \in Seq(Session) /\ Built(r, NewSession(TRUE))
  BY <1>1, SessionBuilt, NewSessionType
<1>3. SessionsOK'
  <2>1. \A r \in Remote : sessions'[r] \in Seq(Session)
    BY <1>1, <1>2 DEF SessionsOK
  <2> QED
    BY <1>1, <2>1 DEF SessionsOK
<1>4. PeersOK'
  <2>1. \A r \in Remote : peers'[r] \in Peer \union {None}
    BY <1>1, NewPeerType DEF PeersOK
  <2> QED
    BY <1>1, <2>1 DEF PeersOK
<1>5. CurrentOK'
  <2>1. \A r \in Remote : DOMAIN sessions[r] \subseteq DOMAIN sessions'[r]
    BY <1>1, <1>2 DEF Built
  <2>2. ASSUME NEW r \in called
        PROVE  peers'[r].session \in DOMAIN sessions'[r]
    <3>1. NewPeer(r).session = Len(sessions[r]) + 1
      BY NewPeerType
    <3>2. Built(r, NewSession(TRUE)) /\ peers'[r] = NewPeer(r)
      BY <1>1, <1>2
    <3> QED
      BY <3>1, <3>2, Zenon DEF Built
  <2> QED
    BY <1>1, <2>1, <2>2, CurrentKept
<1> QED
  BY <1>1, <1>2, <1>3, <1>4, <1>5

LEMMA PeersType ==
  ASSUME TypeInv, HandlePeers
  PROVE  TypeInv'
<1>1. down' \in Seq(SignalingEvent) /\ Head(down).room \in Room /\ Head(down).peers \subseteq Remote
  BY HandledType, CarriedDown DEF HandlePeers, TypeInv
<1>2. SessionsOK' /\ PeersOK' /\ CurrentOK'
  <2>1. PICK called \in SUBSET Remote : Dials(called)
    BY SomeDialled
  <2> QED
    BY <2>1, Dialled DEF TypeInv
<1> QED
  BY <1>1, <1>2 DEF HandlePeers, TypeInv, others, MainOK, QueuesOK, LivesOK, BatchesOK, BoundsOK

LEMMA PeerLeftIs ==
  ASSUME TypeInv, HandlePeerLeft
  PROVE  LET r == Head(down).peer IN
         /\ r \in Remote /\ SessionsOK' /\ peers' = [peers EXCEPT ![r] = None]
         /\ r \in Known => Changed(r, peers[r].session, ClosedSession(sessions[r][peers[r].session]))
         /\ r \notin Known => sessions' = sessions
<1> DEFINE r == Head(down).peer
<1>1. r \in Remote
  BY HandledType, CarriedDown DEF HandlePeerLeft, TypeInv
<1>2. CASE r \in Known
  <2> DEFINE n == peers[r].session
             v == ClosedSession(sessions[r][n])
  <2>1. n \in DOMAIN sessions[r] /\ sessions[r][n] \in Session
    BY <1>1, <1>2 DEF TypeInv, CurrentOK, SessionsOK
  <2>2. v \in Session
    BY <2>1, ClosedIs
  <2>3. sessions' = [sessions EXCEPT ![r][n] = v]
    BY <1>2 DEF HandlePeerLeft
  <2> HIDE DEF v, n
  <2> QED
    BY <1>1, <1>2, <2>2, <2>3, SessionChanges DEF HandlePeerLeft, TypeInv, v, n
<1>3. CASE r \notin Known
  BY <1>1, <1>3 DEF HandlePeerLeft, TypeInv, SessionsOK
<1> QED
  BY <1>2, <1>3

LEMMA PeerLeftType ==
  ASSUME TypeInv, HandlePeerLeft
  PROVE  TypeInv'
<1> DEFINE r == Head(down).peer
<1>1. down' \in Seq(SignalingEvent) /\ r \in Remote
  BY HandledType, CarriedDown DEF HandlePeerLeft, TypeInv
<1>2. SessionsOK' /\ PeersOK'
  BY <1>1, PeerLeftIs DEF TypeInv, PeersOK
<1>3. \A x \in Remote : peers'[x] # None => peers'[x] = peers[x]
  BY <1>1, PeerLeftIs DEF TypeInv, PeersOK
<1>4. CurrentOK'
  <2>1. CASE r \in Known
    BY <1>1, <1>3, <2>1, PeerLeftIs, ChangedKept DEF TypeInv
  <2>2. CASE r \notin Known
    BY <1>3, <2>2, PeerLeftIs, CurrentKept DEF TypeInv
  <2> QED
    BY <2>1, <2>2
<1> QED
  BY <1>1, <1>2, <1>4 DEF HandlePeerLeft, TypeInv, others, MainOK, QueuesOK, LivesOK, BatchesOK,
                          BoundsOK

LEMMA SignalIs ==
  ASSUME TypeInv, HandleSignal
  PROVE  LET frame == Head(down)
             r == frame.peer
         IN
         /\ r \in Remote /\ frame \in SignalingEvent /\ frame.type = "Signal" /\ SessionsOK'
         /\ \/ /\ r \in Known /\ peers' = peers
               /\ Changed(r, peers[r].session, Accept(sessions[r][peers[r].session], frame))
            \/ /\ r \notin Known /\ peers' = [peers EXCEPT ![r] = NewPeer(r)]
               /\ Built(r, Accept(NewSession(FALSE), frame))
               /\ \A x \in Remote : x # r => sessions'[x] = sessions[x]
            \/ r \notin Known /\ UNCHANGED <<sessions, peers>>
<1> DEFINE frame == Head(down)
           r == frame.peer
<1>1. r \in Remote /\ frame \in SignalingEvent /\ frame.type = "Signal"
  BY HandledType, CarriedDown DEF HandleSignal, TypeInv
<1>2. CASE r \in Known
  <2> DEFINE n == peers[r].session
             v == Accept(sessions[r][n], frame)
  <2>1. n \in DOMAIN sessions[r] /\ sessions[r][n] \in Session
    BY <1>1, <1>2 DEF TypeInv, CurrentOK, SessionsOK
  <2>2. v \in Session
    BY <1>1, <2>1, AcceptIs
  <2>3. sessions' = [sessions EXCEPT ![r][n] = v] /\ peers' = peers
    BY <1>2 DEF HandleSignal
  <2> HIDE DEF v, n
  <2>4. SessionsOK' /\ Changed(r, n, v)
    BY <1>1, <2>2, <2>3, SessionChanges DEF TypeInv
  <2> QED
    BY <1>1, <1>2, <2>3, <2>4 DEF v, n
<1>4. CASE UNCHANGED <<sessions, peers>> /\ r \notin Known
  BY <1>1, <1>4 DEF TypeInv, SessionsOK
<1>3. CASE ~UNCHANGED <<sessions, peers>> /\ r \notin Known
  <2> DEFINE v == Accept(NewSession(FALSE), frame)
  <2>1. v \in Session
    BY <1>1, NewSessionType, AcceptIs
  <2>2. /\ sessions' = [sessions EXCEPT ![r] = Append(@, v)]
        /\ peers' = [peers EXCEPT ![r] = NewPeer(r)]
    BY <1>3 DEF HandleSignal
  <2> HIDE DEF v
  <2>3. sessions'[r] = Append(sessions[r], v) /\ \A x \in Remote : x # r => sessions'[x] = sessions[x]
    BY <1>1, <2>2 DEF TypeInv, SessionsOK
  <2>4. sessions'[r] \in Seq(Session) /\ Built(r, v)
    BY <1>1, <2>1, <2>3, SessionBuilt DEF TypeInv
  <2>5. SessionsOK'
    BY <1>1, <2>2, <2>3, <2>4 DEF TypeInv, SessionsOK
  <2> QED
    BY <1>1, <1>3, <2>2, <2>3, <2>4, <2>5 DEF v
<1> QED
  BY <1>2, <1>3, <1>4

LEMMA SignalType ==
  ASSUME TypeInv, HandleSignal
  PROVE  TypeInv'
<1> DEFINE frame == Head(down)
           r == frame.peer
<1>1. /\ down' \in Seq(SignalingEvent) /\ r \in Remote /\ SessionsOK'
      /\ \/ /\ r \in Known /\ peers' = peers
            /\ Changed(r, peers[r].session, Accept(sessions[r][peers[r].session], frame))
         \/ /\ r \notin Known /\ peers' = [peers EXCEPT ![r] = NewPeer(r)]
            /\ Built(r, Accept(NewSession(FALSE), frame))
            /\ \A x \in Remote : x # r => sessions'[x] = sessions[x]
         \/ r \notin Known /\ UNCHANGED <<sessions, peers>>
  BY HandledType, SignalIs DEF HandleSignal, TypeInv
<1> HIDE DEF r, frame
<1>2. CASE r \in Known
  <2>1. peers' = peers /\ Changed(r, peers[r].session, Accept(sessions[r][peers[r].session], frame))
    BY <1>1, <1>2
  <2>2. PeersOK' /\ CurrentOK'
    BY <1>1, <2>1, ChangedKept DEF TypeInv, PeersOK
  <2> QED
    BY <1>1, <2>2 DEF HandleSignal, TypeInv, others, MainOK, QueuesOK, LivesOK, BatchesOK, BoundsOK
<1>4. CASE UNCHANGED <<sessions, peers>>
  BY <1>1, <1>4 DEF HandleSignal, TypeInv, others, SessionsOK, PeersOK, CurrentOK, Known, MainOK,
                    QueuesOK, LivesOK, BatchesOK, BoundsOK
<1>3. CASE r \notin Known /\ ~UNCHANGED <<sessions, peers>>
  <2>1. /\ peers' = [peers EXCEPT ![r] = NewPeer(r)] /\ Built(r, Accept(NewSession(FALSE), frame))
        /\ \A x \in Remote : x # r => sessions'[x] = sessions[x]
    BY <1>1, <1>3
  <2>2. NewPeer(r) \in Peer /\ NewPeer(r).session = Len(sessions[r]) + 1
    BY <1>1, NewPeerType DEF TypeInv
  <2>3. PeersOK' /\ \A x \in Remote : peers'[x] = IF x = r THEN NewPeer(r) ELSE peers[x]
    BY <1>1, <2>1, <2>2 DEF TypeInv, PeersOK
  <2>4. NewPeer(r).session \in DOMAIN sessions'[r]
    BY <2>1, <2>2 DEF Built
  <2>5. \A x \in Remote : DOMAIN sessions[x] \subseteq DOMAIN sessions'[x]
    BY <2>1 DEF Built
  <2>6. CurrentOK'
    BY <2>3, <2>4, <2>5, CurrentKept DEF TypeInv
  <2> QED
    BY <1>1, <2>3, <2>6 DEF HandleSignal, TypeInv, others, MainOK, QueuesOK, LivesOK, BatchesOK,
                            BoundsOK
<1> QED
  BY <1>1, <1>2, <1>3, <1>4

\* A session once its first report is handled.
Heeded(session) == [session EXCEPT !.reports = Tail(@)]

LEMMA HeededIs ==
  ASSUME NEW session \in Session, session.reports # <<>>
  PROVE  LET v == Heeded(session) IN
         /\ v \in Session /\ v.caller = session.caller /\ v.remote = session.remote
         /\ v.heard = session.heard /\ v.over = session.over /\ v.state = session.state
         /\ v.reports = Tail(session.reports)
<1>1. Tail(session.reports) \in Seq(Report)
  BY HeadAndTail, SessionFields
<1> QED
  BY <1>1 DEF Session, Heeded

LEMMA TakenChanges ==
  ASSUME SessionsOK, NEW r \in Remote, NEW n \in DOMAIN sessions[r],
         sessions[r][n].reports # <<>>, sessions' = Taken(r, n)
  PROVE  SessionsOK' /\ Changed(r, n, Heeded(sessions[r][n]))
<1>1. sessions[r][n] \in Session
  BY DEF SessionsOK
<1>2. Heeded(sessions[r][n]) \in Session
  BY <1>1, HeededIs
<1>3. sessions' = [sessions EXCEPT ![r][n] = Heeded(sessions[r][n])]
  BY DEF Taken, Heeded
<1> QED
  BY <1>2, <1>3, SessionChanges

\* Two sessions of r that change one after the other.
LEMMA ChangedTwice ==
  ASSUME SessionsOK, NEW r \in Remote, NEW n \in DOMAIN sessions[r], NEW m \in DOMAIN sessions[r],
         sessions[r][n].reports # <<>>,
         sessions' = [Taken(r, n) EXCEPT ![r][m] = ClosedSession(@)]
  PROVE  /\ SessionsOK' /\ \A x \in Remote : x # r => sessions'[x] = sessions[x]
         /\ Len(sessions'[r]) = Len(sessions[r]) /\ DOMAIN sessions'[r] = DOMAIN sessions[r]
         /\ \A k \in DOMAIN sessions[r] :
              sessions'[r][k] =
                IF k = m THEN ClosedSession(IF m = n THEN Heeded(sessions[r][n]) ELSE sessions[r][m])
                ELSE IF k = n THEN Heeded(sessions[r][n]) ELSE sessions[r][k]
<1> DEFINE taken == [sessions[r] EXCEPT ![n] = Heeded(sessions[r][n])]
           v == ClosedSession(taken[m])
           list == [taken EXCEPT ![m] = v]
<1>1. sessions[r] \in Seq(Session) /\ sessions[r][n] \in Session
  BY DEF SessionsOK
<1>2. Heeded(sessions[r][n]) \in Session
  BY <1>1, HeededIs
<1>3. /\ taken \in Seq(Session) /\ DOMAIN taken = DOMAIN sessions[r]
      /\ Len(taken) = Len(sessions[r])
      /\ \A k \in DOMAIN sessions[r] :
           taken[k] = IF k = n THEN Heeded(sessions[r][n]) ELSE sessions[r][k]
  BY <1>1, <1>2, Replaced
<1>4. sessions' = [sessions EXCEPT ![r] = list]
  BY DEF Taken, Heeded, SessionsOK
<1> HIDE DEF taken
<1>5. taken[m] \in Session
  BY <1>3
<1>6. v \in Session
  BY <1>5, ClosedIs
<1> HIDE DEF v
<1>7. /\ list \in Seq(Session) /\ DOMAIN list = DOMAIN taken /\ Len(list) = Len(taken)
      /\ \A k \in DOMAIN taken : list[k] = IF k = m THEN v ELSE taken[k]
  BY <1>3, <1>6, Replaced
<1> HIDE DEF list
<1>8. SessionsOK' /\ sessions'[r] = list /\ \A x \in Remote : x # r => sessions'[x] = sessions[x]
  BY <1>4, <1>7 DEF SessionsOK
<1>9. v = ClosedSession(IF m = n THEN Heeded(sessions[r][n]) ELSE sessions[r][m])
  BY <1>3, Zenon DEF v
<1> QED
  BY <1>3, <1>7, <1>8, <1>9

LEMMA UnknownReportType ==
  ASSUME TypeInv, NEW r \in Remote, NEW n \in DOMAIN sessions[r], HandleUnknown(r, n)
  PROVE  TypeInv'
<1>1. SessionsOK' /\ Changed(r, n, Heeded(sessions[r][n])) /\ peers' = peers
  BY TakenChanges DEF HandleUnknown, TypeInv, main
<1>2. PeersOK' /\ CurrentOK'
  BY <1>1, ChangedKept DEF TypeInv, PeersOK
<1> QED
  BY <1>1, <1>2 DEF HandleUnknown, TypeInv, main, others, MainOK, QueuesOK, LivesOK, BatchesOK,
                    BoundsOK

LEMMA LocalDescriptionType ==
  ASSUME TypeInv, NEW r \in Remote, NEW n \in DOMAIN sessions[r], HandleLocalDescription(r, n)
  PROVE  TypeInv'
<1>1. SessionsOK' /\ Changed(r, n, Heeded(sessions[r][n])) /\ peers' = peers
  BY TakenChanges DEF HandleLocalDescription, Reports, TypeInv, main
<1>2. PeersOK' /\ CurrentOK'
  BY <1>1, ChangedKept DEF TypeInv, PeersOK
<1>3. up' \in Seq(ClientMessage)
  <2>1. n \in Nat \ {0}
    BY DEF TypeInv, SessionsOK
  <2>2. [type |-> "Signal", peer |-> r, session |-> n, room |-> room] \in ClientMessage
    BY <2>1, ClientMessages DEF TypeInv, MainOK
  <2> QED
    BY <2>2, Appended DEF HandleLocalDescription, TypeInv, QueuesOK
<1> QED
  BY <1>1, <1>2, <1>3 DEF HandleLocalDescription, TypeInv, main, others, MainOK, QueuesOK, LivesOK,
                          BatchesOK, BoundsOK

\* What the loop keeps of r becomes peer, or the same with the files sent.
Sends(r, peer) == ~peer.sent /\ peer.wanted
Flagged(r, peer) == IF Sends(r, peer) THEN [peer EXCEPT !.sent = TRUE] ELSE peer

LEMMA FlaggedIs ==
  ASSUME NEW r, NEW peer \in Peer
  PROVE  /\ Flagged(r, peer) \in Peer /\ Flagged(r, peer).session = peer.session
         /\ Flagged(r, peer).wanted = peer.wanted
         /\ Flagged(r, peer).sent <=> peer.sent \/ peer.wanted
BY DEF Peer, Flagged, Sends

\* Whether the files are put on a channel, and how often they were for each stay of r.
MaybeSends(r, peer) ==
  /\ peers' = [peers EXCEPT ![r] = Flagged(r, peer)]
  /\ \A x \in Remote : x # r => batches'[x] = batches[x]
  /\ DOMAIN batches'[r] = DOMAIN batches[r]
  /\ \A stay \in DOMAIN batches[r] :
       batches'[r][stay] =
         IF /\ Sends(r, peer) /\ sessions[r][peer.session].state = "open"
            /\ sessions[r][peer.session].remote = stay
         THEN batches[r][stay] + 1 ELSE batches[r][stay]

LEMMA CountedUp ==
  ASSUME NEW S, NEW f \in [S -> Nat], NEW k
  PROVE  /\ [f EXCEPT ![k] = @ + 1] \in [S -> Nat]
         /\ \A x \in S : [f EXCEPT ![k] = @ + 1][x] = IF k = x THEN f[x] + 1 ELSE f[x]
<1> DEFINE g == [f EXCEPT ![k] = @ + 1]
<1>1. DOMAIN g = S /\ g = [x \in S |-> g[x]]
  OBVIOUS
<1>2. \A x \in S : g[x] = IF k = x THEN f[x] + 1 ELSE f[x]
  OBVIOUS
<1> HIDE DEF g
<1>3. \A x \in S : g[x] \in Nat
  BY <1>2
<1>4. g \in [S -> Nat]
  BY <1>1, <1>3
<1> QED
  BY <1>2, <1>4 DEF g

LEMMA MaybeSendIs ==
  ASSUME BatchesOK, NEW r \in Remote, NEW peer \in Peer, MaybeSend(r, peer)
  PROVE  BatchesOK' /\ MaybeSends(r, peer)
<1> DEFINE session == sessions[r][peer.session]
           sends == Sends(r, peer) /\ session.state = "open"
           list == [batches[r] EXCEPT ![session.remote] = @ + 1]
<1>1. peers' = [peers EXCEPT ![r] = Flagged(r, peer)]
  BY DEF MaybeSend, Flagged, Sends, IsWanted
<1>2. batches' = IF sends THEN [batches EXCEPT ![r] = list] ELSE batches
  BY DEF MaybeSend, Sends, IsWanted
<1>3. batches[r] \in [1..MaxLives[r] -> Nat]
  BY DEF BatchesOK
<1>4. /\ list \in [1..MaxLives[r] -> Nat]
      /\ \A stay \in 1..MaxLives[r] :
           list[stay] = IF session.remote = stay THEN batches[r][stay] + 1 ELSE batches[r][stay]
  BY <1>3, CountedUp
<1> HIDE DEF list, session
<1>5. DOMAIN batches = Remote
  BY DEF BatchesOK
<1>6. CASE sends
  <2>1. /\ batches' = [x \in Remote |-> batches'[x]] /\ batches'[r] = list
        /\ \A x \in Remote : x # r => batches'[x] = batches[x]
    BY <1>2, <1>5, <1>6
  <2> QED
    BY <1>1, <1>3, <1>4, <1>6, <2>1 DEF BatchesOK, MaybeSends, session
<1>7. CASE ~sends
  BY <1>1, <1>2, <1>3, <1>7 DEF BatchesOK, MaybeSends, session
<1> QED
  BY <1>6, <1>7

LEMMA SentType ==
  ASSUME TypeInv, NEW r \in Remote, NEW n, NEW v, NEW peer \in Peer, r \in Known,
         peer.session = peers[r].session, MaybeSends(r, peer), Changed(r, n, v)
  PROVE  PeersOK' /\ CurrentOK'
<1>1. Flagged(r, peer) \in Peer /\ Flagged(r, peer).session = peers[r].session
  BY FlaggedIs
<1>2. /\ PeersOK' /\ peers'[r] = Flagged(r, peer)
      /\ \A x \in Remote : x # r => peers'[x] = peers[x]
  BY <1>1 DEF MaybeSends, TypeInv, PeersOK
<1>3. \A x \in Remote : peers'[x] # None => peers[x] # None /\ peers'[x].session = peers[x].session
  BY <1>1, <1>2 DEF Known
<1> QED
  BY <1>2, <1>3, ChangedKept DEF TypeInv

LEMMA OpenIs ==
  ASSUME TypeInv, NEW r \in Remote, NEW n \in DOMAIN sessions[r], HandleOpen(r, n)
  PROVE  /\ SessionsOK' /\ Changed(r, n, Heeded(sessions[r][n]))
         /\ BatchesOK' /\ MaybeSends(r, peers[r]) /\ peers[r] \in Peer
<1>1. peers[r] \in Peer
  BY UnknownType DEF HandleOpen, TypeInv
<1> QED
  BY <1>1, TakenChanges, MaybeSendIs DEF HandleOpen, Reports, TypeInv

LEMMA OpenType ==
  ASSUME TypeInv, NEW r \in Remote, NEW n \in DOMAIN sessions[r], HandleOpen(r, n)
  PROVE  TypeInv'
<1>1. SessionsOK' /\ BatchesOK'
  BY OpenIs
<1>2. PeersOK' /\ CurrentOK'
  BY OpenIs, SentType DEF HandleOpen
<1> QED
  BY <1>1, <1>2 DEF HandleOpen, TypeInv, others, MainOK, QueuesOK, LivesOK, BoundsOK

LEMMA NamedIs ==
  ASSUME NEW r, peers[r] \in Peer, NEW name
  PROVE  /\ Named(r, name) \in Peer /\ Named(r, name).session = peers[r].session
         /\ Named(r, name).sent = peers[r].sent
         /\ Named(r, name).wanted <=> name = "WantedName"
BY DEF Peer, Named

LEMMA NameIs ==
  ASSUME TypeInv, NEW r \in Remote, NEW n \in DOMAIN sessions[r], HandleName(r, n)
  PROVE  /\ SessionsOK' /\ Changed(r, n, Heeded(sessions[r][n])) /\ peers[r] \in Peer
         /\ BatchesOK'
         /\ \E name \in {"Name", "WantedName"} :
              Reports(r, n, name) /\ MaybeSends(r, Named(r, name))
<1>1. peers[r] \in Peer
  BY UnknownType DEF HandleName, TypeInv
<1>2. PICK name \in {"Name", "WantedName"} : Reports(r, n, name) /\ MaybeSend(r, Named(r, name))
  BY DEF HandleName
<1>3. BatchesOK' /\ MaybeSends(r, Named(r, name))
  BY <1>1, <1>2, MaybeSendIs, NamedIs DEF TypeInv
<1>4. SessionsOK' /\ Changed(r, n, Heeded(sessions[r][n]))
  BY <1>2, TakenChanges DEF HandleName, Reports, TypeInv
<1> QED
  BY <1>1, <1>2, <1>3, <1>4

LEMMA NameType ==
  ASSUME TypeInv, NEW r \in Remote, NEW n \in DOMAIN sessions[r], HandleName(r, n)
  PROVE  TypeInv'
<1>1. SessionsOK' /\ BatchesOK' /\ peers[r] \in Peer
  BY NameIs
<1>2. PeersOK' /\ CurrentOK'
  BY <1>1, NameIs, NamedIs, SentType DEF HandleName
<1> QED
  BY <1>1, <1>2 DEF HandleName, TypeInv, others, MainOK, QueuesOK, LivesOK, BoundsOK

\* A session that is gone: the current one is closed if it failed.
LEMMA GoneIs ==
  ASSUME TypeInv, NEW r \in Remote, NEW n \in DOMAIN sessions[r], HandleGone(r, n)
  PROVE  /\ SessionsOK' /\ peers' = [peers EXCEPT ![r] = None] /\ r \in Known
         /\ \A x \in Remote : x # r => sessions'[x] = sessions[x]
         /\ Len(sessions'[r]) = Len(sessions[r]) /\ DOMAIN sessions'[r] = DOMAIN sessions[r]
         /\ sessions[r][n].reports # <<>>
         /\ \/ /\ Head(sessions[r][n].reports) = "Failed"
               /\ \A k \in DOMAIN sessions[r] :
                    sessions'[r][k] =
                      IF k = peers[r].session
                      THEN ClosedSession(IF k = n THEN Heeded(sessions[r][n]) ELSE sessions[r][k])
                      ELSE IF k = n THEN Heeded(sessions[r][n]) ELSE sessions[r][k]
            \/ /\ Head(sessions[r][n].reports) = "Closed"
               /\ \A k \in DOMAIN sessions[r] :
                    sessions'[r][k] =
                      IF k = n THEN Heeded(sessions[r][n]) ELSE sessions[r][k]
<1>1. r \in Known /\ peers' = [peers EXCEPT ![r] = None] /\ sessions[r][n].reports # <<>>
  BY DEF HandleGone, Reports
<1>2. CASE Reports(r, n, "Failed")
             /\ sessions' = [Taken(r, n) EXCEPT ![r][peers[r].session] = ClosedSession(@)]
  <2>1. peers[r].session \in DOMAIN sessions[r]
    BY <1>1 DEF TypeInv, CurrentOK
  <2> DEFINE m == peers[r].session
  <2>2. m \in DOMAIN sessions[r] /\ sessions' = [Taken(r, n) EXCEPT ![r][m] = ClosedSession(@)]
    BY <1>2, <2>1
  <2> HIDE DEF m
  <2>3. /\ SessionsOK' /\ \A x \in Remote : x # r => sessions'[x] = sessions[x]
        /\ Len(sessions'[r]) = Len(sessions[r]) /\ DOMAIN sessions'[r] = DOMAIN sessions[r]
        /\ \A k \in DOMAIN sessions[r] :
             sessions'[r][k] =
               IF k = m THEN ClosedSession(IF m = n THEN Heeded(sessions[r][n]) ELSE sessions[r][m])
               ELSE IF k = n THEN Heeded(sessions[r][n]) ELSE sessions[r][k]
    BY <1>1, <2>2, ChangedTwice DEF TypeInv
  <2> QED
    BY <1>1, <1>2, <2>3, Zenon DEF m, Reports
<1>3. CASE Reports(r, n, "Closed") /\ sessions' = Taken(r, n)
  <2>1. SessionsOK' /\ Changed(r, n, Heeded(sessions[r][n]))
    BY <1>1, <1>3, TakenChanges DEF TypeInv
  <2> QED
    BY <1>1, <1>3, <2>1 DEF Reports, Changed
<1> QED
  BY <1>2, <1>3 DEF HandleGone

LEMMA GoneType ==
  ASSUME TypeInv, NEW r \in Remote, NEW n \in DOMAIN sessions[r], HandleGone(r, n)
  PROVE  TypeInv'
<1>1. SessionsOK' /\ peers' = [peers EXCEPT ![r] = None]
  BY GoneIs
<1>2. \A x \in Remote : DOMAIN sessions[x] \subseteq DOMAIN sessions'[x]
  BY GoneIs
<1>3. PeersOK' /\ CurrentOK'
  BY <1>1, <1>2, CurrentKept DEF TypeInv, PeersOK
<1> QED
  BY <1>1, <1>3 DEF HandleGone, TypeInv, others, MainOK, QueuesOK, LivesOK, BatchesOK, BoundsOK

LEMMA InterruptType ==
  ASSUME TypeInv, Interrupt
  PROVE  TypeInv'
<1>1. up' \in Seq(ClientMessage)
  BY ClientMessages, Appended DEF Interrupt, TypeInv, QueuesOK
<1> QED
  BY <1>1 DEF Interrupt, TypeInv, others, SessionsOK, PeersOK, CurrentOK, Known, MainOK, QueuesOK,
              LivesOK, BatchesOK, BoundsOK

-----------------------------------------------------------------------------
(* The same for the task, the server and the channels.                     *)

LEMMA ConnectType ==
  ASSUME TypeInv, Connect
  PROVE  TypeInv'
<1>1. down' \in Seq(SignalingEvent)
  BY SignalingEvents, Appended DEF Connect, TypeInv, QueuesOK
<1> QED
  BY <1>1 DEF Connect, TypeInv, main, others, SessionsOK, PeersOK, CurrentOK, Known, MainOK,
              QueuesOK, LivesOK, BatchesOK, BoundsOK

LEMMA RetryType ==
  ASSUME TypeInv, Retry
  PROVE  TypeInv'
<1>1. up' \in Seq(ClientMessage)
  BY HeadAndTail DEF Retry, TypeInv, QueuesOK
<1> QED
  BY <1>1 DEF Retry, TypeInv, main, others, SessionsOK, PeersOK, CurrentOK, Known, MainOK,
              QueuesOK, LivesOK, BatchesOK, BoundsOK

\* Every device that shared a room with this one is told that it left.
LEMMA LeaveIs ==
  ASSUME SessionsOK, Leave
  PROVE  /\ SessionsOK' /\ within' = {}
         /\ \A r \in Remote :
              /\ Len(sessions'[r]) = Len(sessions[r]) /\ DOMAIN sessions'[r] = DOMAIN sessions[r]
              /\ \A n \in DOMAIN sessions[r] :
                   LET s == sessions[r][n]
                       v == sessions'[r][n]
                   IN  /\ v.caller = s.caller /\ v.remote = s.remote /\ v.heard = s.heard
                       /\ v.state = s.state /\ v.reports = s.reports
                       /\ v.over <=> s.over \/ Shared(r)
<1> DEFINE Left(r, n) == [sessions[r][n] EXCEPT !.over = @ \/ Shared(r)]
           List(r) == [n \in DOMAIN sessions[r] |-> Left(r, n)]
<1>1. \A r \in Remote : sessions[r] \in Seq(Session)
  BY DEF SessionsOK
<1>2. ASSUME NEW r \in Remote, NEW n \in DOMAIN sessions[r]
      PROVE  LET s == sessions[r][n]
                 v == Left(r, n)
             IN  /\ v \in Session /\ v.caller = s.caller /\ v.remote = s.remote
                 /\ v.heard = s.heard /\ v.state = s.state /\ v.reports = s.reports
                 /\ v.over <=> s.over \/ Shared(r)
  <2>1. sessions[r][n] \in Session
    BY <1>1
  <2>2. (sessions[r][n].over \/ Shared(r)) \in BOOLEAN
    OBVIOUS
  <2> DEFINE over == sessions[r][n].over \/ Shared(r)
  <2>3. Left(r, n) = [sessions[r][n] EXCEPT !.over = over]
    OBVIOUS
  <2>4. over \in BOOLEAN /\ (over <=> sessions[r][n].over \/ Shared(r))
    BY <2>2
  <2> HIDE DEF over, Left
  <2> QED
    BY <2>1, <2>3, <2>4 DEF Session
<1>3. sessions' = [r \in Remote |-> List(r)]
  BY Zenon DEF Leave
<1> HIDE DEF Left
<1>4. ASSUME NEW r \in Remote
      PROVE  List(r) \in Seq(Session) /\ Len(List(r)) = Len(sessions[r])
  <2>1. List(r) \in [DOMAIN sessions[r] -> Session]
    BY <1>2
  <2> HIDE DEF List
  <2> QED
    BY <1>1, <2>1, Mapped
<1>5. \A r \in Remote :
        /\ Len(sessions'[r]) = Len(sessions[r]) /\ DOMAIN sessions'[r] = DOMAIN sessions[r]
        /\ \A n \in DOMAIN sessions[r] : sessions'[r][n] = Left(r, n)
  BY <1>3, <1>4
<1> HIDE DEF List
<1>6. SessionsOK' /\ within' = {}
  BY <1>3, <1>4 DEF SessionsOK, Leave
<1> QED
  BY <1>2, <1>5, <1>6

LEMMA LeftTypes ==
  ASSUME TypeInv, Leave, peers' = peers, life' = life, lives' = lives
  PROVE  SessionsOK' /\ PeersOK' /\ CurrentOK' /\ LivesOK'
<1>1. SessionsOK' /\ within' = {} /\ \A r \in Remote : DOMAIN sessions'[r] = DOMAIN sessions[r]
  BY LeaveIs DEF TypeInv
<1> QED
  BY <1>1 DEF TypeInv, PeersOK, CurrentOK, Known, LivesOK

LEMMA DropType ==
  ASSUME TypeInv, Drop
  PROVE  TypeInv'
<1>1. PICK n \in 0..Len(down) :
        down' = Append(SubSeq(down, 1, n), [type |-> "WaitingToRetry"])
  BY DEF Drop
<1>2. down' \in Seq(SignalingEvent)
  <2>1. SubSeq(down, 1, n) \in Seq(SignalingEvent)
    BY <1>1 DEF TypeInv, QueuesOK
  <2> QED
    BY <1>1, <2>1, SignalingEvents, Appended
<1>3. budget' \in [drops : 0..MaxDrops, pairings : 0..MaxPairings]
  BY SpendType DEF Drop, TypeInv
<1>4. SessionsOK' /\ PeersOK' /\ CurrentOK' /\ LivesOK'
  BY LeftTypes DEF Drop, main
<1> QED
  BY <1>2, <1>3, <1>4 DEF Drop, TypeInv, main, MainOK, QueuesOK, BatchesOK, BoundsOK

LEMMA TaskEndsType ==
  ASSUME TypeInv, TaskEnds
  PROVE  TypeInv'
<1>1. down' \in Seq(SignalingEvent)
  BY SignalingEvents, Appended DEF TaskEnds, TypeInv, QueuesOK
<1>2. budget' \in [drops : 0..MaxDrops, pairings : 0..MaxPairings]
  BY SpendType DEF TaskEnds, TypeInv, BoundsOK
<1>3. SessionsOK' /\ PeersOK' /\ CurrentOK' /\ LivesOK'
  BY LeftTypes DEF TaskEnds, main
<1> QED
  BY <1>1, <1>2, <1>3 DEF TaskEnds, TypeInv, main, MainOK, QueuesOK, BatchesOK, BoundsOK

\* The rooms a message that joins can be about.
LEMMA JoinedRooms ==
  ASSUME TypeInv,
         NEW place \in (IF Reads("JoinIpRoom") THEN {Ip} ELSE {}) \union
                       (IF Reads("RoomSecrets") THEN PairedRooms ELSE {})
  PROVE  place \in Room
<1>1. Ip \in Room /\ Registered \subseteq Room /\ RoomsOf \in [Remote -> SUBSET Room]
  BY RoomAssumption
<1>2. PairedRooms \subseteq Room
  BY <1>1 DEF PairedRooms, TypeInv, MainOK
<1> QED
  BY <1>1, <1>2

LEMMA ServerJoinsType ==
  ASSUME TypeInv, ServerJoins
  PROVE  TypeInv'
<1>1. ASSUME NEW place \in (IF Reads("JoinIpRoom") THEN {Ip} ELSE {}) \union
                           (IF Reads("RoomSecrets") THEN PairedRooms ELSE {}),
             within' = within \union {place},
             down' = Append(down, [type |-> "Peers", room |-> place, peers |-> There(place)]),
             late' = (late \/ \E r \in There(place) : ~Shared(r) /\ UnderWay(r)),
             UNCHANGED <<main, sessions, link, up, life, lives, batches, budget>>
      PROVE  TypeInv'
  <2>1. place \in Room
    BY JoinedRooms
  <2>2. There(place) \in SUBSET Remote
    BY DEF There
  <2>3. [type |-> "Peers", room |-> place, peers |-> There(place)] \in SignalingEvent
    BY <2>1, <2>2, SignalingEvents
  <2>4. down' \in Seq(SignalingEvent)
    BY <1>1, <2>3, Appended DEF TypeInv, QueuesOK
  <2>5. late' \in BOOLEAN
    BY <1>1
  <2> QED
    BY <1>1, <2>1, <2>4, <2>5 DEF TypeInv, main, SessionsOK, PeersOK, CurrentOK, Known, MainOK,
                                  QueuesOK, LivesOK, BatchesOK, BoundsOK
<1>2. ASSUME Reads("JoinIpRoom") \/ Reads("RoomSecrets"), up' = Tail(up),
             UNCHANGED <<main, sessions, link, down, others, batches, late, budget>>
      PROVE  TypeInv'
  <2>1. up' \in Seq(ClientMessage)
    BY <1>2, ReadType DEF TypeInv
  <2> QED
    BY <1>2, <2>1 DEF TypeInv, main, others, SessionsOK, PeersOK, CurrentOK, Known, MainOK,
                      QueuesOK, LivesOK, BatchesOK, BoundsOK
<1> QED
  BY <1>1, <1>2 DEF ServerJoins

\* A session whose description has reached the device it answers.
Reaching(r, session) == [session EXCEPT !.heard = @ \/ session.remote = life[r]]

LEMMA ReachingIs ==
  ASSUME NEW r, NEW session \in Session
  PROVE  LET v == Reaching(r, session) IN
         /\ v \in Session /\ v.caller = session.caller /\ v.remote = session.remote
         /\ v.over = session.over /\ v.state = session.state /\ v.reports = session.reports
         /\ v.heard <=> session.heard \/ session.remote = life[r]
<1> DEFINE heard == session.heard \/ session.remote = life[r]
<1>1. heard \in BOOLEAN /\ (heard <=> session.heard \/ session.remote = life[r])
  OBVIOUS
<1>2. Reaching(r, session) = [session EXCEPT !.heard = heard]
  BY DEF Reaching
<1> HIDE DEF heard
<1> QED
  BY <1>1, <1>2 DEF Session

\* What a description that is relayed comes to.
LEMMA RelaysIs ==
  ASSUME TypeInv, ServerRelays
  PROVE  LET message == Head(up)
             r == message.peer
             n == message.session
             reached == life[r] # 0 /\ message.room \in within \intersect RoomsOf[r]
         IN
         /\ message \in ClientMessage /\ message.type = "Signal" /\ r \in Remote /\ up # <<>>
         /\ up' = Tail(up) /\ up' \in Seq(ClientMessage) /\ SessionsOK'
         /\ \/ /\ reached /\ sessions[r][n].caller /\ sessions' = sessions
               /\ down' = Append(down, [type |-> "Signal", peer |-> r, life |-> life[r],
                                       offer |-> FALSE])
            \/ /\ reached /\ ~sessions[r][n].caller /\ down' = down
               /\ Changed(r, n, Reaching(r, sessions[r][n]))
            \/ ~reached /\ sessions' = sessions /\ down' = down
<1> DEFINE r == Head(up).peer
           n == Head(up).session
           reached == life[r] # 0 /\ Head(up).room \in within \intersect RoomsOf[r]
<1>1. /\ Head(up) \in ClientMessage /\ Head(up).type = "Signal" /\ r \in Remote /\ up # <<>>
      /\ up' = Tail(up) /\ up' \in Seq(ClientMessage)
  BY ReadType, CarriedUp DEF ServerRelays, TypeInv
<1>2. \/ /\ reached /\ sessions[r][n].caller /\ sessions' = sessions
         /\ down' = Append(down, [type |-> "Signal", peer |-> r, life |-> life[r],
                                 offer |-> FALSE])
      \/ /\ reached /\ ~sessions[r][n].caller /\ down' = down
         /\ sessions' = [sessions EXCEPT ![r][n] = Reaching(r, sessions[r][n])]
      \/ ~reached /\ sessions' = sessions /\ down' = down
  BY Zenon DEF ServerRelays, Reaching
<1> HIDE DEF r, n, reached
<1>3. ASSUME sessions' = [sessions EXCEPT ![r][n] = Reaching(r, sessions[r][n])]
      PROVE  SessionsOK' /\ Changed(r, n, Reaching(r, sessions[r][n]))
  <2>1. n \in DOMAIN sessions[r] => Reaching(r, sessions[r][n]) \in Session
    <3>1. n \in DOMAIN sessions[r] => sessions[r][n] \in Session
      BY <1>1 DEF TypeInv, SessionsOK
    <3> QED
      BY <3>1, ReachingIs
  <2> DEFINE v == Reaching(r, sessions[r][n])
  <2>2. sessions' = [sessions EXCEPT ![r][n] = v]
    BY <1>3
  <2>3. n \in DOMAIN sessions[r] => v \in Session
    BY <2>1
  <2> HIDE DEF v
  <2>4. SessionsOK' /\ Changed(r, n, v)
    BY <1>1, <2>2, <2>3, SessionChanges DEF TypeInv
  <2> QED
    BY <2>4 DEF v
<1>4. sessions' = sessions => SessionsOK'
  BY DEF TypeInv, SessionsOK
<1> QED
  BY <1>1, <1>2, <1>3, <1>4, Zenon DEF r, n, reached

LEMMA RelaysType ==
  ASSUME TypeInv, ServerRelays
  PROVE  TypeInv'
<1> DEFINE r == Head(up).peer
           n == Head(up).session
<1>1. /\ r \in Remote /\ up' \in Seq(ClientMessage) /\ SessionsOK'
      /\ \/ /\ life[r] # 0 /\ sessions' = sessions
            /\ down' = Append(down, [type |-> "Signal", peer |-> r, life |-> life[r],
                                    offer |-> FALSE])
         \/ down' = down /\ Changed(r, n, Reaching(r, sessions[r][n]))
         \/ sessions' = sessions /\ down' = down
  BY RelaysIs
<1> HIDE DEF r, n
<1>2. life[r] \in Nat
  BY <1>1 DEF TypeInv, LivesOK
<1>3. down' \in Seq(SignalingEvent)
  <2>1. ASSUME life[r] # 0
        PROVE  [type |-> "Signal", peer |-> r, life |-> life[r], offer |-> FALSE]
                 \in SignalingEvent
    BY <1>1, <1>2, <2>1, SignalingEvents
  <2>2. down \in Seq(SignalingEvent)
    BY DEF TypeInv, QueuesOK
  <2> DEFINE answer == [type |-> "Signal", peer |-> r, life |-> life[r], offer |-> FALSE]
  <2> HIDE DEF answer
  <2>3. answer \in SignalingEvent => Append(down, answer) \in Seq(SignalingEvent)
    BY <2>2, Appended
  <2> QED
    BY <1>1, <2>1, <2>2, <2>3 DEF answer
<1>4. peers' = peers
  BY DEF ServerRelays, main
<1>5. CurrentOK'
  BY <1>1, <1>4, ChangedKept, CurrentKept DEF TypeInv
<1> QED
  BY <1>1, <1>3, <1>4, <1>5 DEF ServerRelays, TypeInv, main, others, PeersOK, MainOK, QueuesOK,
                                LivesOK, BatchesOK, BoundsOK

LEMMA ComeType ==
  ASSUME TypeInv, NEW r \in Remote, Come(r)
  PROVE  TypeInv'
<1>1. /\ MaxLives[r] \in Nat /\ lives[r] \in 0..MaxLives[r] /\ lives[r] \in Nat
      /\ lives[r] < MaxLives[r]
  BY BoundAssumption DEF TypeInv, LivesOK, Come
<1>2. LivesOK'
  <2>1. /\ life' = [life EXCEPT ![r] = lives[r] + 1] /\ lives' = [lives EXCEPT ![r] = lives[r] + 1]
        /\ within' = within
    BY DEF Come
  <2> QED
    BY <1>1, <2>1 DEF TypeInv, LivesOK
<1>3. down' \in Seq(SignalingEvent)
  <2>1. lives[r] + 1 \in Nat \ {0}
    BY <1>1
  <2>2. [type |-> "Signal", peer |-> r, life |-> lives[r] + 1, offer |-> TRUE] \in SignalingEvent
    BY <2>1, SignalingEvents
  <2> QED
    BY <2>2, Appended DEF Come, TypeInv, QueuesOK
<1>4. late' \in BOOLEAN
  BY DEF Come
<1> QED
  BY <1>2, <1>3, <1>4 DEF Come, TypeInv, main, SessionsOK, PeersOK, CurrentOK, Known, MainOK,
                          QueuesOK, BatchesOK, BoundsOK

LEMMA GoType ==
  ASSUME TypeInv, NEW r \in Remote, Go(r)
  PROVE  TypeInv'
<1>1. LivesOK'
  BY DEF Go, TypeInv, LivesOK
<1>2. down' \in Seq(SignalingEvent)
  BY SignalingEvents, Appended DEF Go, TypeInv, QueuesOK
<1> QED
  BY <1>1, <1>2 DEF Go, TypeInv, main, SessionsOK, PeersOK, CurrentOK, Known, MainOK, QueuesOK,
                    BatchesOK, BoundsOK

LEMMA PairType ==
  ASSUME TypeInv, NEW r \in Remote, Pair(r)
  PROVE  TypeInv'
<1>1. down' \in Seq(SignalingEvent)
  BY SignalingEvents, Appended DEF Pair, TypeInv, QueuesOK
<1>2. budget' \in [drops : 0..MaxDrops, pairings : 0..MaxPairings]
  BY SpendType DEF Pair, TypeInv
<1> QED
  BY <1>1, <1>2 DEF Pair, TypeInv, main, others, SessionsOK, PeersOK, CurrentOK, Known, MainOK,
                    QueuesOK, LivesOK, BatchesOK, BoundsOK

\* What a session becomes when its channel opens, and when it cannot.
Opened(r, session) == [session EXCEPT !.state = "open", !.reports = @ \o Opening(r)]
Unopened(session) == [NewSession(FALSE) EXCEPT !.state = "failed",
                                               !.reports = Append(session.reports, "Failed")]

LEMMA BecomesIs ==
  ASSUME TypeInv, NEW r \in Remote, NEW n \in DOMAIN sessions[r], NEW v \in Session,
         Becomes(r, n, v)
  PROVE  Changed(r, n, v) /\ TypeInv'
<1>1. SessionsOK' /\ Changed(r, n, v) /\ peers' = peers
  BY SessionChanges DEF Becomes, TypeInv, main
<1>2. PeersOK' /\ CurrentOK'
  BY <1>1, ChangedKept DEF TypeInv, PeersOK
<1> QED
  BY <1>1, <1>2 DEF Becomes, TypeInv, main, others, MainOK, QueuesOK, LivesOK, BatchesOK, BoundsOK

LEMMA OpensIs ==
  ASSUME TypeInv, NEW r \in Remote, NEW n \in DOMAIN sessions[r], ChannelOpens(r, n)
  PROVE  /\ Changed(r, n, Opened(r, sessions[r][n])) /\ TypeInv'
         /\ sessions[r][n] \in Session /\ Becomes(r, n, Opened(r, sessions[r][n]))
<1>1. sessions[r][n] \in Session
  BY DEF TypeInv, SessionsOK
<1>2. Opened(r, sessions[r][n]) \in Session
  BY <1>1, OpenedIs DEF Opened
<1>3. Becomes(r, n, Opened(r, sessions[r][n]))
  BY Zenon DEF ChannelOpens, Opened, Opening
<1> QED
  BY <1>1, <1>2, <1>3, BecomesIs

LEMMA EndsIs ==
  ASSUME TypeInv, NEW r \in Remote, NEW n \in DOMAIN sessions[r], ChannelEnds(r, n)
  PROVE  /\ TypeInv' /\ sessions[r][n] \in Session
         /\ \/ /\ sessions[r][n].state = "open"
               /\ Changed(r, n, ClosedSession(sessions[r][n]))
               /\ Becomes(r, n, ClosedSession(sessions[r][n]))
            \/ /\ sessions[r][n].state = "new"
               /\ Changed(r, n, Unopened(sessions[r][n]))
               /\ Becomes(r, n, Unopened(sessions[r][n]))
<1>1. sessions[r][n] \in Session
  BY DEF TypeInv, SessionsOK
<1>2. /\ ClosedSession(sessions[r][n]) \in Session
      /\ Unopened(sessions[r][n]) \in Session
  BY <1>1, ClosedIs, FailedIs DEF Unopened
<1>3. \/ /\ sessions[r][n].state = "open" /\ Becomes(r, n, ClosedSession(sessions[r][n]))
      \/ /\ sessions[r][n].state = "new" /\ Becomes(r, n, Unopened(sessions[r][n]))
  BY Zenon DEF ChannelEnds, Unopened
<1> QED
  BY <1>1, <1>2, <1>3, BecomesIs

LEMMA RtcType ==
  ASSUME TypeInv, HandleRtcEvent
  PROVE  TypeInv'
<1>1. PICK r \in Remote : \E n \in DOMAIN sessions[r] :
        \/ HandleUnknown(r, n) \/ HandleLocalDescription(r, n) \/ HandleOpen(r, n)
        \/ HandleName(r, n) \/ HandleGone(r, n)
  BY DEF HandleRtcEvent
<1> QED
  BY <1>1, UnknownReportType, LocalDescriptionType, OpenType, NameType, GoneType

LEMMA StepType == TypeInv /\ [Next]_vars => TypeInv'
<1> SUFFICES ASSUME TypeInv, [Next]_vars
             PROVE  TypeInv'
  OBVIOUS
<1>1. CASE UNCHANGED vars
  BY <1>1 DEF vars, main, others, TypeInv, SessionsOK, PeersOK, CurrentOK, Known, MainOK, QueuesOK,
              LivesOK, BatchesOK, BoundsOK
<1>2. CASE HandleSignaling
  BY <1>2, WaitingToRetryType, ClosedType, IdentityType, PairedType, PeersType, PeerLeftType,
     SignalType DEF HandleSignaling
<1>3. CASE HandleRtcEvent
  BY <1>3, RtcType
<1>4. CASE Task \/ Server
  BY <1>4, ConnectType, RetryType, TaskEndsType, ServerJoinsType, RelaysType DEF Task, Server
<1>5. CASE Channel
  BY <1>5, OpensIs, EndsIs DEF Channel
<1>6. CASE Environment
  BY <1>6, InterruptType, DropType, ComeType, GoType, PairType DEF Environment
<1> QED
  BY <1>1, <1>2, <1>3, <1>4, <1>5, <1>6 DEF Next, Main

LEMMA InitType == Init => TypeInv
<1> SUFFICES ASSUME Init
             PROVE  TypeInv
  OBVIOUS
<1>1. Known = {} /\ Ip \in Room
  BY RoomAssumption DEF Init, Known
<1>2. SessionsOK /\ PeersOK /\ CurrentOK
  <2>1. <<>> \in Seq(Session)
    OBVIOUS
  <2> QED
    BY <1>1, <2>1, Zenon DEF Init, SessionsOK, PeersOK, CurrentOK
<1>3. MainOK /\ QueuesOK
  <2>1. <<>> \in Seq(ClientMessage) /\ <<>> \in Seq(SignalingEvent)
    OBVIOUS
  <2>2. MainOK
    BY <1>1 DEF Init, MainOK
  <2> QED
    BY <2>1, <2>2, Zenon DEF Init, QueuesOK
<1>4. LivesOK
  <2>1. /\ life \in [Remote -> {0, 1}] /\ lives = life /\ within = {}
        /\ MaxLives \in [Remote -> Nat \ {0}]
    BY BoundAssumption DEF Init
  <2> QED
    BY <2>1 DEF LivesOK
<1>5. BatchesOK /\ BoundsOK
  <2>1. /\ batches = [r \in Remote |-> [stay \in 1..MaxLives[r] |-> 0]] /\ late = FALSE
        /\ budget = [drops |-> MaxDrops, pairings |-> MaxPairings]
    BY DEF Init
  <2>2. BatchesOK
    BY <2>1 DEF BatchesOK
  <2>3. MaxDrops \in 0..MaxDrops /\ MaxPairings \in 0..MaxPairings
    BY BoundAssumption
  <2> QED
    BY <2>1, <2>2, <2>3 DEF BoundsOK
<1> QED
  BY <1>2, <1>3, <1>4, <1>5 DEF TypeInv

\* The variables keep their types: in particular the session a device is listed with is one
\* that was built for it, whatever is lost and however often the device comes.
THEOREM TypeCorrect == Spec => []TypeOK
<1>1. TypeInv /\ [Next]_vars => TypeInv'
  BY StepType
<1>2. Init => TypeInv
  BY InitType
<1> QED
  BY <1>1, <1>2, TypeInvImplies, PTL DEF Spec

-----------------------------------------------------------------------------
(* Where the files go.  As long as the calls with a device do not overlap, *)
(* what is heard of it is about its newest session.                        *)

Newest(r) == sessions[r][Len(sessions[r])]
Earlier(r) == {n \in DOMAIN sessions[r] : n < Len(sessions[r])}
Says(session, report) == \E i \in DOMAIN session.reports : session.reports[i] = report

\* Nothing is left of a session; nothing but its end will come of one.
Over(session) == session.state = "closed" /\ session.reports = <<>>
Spent(session) ==
  /\ session.state \in {"new", "closed"} /\ session.remote = 0
  /\ \A i \in DOMAIN session.reports : session.reports[i] \in {"LocalDescription", "Closed"}

\* A session of r, which has come `stays` times.
Regular(r, session, stays) ==
  /\ session.remote <= stays
  /\ session.heard => session.remote # 0
  /\ session.state = "open" => session.heard
  /\ session.state \in {"closed", "failed"} => session.remote = 0
  /\ session.state = "new" /\ ~session.caller /\ session.remote = 0 => session.reports = <<>>
  /\ \A i \in DOMAIN session.reports :
       /\ session.reports[i] = "LocalDescription" => i = 1
       /\ session.reports[i] \in {"Open", "Name", "WantedName"} => session.state \in {"open", "closed"}
       /\ session.reports[i] = "WantedName" /\ session.state = "open" => session.remote \in Wanted[r]
       /\ session.reports[i] = "Failed" =>
            /\ session.state \in {"failed", "closed"}
            /\ \A j \in DOMAIN session.reports : i < j => session.reports[j] = "Closed"
       /\ session.reports[i] = "Closed" => session.state = "closed" /\ i = Len(session.reports)

\* r is there, in a room this device is in.
Touch(r) == life[r] # 0 /\ Shared(r)

Calls(frame, r) == frame.type = "Peers" /\ r \in frame.peers
Signals(frame, r) == frame.type = "Signal" /\ frame.peer = r
Offers(frame, r) == Signals(frame, r) /\ frame.offer
Answers(frame, r) == Signals(frame, r) /\ ~frame.offer
Parts(frame, r) ==
  \/ frame.type = "WaitingToRetry"
  \/ frame.type = "PeerLeft" /\ frame.peer = r
Brings(frame, r) == Calls(frame, r) \/ Signals(frame, r)
Asks(message, r) == message.type = "Signal" /\ message.peer = r

-----------------------------------------------------------------------------
(* What happens to a session.                                              *)

LEMMA EqualRegular ==
  ASSUME NEW r \in Remote, NEW s \in Session, NEW v \in Session, NEW most \in Nat,
         NEW stays \in Nat, Regular(r, s, stays), stays <= most,
         v.caller = s.caller, v.remote = s.remote, v.heard = s.heard, v.state = s.state,
         v.reports = s.reports
  PROVE  Regular(r, v, most)
<1>1. s.remote \in Nat
  BY SessionFields
<1> QED
  BY <1>1 DEF Regular

LEMMA NewRegular ==
  ASSUME NEW r \in Remote, NEW stays \in Nat, NEW isCaller \in BOOLEAN
  PROVE  LET v == NewSession(isCaller) IN
         /\ Regular(r, v, stays) /\ v.caller = isCaller /\ v.remote = 0 /\ ~v.heard
         /\ ~v.over /\ v.state = "new" /\ Spent(v)
         /\ v.reports = IF isCaller THEN <<"LocalDescription">> ELSE <<>>
<1> DEFINE v == NewSession(isCaller)
<1>1. /\ v.caller = isCaller /\ v.remote = 0 /\ v.heard = FALSE /\ v.over = FALSE /\ v.state = "new"
      /\ v.reports = IF isCaller THEN <<"LocalDescription">> ELSE <<>>
  BY DEF NewSession
<1> HIDE DEF v
<1>2. \A i \in DOMAIN v.reports : i = 1 /\ v.reports[i] = "LocalDescription"
  BY <1>1
<1>3. Regular(r, v, stays)
  BY <1>1, <1>2 DEF Regular
<1> QED
  BY <1>1, <1>2, <1>3 DEF Spent, v

LEMMA HeededRegular ==
  ASSUME NEW r \in Remote, NEW s \in Session, NEW stays \in Nat, Regular(r, s, stays),
         s.reports # <<>>
  PROVE  /\ Regular(r, Heeded(s), stays)
         /\ Spent(s) => Spent(Heeded(s))
         /\ ~Says(Heeded(s), "LocalDescription")
<1> DEFINE v == Heeded(s)
<1>1. /\ v \in Session /\ v.caller = s.caller /\ v.remote = s.remote /\ v.heard = s.heard
      /\ v.state = s.state /\ v.reports = Tail(s.reports)
  BY HeededIs
<1>2. s.reports \in Seq(Report) /\ s.reports # <<>> /\ s.remote \in Nat
  BY SessionFields
<1>3. /\ \A i \in DOMAIN v.reports : /\ i + 1 \in DOMAIN s.reports
                                     /\ v.reports[i] = s.reports[i + 1]
                                     /\ i \in Nat \ {0}
      /\ Len(v.reports) = Len(s.reports) - 1 /\ Len(s.reports) \in Nat
  BY <1>1, <1>2
<1> HIDE DEF v
<1>4. ASSUME s.state = "new", ~s.caller, s.remote = 0
      PROVE  FALSE
  BY <1>4 DEF Regular
<1>5. Regular(r, v, stays)
  <2>1. ASSUME NEW i \in DOMAIN v.reports
        PROVE  /\ v.reports[i] = "LocalDescription" => i = 1
               /\ v.reports[i] \in {"Open", "Name", "WantedName"} => v.state \in {"open", "closed"}
               /\ v.reports[i] = "WantedName" /\ v.state = "open" => v.remote \in Wanted[r]
               /\ v.reports[i] = "Failed" =>
                    /\ v.state \in {"failed", "closed"}
                    /\ \A j \in DOMAIN v.reports : i < j => v.reports[j] = "Closed"
               /\ v.reports[i] = "Closed" => v.state = "closed" /\ i = Len(v.reports)
    BY <1>1, <1>3, <2>1 DEF Regular
  <2> QED
    BY <1>1, <1>4, <2>1 DEF Regular
<1>6. ~Says(v, "LocalDescription")
  BY <1>3 DEF Says, Regular
<1>7. Spent(s) => Spent(v)
  BY <1>1, <1>3 DEF Spent
<1> QED
  BY <1>5, <1>6, <1>7 DEF v

LEMMA ClosedRegular ==
  ASSUME NEW r \in Remote, NEW s \in Session, NEW stays \in Nat, Regular(r, s, stays)
  PROVE  /\ Regular(r, ClosedSession(s), stays)
         /\ s.state # "closed" => Says(ClosedSession(s), "Closed")
         /\ Spent(s) => Spent(ClosedSession(s))
<1> DEFINE v == ClosedSession(s)
<1>1. CASE s.state = "closed"
  BY <1>1, ClosedIs
<1>2. CASE s.state # "closed"
  <2>1. /\ v \in Session /\ v.state = "closed" /\ v.remote = 0 /\ ~v.heard
        /\ v.reports = Append(s.reports, "Closed")
    BY <1>2, ClosedIs
  <2>2. s.reports \in Seq(Report) /\ "Closed" \in Report
    BY SessionFields DEF Report
  <2> HIDE DEF v
  <2>3. /\ DOMAIN v.reports = DOMAIN s.reports \union {Len(s.reports) + 1}
        /\ Len(v.reports) = Len(s.reports) + 1 /\ v.reports[Len(s.reports) + 1] = "Closed"
        /\ \A i \in DOMAIN s.reports : v.reports[i] = s.reports[i] /\ i # Len(s.reports) + 1
    BY <2>1, <2>2, Appended
  <2>4. \A i \in DOMAIN s.reports : s.reports[i] # "Closed" /\ i <= Len(s.reports)
    BY <1>2, <2>2 DEF Regular
  <2>5. Regular(r, v, stays)
    <3>1. ASSUME NEW i \in DOMAIN v.reports
          PROVE  /\ v.reports[i] = "LocalDescription" => i = 1
                 /\ v.reports[i] = "Failed" =>
                      \A j \in DOMAIN v.reports : i < j => v.reports[j] = "Closed"
                 /\ v.reports[i] = "Closed" => i = Len(v.reports)
      BY <2>3, <2>4, <3>1 DEF Regular
    <3> QED
      BY <2>1, <3>1 DEF Regular
  <2>6. Says(v, "Closed")
    BY <2>3 DEF Says
  <2>7. Spent(s) => Spent(v)
    BY <2>1, <2>3 DEF Spent
  <2> QED
    BY <2>5, <2>6, <2>7 DEF v
<1> QED
  BY <1>1, <1>2

LEMMA AcceptedRegular ==
  ASSUME NEW r \in Remote, NEW s \in Session, NEW stays \in Nat, Regular(r, s, stays),
         NEW frame \in SignalingEvent, frame.type = "Signal", frame.life <= stays
  PROVE  Regular(r, Accept(s, frame), stays)
<1> SUFFICES ASSUME NEW v, v = Accept(s, frame)
             PROVE  Regular(r, v, stays)
  OBVIOUS
<1> DEFINE fits == s.state = "new" /\ s.remote = 0 /\ (s.caller <=> ~frame.offer)
<1>1. /\ v \in Session /\ v.caller = s.caller /\ v.state = s.state
      /\ ~fits => v = s
      /\ fits => /\ v.remote = frame.life /\ (v.heard <=> ~frame.offer)
                 /\ frame.offer => v.reports = Append(s.reports, "LocalDescription")
                 /\ ~frame.offer => v.reports = s.reports
  BY AcceptIs, Zenon
<1>2. frame.life \in Nat \ {0}
  BY CarriedDown
<1>3. CASE ~fits
  BY <1>1, <1>3
<1>4. CASE fits /\ frame.offer
  <2>1. s.reports = <<>> /\ s.state = "new"
    BY <1>4 DEF Regular
  <2>2. Append(s.reports, "LocalDescription") = <<"LocalDescription">>
    BY <2>1
  <2>3. /\ v.reports = <<"LocalDescription">> /\ v.remote = frame.life /\ ~v.heard
        /\ v.state = "new"
    BY <1>1, <1>4, <2>1, <2>2
  <2>4. \A i \in DOMAIN v.reports : i = 1 /\ v.reports[i] = "LocalDescription"
    BY <2>3
  <2> QED
    BY <1>2, <2>3, <2>4 DEF Regular
<1>5. CASE fits /\ ~frame.offer
  <2>1. /\ v.reports = s.reports /\ v.remote = frame.life /\ v.state = "new" /\ s.state = "new"
        /\ v.caller
    BY <1>1, <1>5
  <2> QED
    BY <1>2, <2>1 DEF Regular
<1> QED
  BY <1>3, <1>4, <1>5

LEMMA OpenedRegular ==
  ASSUME NEW r \in Remote, NEW s \in Session, NEW stays \in Nat, Regular(r, s, stays),
         s.state = "new", s.heard, s.remote = life[r]
  PROVE  /\ Regular(r, Opened(r, s), stays)
         /\ s.remote \in Wanted[r] => Says(Opened(r, s), "WantedName")
         /\ Says(Opened(r, s), "LocalDescription") => Says(s, "LocalDescription")
<1> DEFINE v == Opened(r, s)
<1>1. /\ v \in Session /\ v.state = "open" /\ v.remote = s.remote /\ v.heard = s.heard
      /\ v.caller = s.caller /\ v.reports = s.reports \o Opening(r) /\ Opening(r) \in Seq(Report)
  BY OpenedIs DEF Opened
<1>2. s.reports \in Seq(Report)
  BY SessionFields
<1> HIDE DEF v
<1> DEFINE most == Len(s.reports)
<1>3. /\ Len(Opening(r)) = 2 /\ Opening(r)[1] = "Open"
      /\ Opening(r)[2] = IF life[r] \in Wanted[r] THEN "WantedName" ELSE "Name"
  BY DEF Opening
<1>4. /\ Len(v.reports) = most + 2 /\ most \in Nat
      /\ DOMAIN v.reports = 1..(most + 2) /\ DOMAIN s.reports = 1..most
      /\ \A i \in 1..most : v.reports[i] = s.reports[i]
      /\ v.reports[most + 1] = "Open"
      /\ v.reports[most + 2] = IF life[r] \in Wanted[r] THEN "WantedName" ELSE "Name"
  <2>1. /\ v.reports \in Seq(Report) /\ Len(v.reports) = most + 2 /\ most \in Nat
        /\ \A i \in 1..(most + 2) :
             v.reports[i] = IF i <= most THEN s.reports[i] ELSE Opening(r)[i - most]
    <3>1. most \in Nat
      BY <1>2
    <3> QED
      <4>1. /\ s.reports \o Opening(r) \in Seq(Report)
            /\ Len(s.reports \o Opening(r)) = Len(s.reports) + Len(Opening(r))
            /\ \A i \in 1..(Len(s.reports) + Len(Opening(r))) :
                 (s.reports \o Opening(r))[i] =
                   IF i <= Len(s.reports) THEN s.reports[i] ELSE Opening(r)[i - Len(s.reports)]
        BY <1>1, <1>2, ConcatProperties
      <4> HIDE DEF most
      <4>2. Len(Opening(r)) = 2 /\ v.reports = s.reports \o Opening(r)
        BY <1>1, <1>3
      <4> QED
        BY <3>1, <4>1, <4>2, Zenon DEF most
  <2>2. DOMAIN v.reports = 1..(most + 2) /\ DOMAIN s.reports = 1..most
    BY <1>2, <2>1
  <2>3. \A i \in 1..most : v.reports[i] = s.reports[i]
    BY <2>1
  <2>4. v.reports[most + 1] = Opening(r)[1] /\ v.reports[most + 2] = Opening(r)[2]
    <3>1. most \in Nat
      BY <2>1
    <3> HIDE DEF most
    <3>2. /\ most + 1 \in 1..(most + 2) /\ most + 2 \in 1..(most + 2)
          /\ ~(most + 1 <= most) /\ ~(most + 2 <= most)
          /\ (most + 1) - most = 1 /\ (most + 2) - most = 2
      BY <3>1
    <3> QED
      BY <2>1, <3>2
  <2>5. most \in Nat /\ Len(v.reports) = most + 2
    BY <2>1
  <2> HIDE DEF most
  <2> QED
    BY <1>3, <2>2, <2>3, <2>4, <2>5
<1> HIDE DEF most
<1>5. \A i \in 1..most : s.reports[i] \notin {"Open", "Name", "WantedName", "Failed", "Closed"}
  BY <1>4 DEF Regular
<1>6. Regular(r, v, stays)
  <2>1. ASSUME NEW i \in DOMAIN v.reports
        PROVE  /\ v.reports[i] = "LocalDescription" => i = 1
               /\ v.reports[i] = "WantedName" => v.remote \in Wanted[r]
               /\ v.reports[i] # "Failed" /\ v.reports[i] # "Closed"
    <3>1. CASE i \in 1..most
      BY <1>4, <1>5, <3>1 DEF Regular
    <3>2. CASE i \notin 1..most
      <4>1. i = most + 1 \/ i = most + 2
        BY <1>4, <3>2
      <4> QED
        BY <1>1, <1>4, <4>1
    <3> QED
      BY <3>1, <3>2
  <2> QED
    BY <1>1, <2>1 DEF Regular
<1>7. s.remote \in Wanted[r] => Says(v, "WantedName")
  BY <1>4 DEF Says
<1>8. Says(v, "LocalDescription") => Says(s, "LocalDescription")
  BY <1>4 DEF Says
<1> QED
  BY <1>6, <1>7, <1>8 DEF v

LEMMA UnopenedRegular ==
  ASSUME NEW r \in Remote, NEW s \in Session, NEW stays \in Nat, Regular(r, s, stays),
         s.state = "new"
  PROVE  /\ Regular(r, Unopened(s), stays) /\ Unopened(s).state = "failed"
         /\ ~Unopened(s).heard /\ Unopened(s).remote = 0
<1> DEFINE v == Unopened(s)
<1>1. /\ v \in Session /\ v.state = "failed" /\ v.remote = 0 /\ ~v.heard
      /\ v.reports = Append(s.reports, "Failed")
  BY FailedIs DEF Unopened
<1>2. s.reports \in Seq(Report) /\ "Failed" \in Report
  BY SessionFields DEF Report
<1> HIDE DEF v
<1>3. /\ DOMAIN v.reports = DOMAIN s.reports \union {Len(s.reports) + 1}
      /\ v.reports[Len(s.reports) + 1] = "Failed"
      /\ \A i \in DOMAIN s.reports : /\ v.reports[i] = s.reports[i] /\ i # Len(s.reports) + 1
                                     /\ i <= Len(s.reports)
  <2>1. \A i \in DOMAIN s.reports : i <= Len(s.reports)
    BY <1>2
  <2> QED
    BY <1>1, <1>2, <2>1, Appended
<1>4. \A i \in DOMAIN s.reports :
        s.reports[i] \notin {"Open", "Name", "WantedName", "Failed", "Closed"}
  BY DEF Regular
<1>5. Regular(r, v, stays)
  <2>1. ASSUME NEW i \in DOMAIN v.reports
        PROVE  /\ v.reports[i] = "LocalDescription" => i = 1
               /\ v.reports[i] \notin {"Open", "Name", "WantedName", "Closed"}
               /\ v.reports[i] = "Failed" => \A j \in DOMAIN v.reports : ~(i < j)
    BY <1>2, <1>3, <1>4, <2>1 DEF Regular
  <2> QED
    BY <1>1, <2>1 DEF Regular
<1> QED
  BY <1>1, <1>5 DEF v

-----------------------------------------------------------------------------
(* The invariant, of each device r.                                        *)

\* What holds of the sessions, the list and the frames, also when calls overlap: the list
\* has the newest session, and a session that is closed reports it.
Plain(r) ==
  /\ \A n \in DOMAIN sessions[r] : Regular(r, sessions[r][n], lives[r])
  /\ r \in Known => /\ peers[r].session = Len(sessions[r])
                    /\ Newest(r).state = "closed" => Says(Newest(r), "Closed")
  /\ \A stay \in 1..MaxLives[r] : batches[r][stay] > 0 => stay <= lives[r]
  /\ \A i \in DOMAIN down : Signals(down[i], r) => down[i].life <= lives[r]

\* Once r or this device has left, nothing that is on its way begins a call.
Parted(r) ==
  \A i \in DOMAIN down : Parts(down[i], r) =>
    ~Touch(r) /\ \A j \in DOMAIN down : i < j => ~Brings(down[j], r)

Unasked(r) == \A j \in DOMAIN up : ~Asks(up[j], r)
Free(r) ==
  /\ r \notin Known /\ Unasked(r)
  /\ \A n \in DOMAIN sessions[r] : Over(sessions[r][n])

\* A call of r comes when nothing is left of an earlier one, and first.
Offered(r) ==
  \A i \in DOMAIN down : Offers(down[i], r) =>
    Free(r) /\ \A j \in DOMAIN down : j < i => ~Brings(down[j], r)

\* This device has called r and waits for the answer.
Calling(r) ==
  /\ r \in Known /\ Unasked(r)
  /\ Newest(r).caller /\ Newest(r).state = "new" /\ Newest(r).remote = 0
  /\ Newest(r).reports = <<>>
  /\ \A n \in Earlier(r) : Over(sessions[r][n])

\* One answer comes, to the call that is waited for.
Answered(r) ==
  \A i \in DOMAIN down : Answers(down[i], r) =>
    /\ Calling(r)
    /\ down[i].life = life[r] /\ ~Newest(r).over => Shared(r)
    /\ \A j \in DOMAIN down : Answers(down[j], r) => j = i

\* What is asked of r is asked for the newest session, and once by one that calls.
Asked(r) ==
  \A i \in DOMAIN up : Asks(up[i], r) =>
    /\ up[i].session = Len(sessions[r])
    /\ Newest(r).caller =>
         /\ Newest(r).remote = 0 /\ ~Says(Newest(r), "LocalDescription")
         /\ \A j \in DOMAIN up : Asks(up[j], r) => j = i

\* The call with r that is under way while r is there.
Live(r) ==
  /\ r \in Known /\ Asked(r)
  /\ Newest(r).state \in {"new", "open"} /\ Newest(r).remote \in {0, life[r]} /\ ~Newest(r).over
  /\ ~Newest(r).caller => Newest(r).remote # 0
  /\ Newest(r).caller /\ Says(Newest(r), "LocalDescription") => Newest(r).remote = 0 /\ Unasked(r)

\* While r is there, there is one call with it at most, and nothing ends that.
InTouch(r) ==
  Touch(r) =>
    /\ Free(r) \/ Live(r)
    /\ \A n \in Earlier(r) : Over(sessions[r][n])
    /\ \A i \in DOMAIN down : Signals(down[i], r) => down[i].life = life[r]

\* Nothing comes of the sessions before the newest, nor of that one if the list has
\* forgotten it and a call is on its way.
Past(r) ==
  /\ \A n \in Earlier(r) : Spent(sessions[r][n])
  /\ (\E n \in Earlier(r) : Says(sessions[r][n], "Closed")) => Spent(Newest(r))
  /\ r \notin Known /\ (\E i \in DOMAIN down : Calls(down[i], r)) =>
       sessions[r] = <<>> \/ Spent(Newest(r))

\* Only while both are in a room is r connected and neither was told that the other left.
Met(r) ==
  \A n \in DOMAIN sessions[r] :
    sessions[r][n].heard /\ sessions[r][n].remote = life[r] /\ ~sessions[r][n].over => Shared(r)

\* How often the files may have been sent to one stay of r: once for each connection in
\* which it was met.  And while they may still be sent in this one, once less.
Allowed(r, stay) ==
  MaxDrops - budget.drops + IF stay # life[r] \/ Shared(r) \/ link = "ended" THEN 1 ELSE 0
Due(r, stay) ==
  \/ r \in Known /\ ~peers[r].sent /\ Newest(r).heard /\ Newest(r).remote = stay
  \/ Touch(r) /\ stay = life[r] /\ ~(r \in Known /\ Newest(r).heard)
  \/ \E i \in DOMAIN down : Answers(down[i], r) /\ down[i].life = stay
Counted(r) ==
  \A stay \in 1..MaxLives[r] :
    /\ batches[r][stay] > 0 => stay \in Wanted[r]
    /\ batches[r][stay] <= Allowed(r, stay)
    /\ Due(r, stay) => batches[r][stay] < Allowed(r, stay)

\* What the list says of r is true of the newest session, or the report that makes it so is
\* on its way.
Labelled(r) ==
  r \in Known =>
    /\ peers[r].wanted \/ peers[r].sent => Newest(r).state \in {"open", "closed"}
    /\ Newest(r).state = "open" /\ peers[r].wanted => Newest(r).remote \in Wanted[r]
    /\ Newest(r).state = "open" /\ Newest(r).remote \in Wanted[r] =>
         /\ peers[r].sent \/ Says(Newest(r), "WantedName")
         /\ peers[r].sent => batches[r][Newest(r).remote] > 0

Sound(r) ==
  /\ Parted(r) /\ Offered(r) /\ Answered(r) /\ InTouch(r)
  /\ Past(r) /\ Met(r) /\ Counted(r) /\ Labelled(r)

-----------------------------------------------------------------------------
(* What is on its way about r after a step.                                *)

\* Of the frames about r none is new, and they keep their order.
Fewer(r) ==
  \E k \in Nat : \A i \in DOMAIN down' :
    Brings(down'[i], r) \/ Parts(down'[i], r) => i + k \in DOMAIN down /\ down'[i] = down[i + k]
FewerBrought(r) ==
  \E k \in Nat : \A i \in DOMAIN down' :
    Brings(down'[i], r) => i + k \in DOMAIN down /\ down'[i] = down[i + k]
FewerAsked(r) ==
  \E k \in Nat : \A i \in DOMAIN up' :
    Asks(up'[i], r) => i + k \in DOMAIN up /\ up'[i] = up[i + k]

LEMMA FewerIsBrought ==
  ASSUME NEW r, Fewer(r)
  PROVE  FewerBrought(r)
BY DEF Fewer, FewerBrought

LEMMA FewerByHandling ==
  ASSUME QueuesOK, NEW r, down # <<>>, Handled
  PROVE  Fewer(r)
<1>1. \A i \in DOMAIN down' : i + 1 \in DOMAIN down /\ down'[i] = down[i + 1]
  BY HeadAndTail DEF QueuesOK, Handled
<1> QED
  BY <1>1 DEF Fewer

LEMMA FewerByAppending ==
  ASSUME QueuesOK, NEW r, NEW frame \in SignalingEvent, ~Brings(frame, r), ~Parts(frame, r),
         down' = Append(down, frame)
  PROVE  Fewer(r)
<1>1. \A i \in DOMAIN down' : i \in Nat /\ (i \in DOMAIN down \/ down'[i] = frame)
  BY DEF QueuesOK
<1>2. \A i \in DOMAIN down : down'[i] = down[i]
  BY Appended DEF QueuesOK
<1>3. \A i \in DOMAIN down' : Brings(down'[i], r) \/ Parts(down'[i], r) =>
        i + 0 \in DOMAIN down /\ down'[i] = down[i + 0]
  BY <1>1, <1>2
<1> QED
  BY <1>3 DEF Fewer

LEMMA FewerAsBefore ==
  ASSUME QueuesOK, NEW r, down' = down
  PROVE  Fewer(r)
<1>1. \A i \in DOMAIN down : i + 0 = i
  BY DEF QueuesOK
<1>2. \A i \in DOMAIN down' : i + 0 \in DOMAIN down /\ down'[i] = down[i + 0]
  BY <1>1
<1> QED
  BY <1>2 DEF Fewer

LEMMA AskedAsBefore ==
  ASSUME QueuesOK, NEW r, up' = up
  PROVE  FewerAsked(r)
<1>1. \A i \in DOMAIN up : i + 0 = i
  BY DEF QueuesOK
<1>2. \A i \in DOMAIN up' : i + 0 \in DOMAIN up /\ up'[i] = up[i + 0]
  BY <1>1
<1> QED
  BY <1>2 DEF FewerAsked

LEMMA AskedByReading ==
  ASSUME QueuesOK, NEW r, up # <<>>, up' = Tail(up)
  PROVE  FewerAsked(r)
<1>1. \A i \in DOMAIN up' : i + 1 \in DOMAIN up /\ up'[i] = up[i + 1]
  BY HeadAndTail DEF QueuesOK
<1> QED
  BY <1>1 DEF FewerAsked

LEMMA AskedByAppending ==
  ASSUME QueuesOK, NEW r, NEW message \in ClientMessage, ~Asks(message, r),
         up' = Append(up, message)
  PROVE  FewerAsked(r)
<1>1. \A i \in DOMAIN up' : i \in Nat /\ (i \in DOMAIN up \/ up'[i] = message)
  BY DEF QueuesOK
<1>2. \A i \in DOMAIN up : up'[i] = up[i]
  BY Appended DEF QueuesOK
<1>3. \A i \in DOMAIN up' : Asks(up'[i], r) => i + 0 \in DOMAIN up /\ up'[i] = up[i + 0]
  BY <1>1, <1>2
<1> QED
  BY <1>3 DEF FewerAsked

-----------------------------------------------------------------------------
(* Sessions, list and frames at each step.                                 *)

LEMMA SignalsKept ==
  ASSUME NEW r, Plain(r), FewerBrought(r)
  PROVE  \A i \in DOMAIN down' : Signals(down'[i], r) => down'[i].life <= lives[r]
<1>1. PICK k \in Nat : \A i \in DOMAIN down' :
        Brings(down'[i], r) => i + k \in DOMAIN down /\ down'[i] = down[i + k]
  BY DEF FewerBrought
<1> QED
  BY <1>1 DEF Plain, Brings

LEMMA PlainSame ==
  ASSUME NEW r \in Remote, Plain(r), FewerBrought(r), sessions'[r] = sessions[r],
         peers'[r] = peers[r], batches'[r] = batches[r], lives'[r] = lives[r]
  PROVE  Plain(r)'
<1>1. \A i \in DOMAIN down' : Signals(down'[i], r) => down'[i].life <= lives[r]
  BY SignalsKept
<1>2. (r \in Known)' <=> r \in Known
  BY DEF Known
<1>3. Newest(r)' = Newest(r)
  BY DEF Newest
<1> QED
  BY <1>1, <1>2, <1>3 DEF Plain

LEMMA PlainChanged ==
  ASSUME SessionsOK, NEW r \in Remote, Plain(r), FewerBrought(r),
         NEW n \in DOMAIN sessions[r], NEW v, Changed(r, n, v), Regular(r, v, lives[r]),
         lives'[r] = lives[r],
         \A stay \in 1..MaxLives[r] : batches'[r][stay] > 0 => stay <= lives[r],
         peers'[r] # None =>
           /\ peers[r] # None /\ peers'[r].session = peers[r].session
           /\ n = Len(sessions[r]) /\ v.state = "closed" => Says(v, "Closed")
  PROVE  Plain(r)'
<1>1. \A i \in DOMAIN down' : Signals(down'[i], r) => down'[i].life <= lives[r]
  BY SignalsKept
<1>2. \A k \in DOMAIN sessions'[r] : Regular(r, sessions'[r][k], lives[r])
  BY DEF Changed, Plain
<1>3. (r \in Known)' => /\ peers'[r].session = Len(sessions'[r])
                        /\ Newest(r)'.state = "closed" => Says(Newest(r)', "Closed")
  <2> SUFFICES ASSUME peers'[r] # None
               PROVE  /\ peers'[r].session = Len(sessions'[r])
                      /\ Newest(r)'.state = "closed" => Says(Newest(r)', "Closed")
    BY DEF Known
  <2>1. /\ peers[r].session = Len(sessions[r]) /\ Len(sessions'[r]) = Len(sessions[r])
        /\ Newest(r).state = "closed" => Says(Newest(r), "Closed")
    BY DEF Plain, Known, Changed
  <2>2. Len(sessions[r]) \in DOMAIN sessions[r]
    BY DEF SessionsOK
  <2>3. Newest(r)' = IF Len(sessions[r]) = n THEN v ELSE Newest(r)
    BY <2>1, <2>2 DEF Changed, Newest
  <2> QED
    BY <2>1, <2>3
<1> QED
  BY <1>1, <1>2, <1>3 DEF Plain, Says

LEMMA PlainBuilt ==
  ASSUME SessionsOK, NEW r \in Remote, Plain(r), FewerBrought(r), NEW v, Built(r, v),
         Regular(r, v, lives[r]), v.state = "new",
         lives'[r] = lives[r], batches'[r] = batches[r], peers'[r] = NewPeer(r)
  PROVE  Plain(r)'
<1>1. \A i \in DOMAIN down' : Signals(down'[i], r) => down'[i].life <= lives[r]
  BY SignalsKept
<1>2. \A k \in DOMAIN sessions'[r] : Regular(r, sessions'[r][k], lives[r])
  BY DEF Built, Plain
<1>3. peers'[r].session = Len(sessions'[r]) /\ Newest(r)' = v
  BY NewPeerType DEF Built, Newest
<1> QED
  BY <1>1, <1>2, <1>3 DEF Plain

\* A step on the queues or on another device.
Same(r) ==
  /\ sessions'[r] = sessions[r] /\ peers'[r] = peers[r] /\ batches'[r] = batches[r]
  /\ life'[r] = life[r] /\ lives'[r] = lives[r]

LEMMA WaitingToRetryPlain ==
  ASSUME TypeInv, HandleWaitingToRetry, NEW r \in Remote, Plain(r)
  PROVE  Plain(r)'
<1>1. \A i \in DOMAIN down' : Signals(down'[i], r) => down'[i].life <= lives[r]
  BY FewerByHandling, FewerIsBrought, SignalsKept DEF HandleWaitingToRetry, Arrives, TypeInv
<1>2. (r \notin Known)'
  BY DEF HandleWaitingToRetry, Known
<1> QED
  BY <1>1, <1>2 DEF Plain, HandleWaitingToRetry, others

LEMMA ClosedPlain ==
  ASSUME TypeInv, HandleClosed, NEW r \in Remote, Plain(r)
  PROVE  Plain(r)' /\ ((r \in Known)' => Newest(r)'.state = "closed")
<1>1. /\ DOMAIN sessions'[r] = DOMAIN sessions[r]
      /\ \A n \in DOMAIN sessions[r] :
           sessions'[r][n] = IF r \in Known /\ peers[r].session = n
                             THEN ClosedSession(sessions[r][n]) ELSE sessions[r][n]
  BY ClosingSessions DEF TypeInv
<1>2. \A n \in DOMAIN sessions[r] : sessions[r][n] \in Session
  BY DEF TypeInv, SessionsOK
<1>3. lives[r] \in Nat
  BY DEF TypeInv, LivesOK
<1>4. \A n \in DOMAIN sessions'[r] : Regular(r, sessions'[r][n], lives[r])
  <2>1. \A n \in DOMAIN sessions[r] :
          Regular(r, sessions[r][n], lives[r]) /\ Regular(r, ClosedSession(sessions[r][n]), lives[r])
    BY <1>2, <1>3, ClosedRegular DEF Plain
  <2> QED
    BY <1>1, <2>1
<1>5. ASSUME (r \in Known)'
      PROVE  /\ peers'[r].session = Len(sessions'[r]) /\ Newest(r)'.state = "closed"
             /\ Says(Newest(r)', "Closed")
  <2>1. r \in Known /\ peers' = peers /\ peers[r].session = Len(sessions[r])
    BY <1>5 DEF HandleClosed, Known, Plain
  <2>2. Len(sessions[r]) \in DOMAIN sessions[r] /\ Len(sessions'[r]) = Len(sessions[r])
    <3>1. sessions[r] \in Seq(Session) /\ sessions'[r] \in Seq(Session)
      BY ClosingSessions DEF TypeInv, SessionsOK
    <3>2. peers[r].session \in DOMAIN sessions[r]
      BY <2>1 DEF TypeInv, CurrentOK
    <3> QED
      BY <1>1, <2>1, <3>1, <3>2
  <2>3. Newest(r)' = ClosedSession(Newest(r))
    BY <1>1, <2>1, <2>2 DEF Newest
  <2>4. Newest(r) \in Session /\ Regular(r, Newest(r), lives[r])
    BY <1>2, <2>2 DEF Newest, Plain
  <2>5. Newest(r)'.state = "closed"
    BY <2>3, <2>4, ClosedIs
  <2>6. Says(Newest(r)', "Closed")
    <3>1. CASE Newest(r).state = "closed"
      <4>1. Newest(r)' = Newest(r)
        BY <2>3, <2>4, <3>1, ClosedIs
      <4> QED
        BY <2>1, <3>1, <4>1 DEF Plain
    <3>2. CASE Newest(r).state # "closed"
      BY <1>3, <2>3, <2>4, <3>2, ClosedRegular
    <3> QED
      BY <3>1, <3>2
  <2> QED
    BY <2>1, <2>2, <2>5, <2>6
<1>6. \A i \in DOMAIN down' : Signals(down'[i], r) => down'[i].life <= lives[r]
  BY FewerByHandling, FewerIsBrought, SignalsKept DEF HandleClosed, Arrives, TypeInv
<1>7. lives' = lives /\ batches' = batches
  BY DEF HandleClosed, others
<1> QED
  BY <1>4, <1>5, <1>6, <1>7 DEF Plain, Says

LEMMA PlainKept ==
  ASSUME TypeInv, NEW r \in Remote, Plain(r), sessions'[r] = sessions[r], peers'[r] = peers[r],
         batches'[r] = batches[r], lives'[r] \in Nat, lives[r] <= lives'[r],
         \A i \in DOMAIN down' : Signals(down'[i], r) => down'[i].life <= lives'[r]
  PROVE  Plain(r)'
<1>1. (r \in Known)' <=> r \in Known
  BY DEF Known
<1>2. Newest(r)' = Newest(r)
  BY DEF Newest
<1>3. \A n \in DOMAIN sessions[r] : sessions[r][n] \in Session
  BY DEF TypeInv, SessionsOK
<1>4. lives[r] \in Nat
  BY DEF TypeInv, LivesOK
<1>5. \A n \in DOMAIN sessions[r] : Regular(r, sessions[r][n], lives'[r])
  BY <1>3, <1>4, EqualRegular DEF Plain
<1>6. \A stay \in 1..MaxLives[r] : batches[r][stay] > 0 => stay <= lives'[r]
  BY <1>4 DEF Plain
<1> QED
  BY <1>1, <1>2, <1>5, <1>6 DEF Plain

LEMMA SignalsAppended ==
  ASSUME TypeInv, NEW r \in Remote, Plain(r), NEW frame \in SignalingEvent,
         Signals(frame, r) => frame.life <= lives'[r],
         lives'[r] \in Nat, lives[r] <= lives'[r], down' = Append(down, frame)
  PROVE  \A i \in DOMAIN down' : Signals(down'[i], r) => down'[i].life <= lives'[r]
<1>1. \A i \in DOMAIN down' : (i \in DOMAIN down /\ down'[i] = down[i]) \/ down'[i] = frame
  BY Appended DEF TypeInv, QueuesOK
<1>2. \A i \in DOMAIN down : down[i] \in SignalingEvent
  BY DEF TypeInv, QueuesOK
<1>3. \A i \in DOMAIN down : Signals(down[i], r) => down[i].life \in Nat
  BY <1>2, CarriedDown DEF Signals
<1>4. lives[r] \in Nat
  BY DEF TypeInv, LivesOK
<1>5. \A i \in DOMAIN down : Signals(down[i], r) => down[i].life <= lives'[r]
  BY <1>3, <1>4 DEF Plain
<1> QED
  BY <1>1, <1>5

LEMMA IdlePlain ==
  ASSUME TypeInv, NEW r \in Remote, Plain(r), Same(r), FewerBrought(r)
  PROVE  Plain(r)'
BY PlainSame DEF Same

\* What a step on the loop's own state and the queues leaves.
LEMMA IdleSteps ==
  ASSUME TypeInv, NEW r \in Remote,
         \/ HandleIdentity \/ HandlePaired \/ Interrupt \/ Connect \/ Retry \/ UNCHANGED vars
         \/ \E x \in Remote : Pair(x)
         \/ up # <<>> /\ up' = Tail(up) /\ UNCHANGED <<main, sessions, link, down, others, batches, late, budget>>
  PROVE  Same(r) /\ Fewer(r)
<1> USE DEF Same, main, others
<1>1. CASE HandleIdentity \/ HandlePaired
  BY <1>1, FewerByHandling DEF HandleIdentity, HandlePaired, Arrives, TypeInv
<1>2. CASE Interrupt \/ Retry \/ UNCHANGED vars
            \/ UNCHANGED <<main, sessions, link, down, others, batches, late, budget>>
  BY <1>2, FewerAsBefore DEF Interrupt, Retry, vars, TypeInv
<1>3. CASE Connect
  <2>1. [type |-> "Identity"] \in SignalingEvent
    BY SignalingEvents
  <2>2. ~Brings([type |-> "Identity"], r) /\ ~Parts([type |-> "Identity"], r)
    BY DEF Brings, Parts, Calls, Signals
  <2> QED
    BY <1>3, <2>1, <2>2, FewerByAppending DEF Connect, TypeInv
<1>4. ASSUME NEW x \in Remote, Pair(x)
      PROVE  Same(r) /\ Fewer(r)
  <2> DEFINE frame == [type |-> "Paired", peer |-> x]
  <2>1. frame \in SignalingEvent
    BY SignalingEvents
  <2>2. ~Brings(frame, r) /\ ~Parts(frame, r)
    BY DEF Brings, Parts, Calls, Signals
  <2>3. down' = Append(down, frame)
    BY <1>4 DEF Pair
  <2> HIDE DEF frame
  <2>4. Fewer(r)
    BY <2>1, <2>2, <2>3, FewerByAppending DEF TypeInv
  <2> QED
    BY <1>4, <2>4 DEF Pair
<1> QED
  BY <1>1, <1>2, <1>3, <1>4

\* What a session still reports once its first report is handled.
LEMMA HeededSays ==
  ASSUME NEW s \in Session, s.reports # <<>>, NEW report
  PROVE  /\ Says(Heeded(s), report) => Says(s, report)
         /\ Says(s, report) /\ Head(s.reports) # report => Says(Heeded(s), report)
<1> DEFINE v == Heeded(s)
<1>1. v.reports = Tail(s.reports) /\ s.reports \in Seq(Report) /\ s.reports # <<>>
  BY HeededIs, SessionFields
<1> HIDE DEF v
<1>2. \A i \in DOMAIN v.reports : i + 1 \in DOMAIN s.reports /\ v.reports[i] = s.reports[i + 1]
  BY <1>1, HeadAndTail
<1>3. \A i \in DOMAIN s.reports : i = 1 \/ (i - 1 \in DOMAIN v.reports /\ v.reports[i - 1] = s.reports[i])
  BY <1>1
<1>4. Head(s.reports) = s.reports[1]
  BY <1>1
<1> QED
  BY <1>2, <1>3, <1>4 DEF Says, v

\* The device and the session that a report is about.
LEMMA HeededPlain ==
  ASSUME TypeInv, NEW r \in Remote, NEW x \in Remote, NEW n \in DOMAIN sessions[x], Plain(r), Plain(x),
         sessions[x][n].reports # <<>>, Changed(x, n, Heeded(sessions[x][n])), FewerBrought(r),
         lives' = lives, x # r => batches'[r] = batches[r] /\ peers'[r] = peers[r],
         \A stay \in 1..MaxLives[x] : batches'[x][stay] > 0 => stay <= lives[x],
         peers'[x] # None =>
           /\ peers[x] # None /\ peers'[x].session = peers[x].session
           /\ Head(sessions[x][n].reports) # "Closed"
  PROVE  Plain(r)'
<1>1. CASE x # r
  BY <1>1, PlainSame DEF Changed
<1>2. CASE x = r
  <2> DEFINE s == sessions[r][n]
             v == Heeded(s)
  <2>1. s \in Session /\ Regular(r, s, lives[r]) /\ lives[r] \in Nat
    BY <1>2 DEF TypeInv, SessionsOK, LivesOK, Plain
  <2>2. Regular(r, v, lives[r]) /\ v.state = s.state
    BY <1>2, <2>1, HeededRegular, HeededIs
  <2>3. ASSUME peers'[r] # None, n = Len(sessions[r]), v.state = "closed"
        PROVE  Says(v, "Closed")
    <3>1. Says(s, "Closed")
      BY <1>2, <2>2, <2>3 DEF Plain, Newest, Known
    <3> QED
      BY <1>2, <2>1, <2>3, <3>1, HeededSays
  <2>4. SessionsOK
    BY DEF TypeInv
  <2>5. Changed(r, n, v) /\ n \in DOMAIN sessions[r]
    BY <1>2
  <2> HIDE DEF v, s
  <2> QED
    BY <1>2, <2>2, <2>3, <2>4, <2>5, PlainChanged
<1> QED
  BY <1>1, <1>2

LEMMA UnknownPlain ==
  ASSUME TypeInv, NEW r \in Remote, NEW x \in Remote, NEW n \in DOMAIN sessions[x], Plain(r), Plain(x),
         HandleUnknown(x, n)
  PROVE  Plain(r)'
<1>1. /\ sessions[x][n].reports # <<>> /\ Changed(x, n, Heeded(sessions[x][n]))
      /\ peers' = peers /\ batches' = batches /\ lives' = lives /\ down' = down /\ peers[x] = None
  BY TakenChanges DEF HandleUnknown, TypeInv, main, others, Known
<1>2. FewerBrought(r)
  BY <1>1, FewerAsBefore, FewerIsBrought DEF TypeInv
<1>3. \A stay \in 1..MaxLives[x] : batches[x][stay] > 0 => stay <= lives[x]
  BY DEF Plain
<1> QED
  BY <1>1, <1>2, <1>3, HeededPlain

LEMMA LocalDescriptionPlain ==
  ASSUME TypeInv, NEW r \in Remote, NEW x \in Remote, NEW n \in DOMAIN sessions[x], Plain(r), Plain(x),
         HandleLocalDescription(x, n)
  PROVE  Plain(r)'
<1>1. /\ sessions[x][n].reports # <<>> /\ Changed(x, n, Heeded(sessions[x][n]))
      /\ peers' = peers /\ batches' = batches /\ lives' = lives /\ down' = down
      /\ Head(sessions[x][n].reports) # "Closed"
  BY TakenChanges DEF HandleLocalDescription, Reports, TypeInv, main, others
<1>2. FewerBrought(r)
  BY <1>1, FewerAsBefore, FewerIsBrought DEF TypeInv
<1>3. \A stay \in 1..MaxLives[x] : batches[x][stay] > 0 => stay <= lives[x]
  BY DEF Plain
<1> QED
  BY <1>1, <1>2, <1>3, HeededPlain

\* The files that are put on the channel of the session in the list.
LEMMA SentPlain ==
  ASSUME TypeInv, NEW r \in Remote, NEW x \in Remote, NEW n \in DOMAIN sessions[x], Plain(r), Plain(x),
         x \in Known, NEW peer \in Peer, peer.session = peers[x].session, MaybeSends(x, peer),
         sessions[x][n].reports # <<>>, Head(sessions[x][n].reports) # "Closed",
         Changed(x, n, Heeded(sessions[x][n])), down' = down, lives' = lives
  PROVE  Plain(r)'
<1>1. FewerBrought(r)
  BY FewerAsBefore, FewerIsBrought DEF TypeInv
<1>2. /\ x # r => batches'[r] = batches[r] /\ peers'[r] = peers[r]
      /\ peers'[x] = Flagged(x, peer)
  BY DEF MaybeSends, TypeInv, PeersOK
<1>3. peers[x] # None /\ peers'[x].session = peers[x].session
  BY <1>2, FlaggedIs DEF Known
<1>4. sessions[x][peer.session].remote <= lives[x]
  BY DEF TypeInv, CurrentOK, Plain, Regular
<1>5. DOMAIN batches[x] = 1..MaxLives[x]
  BY DEF TypeInv, BatchesOK
<1>6. \A stay \in 1..MaxLives[x] : batches'[x][stay] > 0 => stay <= lives[x]
  BY <1>4, <1>5 DEF MaybeSends, Plain
<1> QED
  BY <1>1, <1>2, <1>3, <1>6, HeededPlain

LEMMA OpenPlain ==
  ASSUME TypeInv, NEW r \in Remote, NEW x \in Remote, NEW n \in DOMAIN sessions[x], Plain(r), Plain(x),
         HandleOpen(x, n)
  PROVE  Plain(r)'
BY OpenIs, SentPlain DEF HandleOpen, Reports, others

LEMMA NamePlain ==
  ASSUME TypeInv, NEW r \in Remote, NEW x \in Remote, NEW n \in DOMAIN sessions[x], Plain(r), Plain(x),
         HandleName(x, n)
  PROVE  Plain(r)'
<1>1. PICK name \in {"Name", "WantedName"} : Reports(x, n, name) /\ MaybeSends(x, Named(x, name))
  BY NameIs
<1>2. Changed(x, n, Heeded(sessions[x][n])) /\ peers[x] \in Peer
  BY NameIs
<1>3. Named(x, name) \in Peer /\ Named(x, name).session = peers[x].session
  BY <1>2, NamedIs
<1>4. x \in Known /\ down' = down /\ lives' = lives
  BY DEF HandleName, others
<1>5. sessions[x][n].reports # <<>> /\ Head(sessions[x][n].reports) # "Closed"
  BY <1>1 DEF Reports
<1> HIDE DEF Plain
<1> QED
  BY <1>1, <1>2, <1>3, <1>4, <1>5, SentPlain

LEMMA GonePlain ==
  ASSUME TypeInv, NEW r \in Remote, NEW x \in Remote, NEW n \in DOMAIN sessions[x], Plain(r), Plain(x),
         HandleGone(x, n)
  PROVE  Plain(r)'
<1>1. FewerBrought(r) /\ lives' = lives /\ batches' = batches
  BY FewerAsBefore, FewerIsBrought DEF HandleGone, TypeInv, others
<1>2. CASE x # r
  <2>1. sessions'[r] = sessions[r] /\ peers'[r] = peers[r]
    BY <1>2, GoneIs DEF TypeInv, PeersOK
  <2> QED
    BY <1>1, <2>1, PlainSame
<1>3. CASE x = r
  <2>1. \A k \in DOMAIN sessions[r] : sessions[r][k] \in Session /\ Regular(r, sessions[r][k], lives[r])
    BY DEF TypeInv, SessionsOK, Plain
  <2>2. lives[r] \in Nat /\ sessions[r][n].reports # <<>> /\ n \in DOMAIN sessions[r]
    BY <1>3, GoneIs DEF TypeInv, LivesOK
  <2>3. /\ Heeded(sessions[r][n]) \in Session /\ Regular(r, Heeded(sessions[r][n]), lives[r])
    BY <2>1, <2>2, HeededIs, HeededRegular
  <2>4. /\ Regular(r, ClosedSession(Heeded(sessions[r][n])), lives[r])
        /\ \A k \in DOMAIN sessions[r] : Regular(r, ClosedSession(sessions[r][k]), lives[r])
    BY <2>1, <2>2, <2>3, ClosedRegular
  <2>5. \A k \in DOMAIN sessions'[r] : Regular(r, sessions'[r][k], lives[r])
    BY <1>3, <2>1, <2>3, <2>4, GoneIs
  <2>6. (r \notin Known)'
    BY <1>3, GoneIs DEF TypeInv, PeersOK, Known
  <2>7. \A i \in DOMAIN down' : Signals(down'[i], r) => down'[i].life <= lives[r]
    BY <1>1, SignalsKept
  <2> QED
    BY <1>1, <2>5, <2>6, <2>7 DEF Plain
<1> QED
  BY <1>2, <1>3

LEMMA PeersPlain ==
  ASSUME TypeInv, NEW r \in Remote, Plain(r), HandlePeers
  PROVE  Plain(r)'
<1>1. FewerBrought(r) /\ lives' = lives /\ batches' = batches
  BY FewerByHandling, FewerIsBrought DEF HandlePeers, Arrives, TypeInv, others
<1>2. PICK called \in SUBSET Remote : Dials(called)
  BY SomeDialled
<1>4. /\ r \in called => Built(r, NewSession(TRUE)) /\ peers'[r] = NewPeer(r)
      /\ r \notin called => sessions'[r] = sessions[r] /\ peers'[r] = peers[r]
  BY <1>2, Dialled DEF TypeInv
<1>5. Regular(r, NewSession(TRUE), lives[r]) /\ NewSession(TRUE).state = "new"
  BY NewRegular DEF TypeInv, LivesOK
<1> QED
  BY <1>1, <1>4, <1>5, PlainBuilt, PlainSame DEF TypeInv

LEMMA PeerLeftPlain ==
  ASSUME TypeInv, NEW r \in Remote, Plain(r), HandlePeerLeft
  PROVE  Plain(r)'
<1>1. FewerBrought(r) /\ lives' = lives /\ batches' = batches
  BY FewerByHandling, FewerIsBrought DEF HandlePeerLeft, Arrives, TypeInv, others
<1> DEFINE x == Head(down).peer
<1>2. /\ x \in Remote /\ peers' = [peers EXCEPT ![x] = None]
      /\ x \in Known => Changed(x, peers[x].session, ClosedSession(sessions[x][peers[x].session]))
      /\ x \notin Known => sessions' = sessions
  BY PeerLeftIs
<1>0. \A stay \in 1..MaxLives[r] : batches[r][stay] > 0 => stay <= lives[r]
  BY DEF Plain
<1> HIDE DEF x
<1>3. CASE x # r
  BY <1>1, <1>2, <1>3, PlainSame DEF TypeInv, PeersOK, Changed
<1>4. CASE x = r /\ x \in Known
  <2> DEFINE n == peers[r].session
  <2>1. n \in DOMAIN sessions[r]
    BY <1>4 DEF TypeInv, CurrentOK
  <2>2. Regular(r, ClosedSession(sessions[r][n]), lives[r])
    BY <2>1, ClosedRegular DEF Plain, TypeInv, SessionsOK, LivesOK
  <2>3. peers'[r] = None
    BY <1>2, <1>4 DEF TypeInv, PeersOK
  <2>4. Changed(r, n, ClosedSession(sessions[r][n]))
    BY <1>2, <1>4
  <2> HIDE DEF n
  <2> QED
    BY <1>0, <1>1, <2>1, <2>2, <2>3, <2>4, PlainChanged DEF TypeInv
<1>5. CASE x = r /\ x \notin Known
  <2>1. peers'[r] = peers[r] /\ sessions' = sessions
    BY <1>2, <1>5 DEF TypeInv, PeersOK, Known
  <2> QED
    BY <1>1, <2>1, PlainSame
<1> QED
  BY <1>3, <1>4, <1>5

LEMMA SignalPlain ==
  ASSUME TypeInv, NEW r \in Remote, Plain(r), HandleSignal
  PROVE  Plain(r)'
<1>1. FewerBrought(r) /\ lives' = lives /\ batches' = batches
  BY FewerByHandling, FewerIsBrought DEF HandleSignal, Arrives, TypeInv, others
<1> DEFINE frame == Head(down)
           x == frame.peer
<1>2. x \in Remote /\ frame \in SignalingEvent /\ frame.type = "Signal"
  BY SignalIs
<1>3. \/ /\ x \in Known /\ peers' = peers
         /\ Changed(x, peers[x].session, Accept(sessions[x][peers[x].session], frame))
      \/ /\ x \notin Known /\ peers' = [peers EXCEPT ![x] = NewPeer(x)]
         /\ Built(x, Accept(NewSession(FALSE), frame))
         /\ \A y \in Remote : y # x => sessions'[y] = sessions[y]
      \/ x \notin Known /\ UNCHANGED <<sessions, peers>>
  BY SignalIs
<1>0. \A stay \in 1..MaxLives[r] : batches[r][stay] > 0 => stay <= lives[r]
  BY DEF Plain
<1>7. x = r => frame.life <= lives[r]
  <2>1. 1 \in DOMAIN down /\ Head(down) = down[1]
    BY HeadAndTail DEF HandleSignal, Arrives, TypeInv, QueuesOK
  <2> QED
    BY <1>2, <2>1 DEF Plain, Signals
<1>8. lives[r] \in Nat
  BY DEF TypeInv, LivesOK
<1> HIDE DEF x, frame
<1>9. CASE UNCHANGED <<sessions, peers>>
  BY <1>1, <1>9, PlainSame
<1>4. CASE x # r
  <2>1. sessions'[r] = sessions[r] /\ peers'[r] = peers[r]
    BY <1>2, <1>3, <1>4 DEF TypeInv, PeersOK, Changed
  <2> QED
    BY <1>1, <2>1, PlainSame
<1>5. CASE x = r /\ x \in Known
  <2> DEFINE n == peers[r].session
             v == Accept(sessions[r][n], frame)
  <2>1. n \in DOMAIN sessions[r] /\ sessions[r][n] \in Session
    BY <1>5 DEF TypeInv, CurrentOK, SessionsOK
  <2>2. Regular(r, v, lives[r]) /\ v.state = sessions[r][n].state
    BY <1>2, <1>5, <1>7, <1>8, <2>1, AcceptedRegular, AcceptIs DEF Plain
  <2>3. n = Len(sessions[r]) /\ v.state = "closed" => Says(v, "Closed")
    <3> SUFFICES ASSUME n = Len(sessions[r]), v.state = "closed"
                 PROVE  Says(v, "Closed")
      OBVIOUS
    <3>1. v = sessions[r][n]
      BY <1>2, <2>1, <2>2, AcceptIs
    <3> QED
      BY <1>5, <2>2, <3>1 DEF Plain, Newest
  <2>4. Changed(r, n, v) /\ peers' = peers
    BY <1>3, <1>5
  <2>5. SessionsOK /\ peers[r] # None
    BY <1>5 DEF TypeInv, Known
  <2> HIDE DEF n, v
  <2> QED
    BY <1>0, <1>1, <2>1, <2>2, <2>3, <2>4, <2>5, PlainChanged
<1>6. CASE x = r /\ x \notin Known /\ ~UNCHANGED <<sessions, peers>>
  <2> DEFINE v == Accept(NewSession(FALSE), frame)
  <2>1. NewSession(FALSE) \in Session /\ Regular(r, NewSession(FALSE), lives[r])
        /\ NewSession(FALSE).state = "new"
    BY <1>8, NewSessionType, NewRegular
  <2>2. Regular(r, v, lives[r]) /\ v.state = "new"
    BY <1>2, <1>6, <1>7, <1>8, <2>1, AcceptedRegular, AcceptIs
  <2>3. Built(r, v) /\ peers'[r] = NewPeer(r)
    BY <1>2, <1>3, <1>6 DEF TypeInv, PeersOK
  <2> HIDE DEF v
  <2> QED
    BY <1>1, <2>2, <2>3, PlainBuilt DEF TypeInv
<1> QED
  BY <1>4, <1>5, <1>6, <1>9

\* What is left of the queue when the connection is lost.
LEMMA Lost ==
  ASSUME QueuesOK, NEW n \in 0..Len(down), NEW frame \in SignalingEvent,
         down' = Append(SubSeq(down, 1, n), frame)
  PROVE  /\ DOMAIN down' = 1..(n + 1) /\ down'[n + 1] = frame
         /\ \A i \in DOMAIN down' : i # n + 1 => i \in DOMAIN down /\ down'[i] = down[i] /\ i <= n
<1>1. down \in Seq(SignalingEvent)
  BY DEF QueuesOK
<1> DEFINE q == SubSeq(down, 1, n)
<1>2. q \in Seq(SignalingEvent) /\ Len(q) = n /\ \A i \in 1..n : q[i] = down[i]
  BY <1>1
<1> HIDE DEF q
<1>3. down' = Append(q, frame)
  BY DEF q
<1>4. DOMAIN q = 1..n /\ n \in Nat
  BY <1>2
<1>5. /\ DOMAIN down' = 1..n \union {n + 1} /\ down'[n + 1] = frame
      /\ \A i \in 1..n : down'[i] = q[i]
  BY <1>2, <1>3, <1>4, Appended
<1>6. \A i \in 1..n : i \in DOMAIN down
  BY <1>1
<1> QED
  BY <1>2, <1>4, <1>5, <1>6

LEMMA LostBrought ==
  ASSUME TypeInv, NEW r, Drop
  PROVE  FewerBrought(r)
<1> DEFINE frame == [type |-> "WaitingToRetry"]
<1>1. frame \in SignalingEvent /\ ~Brings(frame, r)
  BY SignalingEvents DEF Brings, Calls, Signals
<1>2. PICK n \in 0..Len(down) : down' = Append(SubSeq(down, 1, n), frame)
  BY DEF Drop
<1> HIDE DEF frame
<1>3. \A i \in DOMAIN down' : Brings(down'[i], r) => i \in DOMAIN down /\ down'[i] = down[i] /\ i \in Nat
  BY <1>1, <1>2, Lost DEF TypeInv
<1>4. \A i \in DOMAIN down' : Brings(down'[i], r) => i + 0 \in DOMAIN down /\ down'[i] = down[i + 0]
  BY <1>3
<1> QED
  BY <1>4 DEF FewerBrought

LEMMA EndBrought ==
  ASSUME TypeInv, NEW r, TaskEnds
  PROVE  Fewer(r)
<1> DEFINE frame == [type |-> "Closed"]
<1>1. frame \in SignalingEvent /\ ~Brings(frame, r) /\ ~Parts(frame, r)
  BY SignalingEvents DEF Brings, Calls, Signals, Parts
<1>2. down' = Append(down, frame)
  BY DEF TaskEnds
<1> HIDE DEF frame
<1> QED
  BY <1>1, <1>2, FewerByAppending DEF TypeInv

LEMMA LeftPlain ==
  ASSUME TypeInv, NEW r \in Remote, Plain(r), Leave, FewerBrought(r), peers' = peers,
         lives' = lives, batches' = batches
  PROVE  Plain(r)'
<1>1. /\ Len(sessions'[r]) = Len(sessions[r]) /\ DOMAIN sessions'[r] = DOMAIN sessions[r]
      /\ \A n \in DOMAIN sessions[r] :
           LET s == sessions[r][n]
               v == sessions'[r][n]
           IN  /\ v.caller = s.caller /\ v.remote = s.remote /\ v.heard = s.heard
               /\ v.state = s.state /\ v.reports = s.reports
  BY LeaveIs DEF TypeInv
<1>2. SessionsOK'
  BY LeaveIs DEF TypeInv
<1>3. ASSUME NEW n \in DOMAIN sessions'[r]
      PROVE  Regular(r, sessions'[r][n], lives[r])
  <2> DEFINE s == sessions[r][n]
             v == sessions'[r][n]
  <2>1. /\ v.caller = s.caller /\ v.remote = s.remote /\ v.heard = s.heard
        /\ v.state = s.state /\ v.reports = s.reports
    BY <1>1
  <2>2. s \in Session /\ v \in Session /\ Regular(r, s, lives[r]) /\ lives[r] \in Nat
    BY <1>1, <1>2 DEF TypeInv, SessionsOK, LivesOK, Plain
  <2> HIDE DEF s, v
  <2>3. lives[r] <= lives[r]
    BY <2>2
  <2>4. Regular(r, v, lives[r])
    BY <2>1, <2>2, <2>3, EqualRegular
  <2> QED
    BY <2>4 DEF v
<1>4. ASSUME (r \in Known)'
      PROVE  /\ peers'[r].session = Len(sessions'[r])
             /\ Newest(r)'.state = "closed" => Says(Newest(r)', "Closed")
  <2>1. r \in Known /\ peers[r].session = Len(sessions[r])
    BY <1>4 DEF Known, Plain
  <2>2. Len(sessions[r]) \in DOMAIN sessions[r]
    BY <2>1 DEF TypeInv, CurrentOK
  <2>3. Newest(r)'.state = Newest(r).state /\ Newest(r)'.reports = Newest(r).reports
    BY <1>1, <2>2 DEF Newest
  <2> QED
    BY <1>1, <2>1, <2>3 DEF Plain, Says
<1>5. \A i \in DOMAIN down' : Signals(down'[i], r) => down'[i].life <= lives[r]
  BY SignalsKept
<1> QED
  BY <1>3, <1>4, <1>5 DEF Plain, Says

LEMMA DropPlain ==
  ASSUME TypeInv, NEW r \in Remote, Plain(r), Drop \/ TaskEnds
  PROVE  Plain(r)'
<1>1. CASE Drop
  BY <1>1, LostBrought, LeftPlain DEF Drop, main
<1>2. CASE TaskEnds
  BY <1>2, EndBrought, FewerIsBrought, LeftPlain DEF TaskEnds, main
<1> QED
  BY <1>1, <1>2

\* A room that is joined.
Joins(place) ==
  /\ within' = within \union {place}
  /\ down' = Append(down, [type |-> "Peers", room |-> place, peers |-> There(place)])
  /\ late' = (late \/ \E r \in There(place) : ~Shared(r) /\ UnderWay(r))
  /\ UNCHANGED <<main, sessions, link, up, life, lives, batches, budget>>

LEMMA JoinsAre ==
  ASSUME TypeInv, ServerJoins
  PROVE  \/ \E place \in Room : /\ Joins(place) /\ link = "connected"
                                /\ [type |-> "Peers", room |-> place, peers |-> There(place)] \in SignalingEvent
         \/ up # <<>> /\ up' = Tail(up) /\ UNCHANGED <<main, sessions, link, down, others, batches, late, budget>>
<1>1. ASSUME NEW place \in (IF Reads("JoinIpRoom") THEN {Ip} ELSE {}) \union
                           (IF Reads("RoomSecrets") THEN PairedRooms ELSE {}), Joins(place)
      PROVE  \E p \in Room : /\ Joins(p) /\ link = "connected"
                             /\ [type |-> "Peers", room |-> p, peers |-> There(p)] \in SignalingEvent
  <2>1. place \in Room
    BY JoinedRooms
  <2>2. There(place) \in SUBSET Remote
    BY DEF There
  <2>3. [type |-> "Peers", room |-> place, peers |-> There(place)] \in SignalingEvent
    BY <2>1, <2>2, SignalingEvents
  <2>4. link = "connected"
    BY <1>1 DEF Reads
  <2> QED
    BY <1>1, <2>1, <2>3, <2>4
<1>2. \/ \E place \in (IF Reads("JoinIpRoom") THEN {Ip} ELSE {}) \union
                       (IF Reads("RoomSecrets") THEN PairedRooms ELSE {}) : Joins(place)
      \/ /\ Reads("JoinIpRoom") \/ Reads("RoomSecrets")
         /\ up' = Tail(up)
         /\ UNCHANGED <<main, sessions, link, down, others, batches, late, budget>>
  BY DEF ServerJoins, Joins
<1> QED
  BY <1>1, <1>2 DEF Reads

LEMMA JoinsPlain ==
  ASSUME TypeInv, NEW r \in Remote, Plain(r), NEW place, Joins(place),
         [type |-> "Peers", room |-> place, peers |-> There(place)] \in SignalingEvent
  PROVE  Plain(r)'
<1> DEFINE frame == [type |-> "Peers", room |-> place, peers |-> There(place)]
<1>1. frame \in SignalingEvent /\ ~Signals(frame, r) /\ down' = Append(down, frame)
  BY DEF Joins, Signals
<1>2. /\ lives'[r] \in Nat /\ lives[r] <= lives'[r] /\ sessions'[r] = sessions[r]
      /\ peers'[r] = peers[r] /\ batches'[r] = batches[r]
  BY DEF Joins, main, TypeInv, LivesOK
<1> HIDE DEF frame
<1>3. \A i \in DOMAIN down' : Signals(down'[i], r) => down'[i].life <= lives'[r]
  BY <1>1, <1>2, SignalsAppended
<1> QED
  BY <1>2, <1>3, PlainKept

LEMMA RelaysPlain ==
  ASSUME TypeInv, NEW r \in Remote, Plain(r), ServerRelays, Plain(Head(up).peer)
  PROVE  Plain(r)'
<1> DEFINE x == Head(up).peer
           n == Head(up).session
           answer == [type |-> "Signal", peer |-> x, life |-> life[x], offer |-> FALSE]
<1>1. /\ x \in Remote
      /\ \/ /\ life[x] # 0 /\ sessions' = sessions /\ down' = Append(down, answer)
         \/ /\ ~sessions[x][n].caller /\ down' = down /\ life[x] # 0
            /\ Changed(x, n, Reaching(x, sessions[x][n]))
         \/ sessions' = sessions /\ down' = down
  BY RelaysIs, Zenon
<1>2. /\ peers' = peers /\ batches' = batches /\ lives' = lives /\ life[x] \in {0, lives[x]}
      /\ lives[r] \in Nat /\ lives[r] <= lives[r] /\ life[x] \in Nat
  <2>1. peers' = peers /\ batches' = batches /\ lives' = lives
    BY DEF ServerRelays, main, others
  <2>2. x \in Remote
    BY <1>1
  <2> HIDE DEF x
  <2>3. life[x] \in {0, lives[x]} /\ lives[r] \in Nat /\ life[x] \in Nat
    BY <2>2 DEF TypeInv, LivesOK
  <2> QED
    BY <2>1, <2>3
<1>3. life[x] # 0 => answer \in SignalingEvent
  BY <1>1, <1>2, SignalingEvents
<1>4. Signals(answer, r) /\ life[x] # 0 => answer.life <= lives[r]
  BY <1>2 DEF Signals
<1>0. Plain(x) /\ \A stay \in 1..MaxLives[r] : batches[r][stay] > 0 => stay <= lives[r]
  BY DEF Plain
<1> HIDE DEF x, n, answer
<1>5. CASE life[x] # 0 /\ sessions' = sessions /\ down' = Append(down, answer)
  <2>1. \A i \in DOMAIN down' : Signals(down'[i], r) => down'[i].life <= lives'[r]
    BY <1>2, <1>3, <1>4, <1>5, SignalsAppended
  <2> QED
    BY <1>2, <1>5, <2>1, PlainKept
<1>6. CASE sessions' = sessions /\ down' = down
  BY <1>2, <1>6, PlainSame, FewerAsBefore, FewerIsBrought DEF TypeInv
<1>7. CASE /\ ~sessions[x][n].caller /\ down' = down /\ life[x] # 0
           /\ Changed(x, n, Reaching(x, sessions[x][n]))
  <2>1. FewerBrought(r)
    BY <1>7, FewerAsBefore, FewerIsBrought DEF TypeInv
  <2>2. CASE x # r \/ n \notin DOMAIN sessions[r]
    <3>1. CASE x # r
      BY <1>2, <1>7, <2>1, <3>1, PlainSame DEF Changed
    <3>2. CASE x = r /\ n \notin DOMAIN sessions[r]
      <4>1. DOMAIN sessions'[r] = DOMAIN sessions[r] /\ Len(sessions'[r]) = Len(sessions[r])
            /\ \A k \in DOMAIN sessions[r] : sessions'[r][k] = sessions[r][k]
        BY <1>7, <3>2 DEF Changed
      <4>2. r \in Known => Len(sessions[r]) \in DOMAIN sessions[r]
        BY DEF TypeInv, CurrentOK, Plain
      <4>3. (r \in Known)' <=> r \in Known
        BY <1>2 DEF Known
      <4>4. r \in Known => Newest(r)' = Newest(r)
        BY <4>1, <4>2 DEF Newest
      <4>5. \A i \in DOMAIN down' : Signals(down'[i], r) => down'[i].life <= lives[r]
        BY <2>1, SignalsKept
      <4> QED
        BY <1>2, <4>1, <4>3, <4>4, <4>5 DEF Plain
    <3> QED
      BY <2>2, <3>1, <3>2
  <2>3. CASE x = r /\ n \in DOMAIN sessions[r]
    <3> DEFINE s == sessions[r][n]
               v == Reaching(r, s)
    <3>1. s \in Session /\ Regular(r, s, lives[r]) /\ ~s.caller
      BY <1>7, <2>3 DEF TypeInv, SessionsOK, Plain
    <3>2. /\ v \in Session /\ v.caller = s.caller /\ v.remote = s.remote
          /\ v.over = s.over /\ v.state = s.state /\ v.reports = s.reports
          /\ v.heard <=> s.heard \/ s.remote = life[r]
      BY <3>1, ReachingIs
    <3>3. Changed(r, n, v)
      BY <1>7, <2>3
    <3>4. n = Len(sessions[r]) /\ v.state = "closed" /\ r \in Known => Says(v, "Closed")
      BY <3>2 DEF Plain, Newest, Says
    <3> HIDE DEF v
    <3>5. Regular(r, v, lives[r])
      BY <1>7, <2>3, <3>1, <3>2 DEF Regular
    <3> HIDE DEF s
    <3>6. n \in DOMAIN sessions[r] /\ peers' = peers
      BY <1>2, <2>3
    <3>7. peers[r] # None => r \in Known
      BY DEF Known
    <3> QED
      BY <1>0, <1>2, <2>1, <3>3, <3>4, <3>5, <3>6, <3>7, PlainChanged DEF TypeInv
  <2> QED
    BY <2>2, <2>3
<1> QED
  BY <1>1, <1>5, <1>6, <1>7

LEMMA ComePlain ==
  ASSUME TypeInv, NEW r \in Remote, Plain(r), NEW x \in Remote, Come(x)
  PROVE  Plain(r)'
<1>1. /\ lives'[r] = (IF x = r THEN lives[r] + 1 ELSE lives[r]) /\ lives[r] \in Nat /\ lives[x] \in Nat
      /\ sessions'[r] = sessions[r] /\ peers'[r] = peers[r] /\ batches'[r] = batches[r]
  BY DEF Come, main, TypeInv, LivesOK
<1>2. lives'[r] \in Nat /\ lives[r] <= lives'[r]
  BY <1>1
<1> DEFINE offer == [type |-> "Signal", peer |-> x, life |-> lives[x] + 1, offer |-> TRUE]
<1>3. offer \in SignalingEvent
  <2>1. lives[x] + 1 \in Nat \ {0}
    BY <1>1
  <2> QED
    BY <2>1, SignalingEvents
<1>4. Signals(offer, r) => offer.life <= lives'[r]
  BY <1>1 DEF Signals
<1>5. down' = down \/ down' = Append(down, offer)
  BY DEF Come
<1> HIDE DEF offer
<1>6. \A i \in DOMAIN down' : Signals(down'[i], r) => down'[i].life <= lives'[r]
  <2>1. CASE down' = Append(down, offer)
    BY <1>2, <1>3, <1>4, <2>1, SignalsAppended
  <2>2. CASE down' = down
    <3>1. \A i \in DOMAIN down : Signals(down[i], r) => down[i].life \in Nat
      BY CarriedDown DEF Signals, TypeInv, QueuesOK
    <3> QED
      BY <1>1, <1>2, <2>2, <3>1 DEF Plain
  <2> QED
    BY <1>5, <2>1, <2>2
<1> QED
  BY <1>1, <1>2, <1>6, PlainKept

LEMMA GoPlain ==
  ASSUME TypeInv, NEW r \in Remote, Plain(r), NEW x \in Remote, Go(x)
  PROVE  Plain(r)'
<1>1. /\ lives'[r] \in Nat /\ lives[r] <= lives'[r] /\ lives'[r] = lives[r]
      /\ sessions'[r] = sessions[r] /\ peers'[r] = peers[r] /\ batches'[r] = batches[r]
  BY DEF Go, main, TypeInv, LivesOK
<1> DEFINE frame == [type |-> "PeerLeft", peer |-> x]
<1>2. frame \in SignalingEvent /\ ~Signals(frame, r)
  BY SignalingEvents DEF Signals
<1>3. down' = down \/ down' = Append(down, frame)
  BY DEF Go
<1> HIDE DEF frame
<1>4. \A i \in DOMAIN down' : Signals(down'[i], r) => down'[i].life <= lives'[r]
  <2>1. CASE down' = Append(down, frame)
    BY <1>1, <1>2, <2>1, SignalsAppended
  <2>2. CASE down' = down
    BY <1>1, <2>2 DEF Plain
  <2> QED
    BY <1>3, <2>1, <2>2
<1> QED
  BY <1>1, <1>4, PlainKept

LEMMA BecomesPlain ==
  ASSUME TypeInv, NEW r \in Remote, Plain(r), NEW x \in Remote, NEW n \in DOMAIN sessions[x],
         NEW v, Changed(x, n, v), Becomes(x, n, v),
         x = r => Regular(r, v, lives[r]) /\ (v.state = "closed" => Says(v, "Closed"))
  PROVE  Plain(r)'
<1>1. /\ FewerBrought(r) /\ lives' = lives /\ batches' = batches /\ peers' = peers
      /\ \A stay \in 1..MaxLives[r] : batches[r][stay] > 0 => stay <= lives[r]
  BY FewerAsBefore, FewerIsBrought DEF Becomes, TypeInv, main, others, Plain
<1>2. CASE x # r
  BY <1>1, <1>2, PlainSame DEF Changed
<1>3. CASE x = r
  BY <1>1, <1>3, PlainChanged DEF TypeInv
<1> QED
  BY <1>2, <1>3

LEMMA ChannelPlain ==
  ASSUME TypeInv, NEW r \in Remote, Plain(r), NEW x \in Remote, NEW n \in DOMAIN sessions[x],
         ChannelOpens(x, n) \/ ChannelEnds(x, n)
  PROVE  Plain(r)'
<1> DEFINE s == sessions[x][n]
<1>1. s \in Session /\ lives[r] \in Nat /\ (x = r => Regular(r, s, lives[r]))
  BY DEF TypeInv, SessionsOK, LivesOK, Plain
<1>2. CASE ChannelOpens(x, n)
  <2> DEFINE v == Opened(x, s)
  <2>1. Changed(x, n, v) /\ Becomes(x, n, v)
    BY <1>2, OpensIs
  <2>2. s.state = "new" /\ s.heard /\ s.remote = life[x]
    BY <1>2 DEF ChannelOpens
  <2>3. x = r => Regular(r, v, lives[r])
    BY <1>1, <2>2, OpenedRegular
  <2>4. v.state = "open"
    BY <1>1, OpenedIs DEF Opened
  <2> HIDE DEF v
  <2> QED
    BY <2>1, <2>3, <2>4, BecomesPlain
<1>3. CASE ChannelEnds(x, n)
  <2>1. CASE s.state = "open" /\ Changed(x, n, ClosedSession(s)) /\ Becomes(x, n, ClosedSession(s))
    <3> DEFINE v == ClosedSession(s)
    <3>1. x = r => Regular(r, v, lives[r]) /\ Says(v, "Closed")
      BY <1>1, <2>1, ClosedRegular
    <3>2. Changed(x, n, v) /\ Becomes(x, n, v)
      BY <2>1
    <3> HIDE DEF v
    <3> QED
      BY <3>1, <3>2, BecomesPlain
  <2>2. CASE s.state = "new" /\ Changed(x, n, Unopened(s)) /\ Becomes(x, n, Unopened(s))
    <3> DEFINE v == Unopened(s)
    <3>1. x = r => Regular(r, v, lives[r]) /\ v.state = "failed"
      BY <1>1, <2>2, UnopenedRegular
    <3>2. Changed(x, n, v) /\ Becomes(x, n, v)
      BY <2>2
    <3> HIDE DEF v
    <3> QED
      BY <3>1, <3>2, BecomesPlain
  <2> QED
    BY <1>3, <2>1, <2>2, EndsIs
<1> QED
  BY <1>2, <1>3

PlainInv == TypeInv /\ \A r \in Remote : Plain(r)

LEMMA StepPlain == PlainInv /\ [Next]_vars => PlainInv'
<1> SUFFICES ASSUME PlainInv, [Next]_vars
             PROVE  PlainInv'
  OBVIOUS
<1>1. TypeInv /\ (\A r \in Remote : Plain(r)) /\ TypeInv'
  BY StepType DEF PlainInv
<1>2. ASSUME NEW r \in Remote
      PROVE  Plain(r)'
  <2>1. Plain(r)
    BY <1>1
  <2> HIDE DEF Plain
  <2>2. CASE \/ HandleIdentity \/ HandlePaired \/ Interrupt \/ Connect \/ Retry \/ UNCHANGED vars
             \/ \E x \in Remote : Pair(x)
    BY <1>1, <2>1, <2>2, IdleSteps, IdlePlain, FewerIsBrought
  <2>3. CASE HandleSignaling
    BY <1>1, <2>1, <2>2, <2>3, WaitingToRetryPlain, ClosedPlain, PeersPlain, PeerLeftPlain,
       SignalPlain DEF HandleSignaling
  <2>4. CASE HandleRtcEvent
    <3>1. PICK x \in Remote : \E n \in DOMAIN sessions[x] :
            \/ HandleUnknown(x, n) \/ HandleLocalDescription(x, n) \/ HandleOpen(x, n)
            \/ HandleName(x, n) \/ HandleGone(x, n)
      BY <2>4 DEF HandleRtcEvent
    <3> QED
      BY <1>1, <2>1, <3>1, UnknownPlain, LocalDescriptionPlain, OpenPlain, NamePlain, GonePlain
  <2>5. CASE Drop \/ TaskEnds
    BY <1>1, <2>1, <2>5, DropPlain
  <2>6. CASE ServerJoins
    <3>1. CASE \E place \in Room :
                 /\ Joins(place)
                 /\ [type |-> "Peers", room |-> place, peers |-> There(place)] \in SignalingEvent
      BY <1>1, <2>1, <3>1, JoinsPlain
    <3>2. CASE up # <<>> /\ up' = Tail(up)
               /\ UNCHANGED <<main, sessions, link, down, others, batches, late, budget>>
      BY <1>1, <2>1, <3>2, IdleSteps, IdlePlain, FewerIsBrought
    <3> QED
      BY <1>1, <2>6, <3>1, <3>2, JoinsAre
  <2>7. CASE ServerRelays
    <3>1. Head(up).peer \in Remote
      BY <1>1, <2>7, RelaysIs
    <3> QED
      BY <1>1, <2>1, <2>7, <3>1, RelaysPlain
  <2>8. CASE \E x \in Remote : Come(x) \/ Go(x)
    BY <1>1, <2>1, <2>8, ComePlain, GoPlain
  <2>9. CASE Channel
    BY <1>1, <2>1, <2>9, ChannelPlain DEF Channel
  <2> QED
    BY <2>2, <2>3, <2>4, <2>5, <2>6, <2>7, <2>8, <2>9 DEF Next, Main, Task, Server, Environment
<1> QED
  BY <1>1, <1>2 DEF PlainInv

-----------------------------------------------------------------------------
(* What a step keeps of the rest of the invariant.                         *)

NoneOffered(r) == \A i \in DOMAIN down : ~Offers(down[i], r)
NoneAnswered(r) == \A i \in DOMAIN down : ~Answers(down[i], r)
NoneCalled(r) == \A i \in DOMAIN down : ~Calls(down[i], r)

\* What is known of a device at any time.
LEMMA About ==
  ASSUME PlainInv, NEW r \in Remote
  PROVE  /\ sessions[r] \in Seq(Session) /\ Len(sessions[r]) \in Nat
         /\ DOMAIN sessions[r] = 1..Len(sessions[r])
         /\ \A n \in DOMAIN sessions[r] :
              sessions[r][n] \in Session /\ Regular(r, sessions[r][n], lives[r])
         /\ sessions[r] # <<>> => Len(sessions[r]) \in DOMAIN sessions[r]
         /\ DOMAIN sessions[r] # {} => Len(sessions[r]) \in DOMAIN sessions[r]
         /\ Len(sessions[r]) \in DOMAIN sessions[r] =>
              Newest(r) \in Session /\ Regular(r, Newest(r), lives[r])
         /\ r \in Known =>
              /\ peers[r] \in Peer /\ peers[r].session = Len(sessions[r])
              /\ Len(sessions[r]) \in DOMAIN sessions[r] /\ Newest(r) = sessions[r][peers[r].session]
              /\ Newest(r).state = "closed" => Says(Newest(r), "Closed")
<1>1. sessions[r] \in Seq(Session) /\ Plain(r)
  BY DEF PlainInv, TypeInv, SessionsOK
<1>2. /\ Len(sessions[r]) \in Nat /\ DOMAIN sessions[r] = 1..Len(sessions[r])
      /\ \A n \in DOMAIN sessions[r] : sessions[r][n] \in Session
      /\ sessions[r] # <<>> => Len(sessions[r]) \in DOMAIN sessions[r]
      /\ DOMAIN sessions[r] # {} => Len(sessions[r]) \in DOMAIN sessions[r]
  BY <1>1
<1>3. r \in Known => peers[r] \in Peer /\ peers[r].session \in DOMAIN sessions[r]
  BY UnknownType DEF PlainInv, TypeInv, CurrentOK
<1> QED
  BY <1>1, <1>2, <1>3 DEF Plain, Newest

LEMMA NumbersAre ==
  ASSUME PlainInv, NEW r \in Remote
  PROVE  /\ life[r] \in Nat /\ lives[r] \in Nat /\ life[r] \in {0, lives[r]}
         /\ lives[r] <= MaxLives[r] /\ MaxLives[r] \in Nat
         /\ MaxDrops \in Nat /\ budget.drops \in 0..MaxDrops
         /\ DOMAIN batches[r] = 1..MaxLives[r]
         /\ \A stay \in 1..MaxLives[r] : batches[r][stay] \in Nat /\ stay \in Nat \ {0}
         /\ \A stay \in 1..MaxLives[r] : Allowed(r, stay) \in Nat
<1>1. /\ life[r] \in Nat /\ lives[r] \in Nat /\ life[r] \in {0, lives[r]}
      /\ lives[r] <= MaxLives[r] /\ MaxLives[r] \in Nat
      /\ DOMAIN batches[r] = 1..MaxLives[r]
      /\ \A stay \in 1..MaxLives[r] : batches[r][stay] \in Nat /\ stay \in Nat \ {0}
  BY BoundAssumption DEF PlainInv, TypeInv, LivesOK, BatchesOK
<1>2. MaxDrops \in Nat /\ budget.drops \in 0..MaxDrops
  BY BoundAssumption DEF PlainInv, TypeInv, BoundsOK
<1> QED
  BY <1>1, <1>2 DEF Allowed

LEMMA FramesAre ==
  ASSUME PlainInv, NEW r \in Remote, NEW i \in DOMAIN down
  PROVE  /\ down[i] \in SignalingEvent /\ i \in Nat
         /\ Signals(down[i], r) => down[i].life \in Nat \ {0} /\ down[i].offer \in BOOLEAN
BY CarriedDown DEF PlainInv, TypeInv, QueuesOK, Signals

LEMMA OverIsSpent ==
  ASSUME PlainInv, NEW r \in Remote, NEW n \in DOMAIN sessions[r], Over(sessions[r][n])
  PROVE  /\ Spent(sessions[r][n]) /\ \A report : ~Says(sessions[r][n], report)
         /\ ~sessions[r][n].heard
BY About DEF Over, Spent, Says, Regular

LEMMA PartedKept ==
  ASSUME NEW r, Parted(r), Fewer(r), QueuesOK, QueuesOK', Touch(r)' => Touch(r)
  PROVE  Parted(r)'
<1>1. PICK k \in Nat : \A i \in DOMAIN down' :
        Brings(down'[i], r) \/ Parts(down'[i], r) => i + k \in DOMAIN down /\ down'[i] = down[i + k]
  BY DEF Fewer
<1>2. \A i \in DOMAIN down' : i \in Nat
  BY DEF QueuesOK
<1>3. ASSUME NEW i \in DOMAIN down', Parts(down'[i], r)
      PROVE  ~Touch(r)' /\ \A j \in DOMAIN down' : i < j => ~Brings(down'[j], r)
  <2>1. i + k \in DOMAIN down /\ Parts(down[i + k], r)
    BY <1>1, <1>3
  <2>2. ~Touch(r) /\ \A j \in DOMAIN down : i + k < j => ~Brings(down[j], r)
    BY <2>1 DEF Parted
  <2>3. ASSUME NEW j \in DOMAIN down', i < j, Brings(down'[j], r)
        PROVE  FALSE
    <3>1. j + k \in DOMAIN down /\ Brings(down[j + k], r)
      BY <1>1, <2>3
    <3>2. i + k < j + k
      BY <1>2, <2>3
    <3> QED
      BY <2>2, <3>1, <3>2
  <2> QED
    BY <2>2, <2>3
<1> QED
  BY <1>3 DEF Parted

LEMMA UnaskedKept ==
  ASSUME NEW r, Unasked(r), FewerAsked(r)
  PROVE  Unasked(r)'
<1>1. PICK k \in Nat : \A i \in DOMAIN up' :
        Asks(up'[i], r) => i + k \in DOMAIN up /\ up'[i] = up[i + k]
  BY DEF FewerAsked
<1>2. \A i \in DOMAIN up' : ~Asks(up'[i], r)
  BY <1>1 DEF Unasked
<1> QED
  BY <1>2 DEF Unasked

LEMMA OfferedKept ==
  ASSUME NEW r, Offered(r), FewerBrought(r), QueuesOK', Free(r) => Free(r)'
  PROVE  Offered(r)'
<1>1. PICK k \in Nat : \A i \in DOMAIN down' :
        Brings(down'[i], r) => i + k \in DOMAIN down /\ down'[i] = down[i + k]
  BY DEF FewerBrought
<1>2. \A i \in DOMAIN down' : i \in Nat
  BY DEF QueuesOK
<1>3. ASSUME NEW i \in DOMAIN down', Offers(down'[i], r)
      PROVE  Free(r)' /\ \A j \in DOMAIN down' : j < i => ~Brings(down'[j], r)
  <2>1. i + k \in DOMAIN down /\ Offers(down[i + k], r)
    BY <1>1, <1>3 DEF Brings, Offers
  <2>2. Free(r) /\ \A j \in DOMAIN down : j < i + k => ~Brings(down[j], r)
    BY <2>1 DEF Offered
  <2>3. ASSUME NEW j \in DOMAIN down', j < i, Brings(down'[j], r)
        PROVE  FALSE
    <3>1. j + k \in DOMAIN down /\ Brings(down[j + k], r)
      BY <1>1, <2>3
    <3>2. j + k < i + k
      BY <1>2, <2>3
    <3> QED
      BY <2>2, <3>1, <3>2
  <2> QED
    BY <2>2, <2>3
<1> QED
  BY <1>3 DEF Offered

LEMMA AnsweredKept ==
  ASSUME NEW r, Answered(r), FewerBrought(r), QueuesOK', Calling(r) => Calling(r)',
         \A stay \in Nat \ {0} : (stay = life[r] /\ ~Newest(r).over => Shared(r)) =>
                                 (stay = life'[r] /\ ~Newest(r)'.over => Shared(r)')
  PROVE  Answered(r)'
<1>1. PICK k \in Nat : \A i \in DOMAIN down' :
        Brings(down'[i], r) => i + k \in DOMAIN down /\ down'[i] = down[i + k]
  BY DEF FewerBrought
<1>2. \A i \in DOMAIN down' : i \in Nat /\ down'[i] \in SignalingEvent
  BY DEF QueuesOK
<1>3. ASSUME NEW i \in DOMAIN down', Answers(down'[i], r)
      PROVE  /\ Calling(r)'
             /\ down'[i].life = life'[r] /\ ~Newest(r)'.over => Shared(r)'
             /\ \A j \in DOMAIN down' : Answers(down'[j], r) => j = i
  <2>1. i + k \in DOMAIN down /\ Answers(down[i + k], r) /\ down'[i] = down[i + k]
    BY <1>1, <1>3 DEF Brings, Answers
  <2>2. /\ Calling(r)
        /\ down[i + k].life = life[r] /\ ~Newest(r).over => Shared(r)
        /\ \A j \in DOMAIN down : Answers(down[j], r) => j = i + k
    BY <2>1 DEF Answered
  <2>3. down'[i].life \in Nat \ {0}
    BY <1>2, <1>3, CarriedDown DEF Answers, Signals
  <2>4. ASSUME NEW j \in DOMAIN down', Answers(down'[j], r)
        PROVE  j = i
    <3>1. j + k \in DOMAIN down /\ Answers(down[j + k], r)
      BY <1>1, <2>4 DEF Brings, Answers
    <3>2. j + k = i + k
      BY <2>2, <3>1
    <3> QED
      BY <1>2, <3>2
  <2>5. down'[i].life = life'[r] /\ ~Newest(r)'.over => Shared(r)'
    <3> SUFFICES ASSUME NEW stay, stay = down'[i].life
                 PROVE  stay = life'[r] /\ ~Newest(r)'.over => Shared(r)'
      BY Zenon
    <3>1. stay \in Nat \ {0} /\ stay = down[i + k].life
      BY <2>1, <2>3
    <3>2. stay = life[r] /\ ~Newest(r).over => Shared(r)
      BY <2>2, <3>1, Zenon
    <3> QED
      BY <3>1, <3>2, Zenon
  <2>6. Calling(r)'
    BY <2>2, Zenon
  <2> QED
    BY <2>4, <2>5, <2>6, Zenon
<1> QED
  BY <1>3 DEF Answered

LEMMA AskedKept ==
  ASSUME NEW r, Asked(r), FewerAsked(r), QueuesOK', Len(sessions'[r]) = Len(sessions[r]),
         Newest(r)'.caller => /\ Newest(r).caller
                              /\ Newest(r).remote = 0 => Newest(r)'.remote = 0
                              /\ Says(Newest(r)', "LocalDescription") => Says(Newest(r), "LocalDescription")
  PROVE  Asked(r)'
<1>1. PICK k \in Nat : \A i \in DOMAIN up' :
        Asks(up'[i], r) => i + k \in DOMAIN up /\ up'[i] = up[i + k]
  BY DEF FewerAsked
<1>2. \A i \in DOMAIN up' : i \in Nat
  BY DEF QueuesOK
<1>3. ASSUME NEW i \in DOMAIN up', Asks(up'[i], r)
      PROVE  /\ up'[i].session = Len(sessions'[r])
             /\ Newest(r)'.caller =>
                  /\ Newest(r)'.remote = 0 /\ ~Says(Newest(r)', "LocalDescription")
                  /\ \A j \in DOMAIN up' : Asks(up'[j], r) => j = i
  <2>1. i + k \in DOMAIN up /\ Asks(up[i + k], r) /\ up'[i] = up[i + k]
    BY <1>1, <1>3
  <2>2. /\ up[i + k].session = Len(sessions[r])
        /\ Newest(r).caller =>
             /\ Newest(r).remote = 0 /\ ~Says(Newest(r), "LocalDescription")
             /\ \A j \in DOMAIN up : Asks(up[j], r) => j = i + k
    BY <2>1 DEF Asked
  <2>3. ASSUME NEW j \in DOMAIN up', Asks(up'[j], r), Newest(r).caller
        PROVE  j = i
    <3>1. j + k \in DOMAIN up /\ Asks(up[j + k], r)
      BY <1>1, <2>3
    <3>2. j + k = i + k
      BY <2>2, <2>3, <3>1
    <3> QED
      BY <1>2, <3>2
  <2> QED
    BY <2>1, <2>2, <2>3
<1> QED
  BY <1>3 DEF Asked, Says

LEMMA NoneKept ==
  ASSUME NEW r, FewerBrought(r)
  PROVE  /\ NoneOffered(r) => NoneOffered(r)'
         /\ NoneAnswered(r) => NoneAnswered(r)'
         /\ NoneCalled(r) => NoneCalled(r)'
         /\ (\A i \in DOMAIN down : Signals(down[i], r) => down[i].life = life[r]) =>
              \A i \in DOMAIN down' : Signals(down'[i], r) => down'[i].life = life[r]
         /\ \A stay : (\E i \in DOMAIN down' : Answers(down'[i], r) /\ down'[i].life = stay) =>
                       \E i \in DOMAIN down : Answers(down[i], r) /\ down[i].life = stay
<1>1. PICK k \in Nat : \A i \in DOMAIN down' :
        Brings(down'[i], r) => i + k \in DOMAIN down /\ down'[i] = down[i + k]
  BY DEF FewerBrought
<1>2. \A i \in DOMAIN down' :
        /\ Offers(down'[i], r) \/ Answers(down'[i], r) \/ Signals(down'[i], r) \/ Calls(down'[i], r)
             => i + k \in DOMAIN down /\ down'[i] = down[i + k]
  BY <1>1 DEF Brings, Offers, Answers
<1> QED
  BY <1>2 DEF NoneOffered, NoneAnswered, NoneCalled

LEMMA NoneImplies ==
  ASSUME NEW r
  PROVE  /\ NoneOffered(r) => Offered(r)
         /\ NoneAnswered(r) => Answered(r)
         /\ NoneAnswered(r) => \A stay : ~(\E i \in DOMAIN down : Answers(down[i], r) /\ down[i].life = stay)
         /\ Offered(r) /\ ~Free(r) => NoneOffered(r)
         /\ Answered(r) /\ ~Calling(r) => NoneAnswered(r)
<1> QED
  BY DEF NoneOffered, NoneAnswered, Offered, Answered

\* The same after a step.
LEMMA NoneImpliesThen ==
  ASSUME NEW r
  PROVE  /\ NoneOffered(r)' => Offered(r)'
         /\ NoneAnswered(r)' => Answered(r)'
         /\ NoneAnswered(r)' => \A stay : ~(\E i \in DOMAIN down' : Answers(down'[i], r) /\ down'[i].life = stay)
         /\ NoneOffered(r)' /\ NoneAnswered(r)' =>
              (QueuesOK' => \A i \in DOMAIN down' : ~Signals(down'[i], r))
<1>1. ASSUME NoneOffered(r)', NoneAnswered(r)', QueuesOK', NEW i \in DOMAIN down', Signals(down'[i], r)
      PROVE  FALSE
  BY <1>1 DEF NoneOffered, NoneAnswered, Offers, Answers
<1> QED
  BY <1>1 DEF NoneOffered, NoneAnswered, Offered, Answered

LEMMA AllowedKept ==
  ASSUME PlainInv, PlainInv', NEW r \in Remote, life'[r] = life[r], Shared(r) => Shared(r)',
         budget'.drops = budget.drops, link = "ended" => link' = "ended"
  PROVE  \A stay : Allowed(r, stay) <= Allowed(r, stay)'
<1>1. budget.drops \in 0..MaxDrops /\ MaxDrops \in Nat
  BY NumbersAre
<1> QED
  BY <1>1 DEF Allowed

LEMMA CountedKept ==
  ASSUME PlainInv, PlainInv', NEW r \in Remote, Counted(r), batches'[r] = batches[r],
         \A stay \in 1..MaxLives[r] : /\ Allowed(r, stay) <= Allowed(r, stay)'
                                      /\ Due(r, stay)' => Due(r, stay)
  PROVE  Counted(r)'
<1>1. \A stay \in 1..MaxLives[r] :
        batches[r][stay] \in Nat /\ Allowed(r, stay) \in Nat /\ Allowed(r, stay)' \in Nat
  <2>1. \A stay \in 1..MaxLives[r] : batches[r][stay] \in Nat /\ Allowed(r, stay) \in Nat
    BY NumbersAre
  <2>2. \A stay \in 1..MaxLives[r] : Allowed(r, stay)' \in Nat
    <3>1. MaxDrops \in Nat /\ (budget.drops)' \in 0..MaxDrops
      BY BoundAssumption DEF PlainInv, TypeInv, BoundsOK
    <3> QED
      BY <3>1 DEF Allowed
  <2> QED
    BY <2>1, <2>2
<1> QED
  BY <1>1 DEF Counted

-----------------------------------------------------------------------------
(* Each step keeps the invariant: first those that leave the calls with r  *)
(* alone.                                                                  *)

\* A step that leaves r alone and brings nothing about it.
Apart(r) ==
  /\ Same(r) /\ Fewer(r) /\ FewerAsked(r)
  /\ Touch(r)' <=> Touch(r)
  /\ Shared(r) => Shared(r)'
  /\ budget'.drops = budget.drops
  /\ link = "ended" => link' = "ended"

LEMMA ApartSound ==
  ASSUME PlainInv, PlainInv', NEW r \in Remote, Sound(r), Apart(r)
  PROVE  Sound(r)'
<1>1. /\ sessions'[r] = sessions[r] /\ peers'[r] = peers[r] /\ batches'[r] = batches[r]
      /\ life'[r] = life[r] /\ lives'[r] = lives[r]
      /\ Fewer(r) /\ FewerBrought(r) /\ FewerAsked(r) /\ QueuesOK /\ QueuesOK'
  BY FewerIsBrought DEF Apart, Same, PlainInv, TypeInv
<1>2. /\ Parted(r) /\ Offered(r) /\ Answered(r) /\ InTouch(r) /\ Past(r) /\ Met(r) /\ Counted(r)
      /\ Labelled(r)
  BY DEF Sound
<1>3. (Touch(r)' <=> Touch(r)) /\ (Shared(r) => Shared(r)')
  BY DEF Apart
<1>4. /\ (r \in Known)' <=> r \in Known
      /\ Newest(r)' = Newest(r) /\ Earlier(r)' = Earlier(r)
  BY <1>1 DEF Known, Newest, Earlier
<1>5. Free(r) => Free(r)'
  BY <1>1, <1>4, UnaskedKept DEF Free, Over
<1>6. Calling(r) => Calling(r)'
  BY <1>1, <1>4, UnaskedKept DEF Calling, Over
<1>7. Asked(r) => Asked(r)'
  <2>1. Len(sessions'[r]) = Len(sessions[r])
    BY <1>1
  <2> QED
    BY <1>1, <1>4, <2>1, AskedKept DEF Says
<1>8. Live(r) => Live(r)'
  BY <1>1, <1>4, <1>7, UnaskedKept DEF Live, Says
<1>9. Parted(r)' /\ Offered(r)'
  BY <1>1, <1>2, <1>3, <1>5, PartedKept, OfferedKept
<1>10. Answered(r)'
  <2>1. \A stay \in Nat \ {0} : (stay = life[r] /\ ~Newest(r).over => Shared(r)) =>
                                (stay = life'[r] /\ ~Newest(r)'.over => Shared(r)')
    BY <1>1, <1>3, <1>4
  <2> QED
    BY <1>1, <1>2, <1>6, <2>1, AnsweredKept
<1>11. InTouch(r)'
  <2> SUFFICES ASSUME Touch(r)'
               PROVE  /\ Free(r)' \/ Live(r)'
                      /\ \A n \in Earlier(r)' : Over(sessions'[r][n])
                      /\ \A i \in DOMAIN down' : Signals(down'[i], r) => down'[i].life = life'[r]
    BY DEF InTouch, Over
  <2>1. /\ Free(r) \/ Live(r)
        /\ \A n \in Earlier(r) : Over(sessions[r][n])
        /\ \A i \in DOMAIN down : Signals(down[i], r) => down[i].life = life[r]
    BY <1>2, <1>3 DEF InTouch
  <2>2. \A i \in DOMAIN down' : Signals(down'[i], r) => down'[i].life = life[r]
    BY <1>1, <2>1, NoneKept
  <2> QED
    BY <1>1, <1>4, <1>5, <1>8, <2>1, <2>2
<1>12. Past(r)'
  <2>1. NoneCalled(r) => NoneCalled(r)'
    BY <1>1, NoneKept
  <2> QED
    BY <1>1, <1>2, <1>4, <2>1 DEF Past, Spent, Says, NoneCalled
<1>13. Met(r)'
  BY <1>1, <1>2, <1>3 DEF Met
<1>14. Counted(r)'
  <2>1. \A stay : Allowed(r, stay) <= Allowed(r, stay)'
    BY <1>1, <1>3, AllowedKept DEF Apart
  <2>2. \A stay : Due(r, stay)' => Due(r, stay)
    <3>1. \A stay : (\E i \in DOMAIN down' : Answers(down'[i], r) /\ down'[i].life = stay) =>
                       \E i \in DOMAIN down : Answers(down[i], r) /\ down[i].life = stay
      BY <1>1, NoneKept
    <3> QED
      BY <1>1, <1>3, <1>4, <3>1 DEF Due
  <2> QED
    BY <1>1, <1>2, <2>1, <2>2, CountedKept
<1>15. Labelled(r)'
  BY <1>1, <1>2, <1>4 DEF Labelled, Says
<1> QED
  BY <1>9, <1>10, <1>11, <1>12, <1>13, <1>14, <1>15 DEF Sound

\* The call with r is over, and no other is on its way.
LEMMA EndedSound ==
  ASSUME PlainInv, PlainInv', NEW r \in Remote, Sound(r), ~Touch(r)',
         Parted(r)', NoneOffered(r)', NoneAnswered(r)', Past(r)', Met(r)', Labelled(r)',
         batches'[r] = batches[r],
         (r \in Known)' => ~Newest(r)'.heard,
         \A stay \in 1..MaxLives[r] : Allowed(r, stay) <= Allowed(r, stay)'
  PROVE  Sound(r)'
<1>1. Offered(r)' /\ Answered(r)'
  BY NoneImpliesThen
<1>2. InTouch(r)'
  BY DEF InTouch
<1>3. Counted(r)'
  <2>1. \A stay : ~(\E i \in DOMAIN down' : Answers(down'[i], r) /\ down'[i].life = stay)
    BY NoneImpliesThen
  <2>2. \A stay \in 1..MaxLives[r] : ~Due(r, stay)'
    BY <2>1 DEF Due
  <2> QED
    BY <2>2, CountedKept DEF Sound
<1> QED
  BY <1>1, <1>2, <1>3 DEF Sound

\* What the loop asks of r in a step that is not about it.
LEMMA AskedElsewhere ==
  ASSUME QueuesOK, NEW r
  PROVE  /\ HandleIdentity => FewerAsked(r)
         /\ HandlePaired => FewerAsked(r)
         /\ Interrupt => FewerAsked(r)
         /\ Retry => FewerAsked(r)
<1>1. /\ [type |-> "JoinIpRoom"] \in ClientMessage /\ [type |-> "RoomSecrets"] \in ClientMessage
      /\ Shutdown \in ClientMessage
      /\ ~Asks([type |-> "JoinIpRoom"], r) /\ ~Asks([type |-> "RoomSecrets"], r) /\ ~Asks(Shutdown, r)
  BY ClientMessages DEF Asks, Shutdown
<1>2. HandlePaired \/ Interrupt => FewerAsked(r)
  BY <1>1, AskedByAppending DEF HandlePaired, Interrupt
<1>3. Retry => FewerAsked(r)
  BY AskedAsBefore, AskedByReading DEF Retry
<1>4. ASSUME HandleIdentity
      PROVE  FewerAsked(r)
  <2>1. CASE joined
    BY <1>4, <2>1, AskedAsBefore DEF HandleIdentity
  <2>2. CASE ~joined
    <3> DEFINE first == [type |-> "JoinIpRoom"]
               second == [type |-> "RoomSecrets"]
    <3>1. up \in Seq(ClientMessage)
      BY DEF QueuesOK
    <3>2. up' = up \o <<first>> \o (IF Registered = {} THEN <<>> ELSE <<second>>)
      BY <1>4, <2>2 DEF HandleIdentity
    <3>3. first \in ClientMessage /\ second \in ClientMessage /\ ~Asks(first, r) /\ ~Asks(second, r)
      BY <1>1
    <3> HIDE DEF first, second
    <3>4. CASE Registered = {}
      <4>1. up' = Append(up, first)
        BY <3>1, <3>2, <3>3, <3>4
      <4> QED
        BY <3>3, <4>1, AskedByAppending
    <3>5. CASE Registered # {}
      <4>1. up' = up \o <<first>> \o <<second>>
        BY <3>2, <3>5
      <4>2. /\ Len(up') = Len(up) + 2 /\ \A i \in 1..Len(up) : up'[i] = up[i]
            /\ up'[Len(up) + 1] = first /\ up'[Len(up) + 2] = second /\ DOMAIN up' = 1..(Len(up) + 2)
        BY <3>1, <3>3, <4>1
      <4>3. Len(up) \in Nat /\ DOMAIN up = 1..Len(up)
        BY <3>1
      <4>4. \A i \in DOMAIN up' : i \in 1..Len(up) \/ i = Len(up) + 1 \/ i = Len(up) + 2
        BY <4>2, <4>3
      <4>5. \A i \in DOMAIN up' : Asks(up'[i], r) => i + 0 \in DOMAIN up /\ up'[i] = up[i + 0]
        BY <3>3, <4>2, <4>3, <4>4
      <4> QED
        BY <4>5 DEF FewerAsked
    <3> QED
      BY <3>4, <3>5
  <2> QED
    BY <2>1, <2>2
<1> QED
  BY <1>2, <1>3, <1>4

LEMMA IdleSound ==
  ASSUME PlainInv, PlainInv', NEW r \in Remote, Sound(r),
         \/ HandleIdentity \/ HandlePaired \/ Interrupt \/ Connect \/ Retry \/ UNCHANGED vars
         \/ \E x \in Remote : Pair(x)
         \/ up # <<>> /\ up' = Tail(up) /\ UNCHANGED <<main, sessions, link, down, others, batches, late, budget>>
  PROVE  Sound(r)'
<1>1. Same(r) /\ Fewer(r)
  BY IdleSteps DEF PlainInv
<1>2. FewerAsked(r)
  BY AskedElsewhere, AskedAsBefore, AskedByReading DEF Connect, Pair, PlainInv, TypeInv, vars
<1>3. /\ life' = life /\ within' = within /\ (link = "ended" => link' = "ended")
  BY DEF HandleIdentity, HandlePaired, Interrupt, Connect, Retry, Pair, vars, others
<1>4. (Touch(r)' <=> Touch(r)) /\ (Shared(r)' <=> Shared(r))
  BY <1>3 DEF Touch, Shared
<1>5. budget'.drops = budget.drops
  <2>1. ASSUME NEW x, Pair(x)
        PROVE  budget'.drops = budget.drops
    BY <2>1, SpendType DEF Pair, PlainInv, TypeInv
  <2> QED
    BY <2>1 DEF HandleIdentity, HandlePaired, Interrupt, Connect, Retry, vars
<1> QED
  BY <1>1, <1>2, <1>3, <1>4, <1>5, ApartSound DEF Apart

\* A step on the sessions, the list or the queues of another device.
LEMMA ElsewhereSound ==
  ASSUME PlainInv, PlainInv', NEW r \in Remote, Sound(r), sessions'[r] = sessions[r],
         peers'[r] = peers[r], batches'[r] = batches[r], Fewer(r), FewerAsked(r),
         others' = others, link' = link, budget' = budget
  PROVE  Sound(r)'
<1>1. Same(r) /\ (Touch(r)' <=> Touch(r)) /\ (Shared(r)' <=> Shared(r))
  BY DEF Same, others, Touch, Shared
<1> QED
  BY <1>1, ApartSound DEF Apart

-----------------------------------------------------------------------------
(* What ends a call: frames, reports and lost connections.                 *)

\* What has been said of r when the first frame ends its calls.
LEMMA PartingIs ==
  ASSUME PlainInv, NEW r \in Remote, Parted(r), down # <<>>, Parts(Head(down), r), Handled
  PROVE  ~Touch(r) /\ \A i \in DOMAIN down' : ~Brings(down'[i], r)
<1>1. down \in Seq(SignalingEvent) /\ down # <<>>
  BY DEF PlainInv, TypeInv, QueuesOK
<1>2. /\ 1 \in DOMAIN down /\ Head(down) = down[1]
      /\ \A i \in DOMAIN down' : i + 1 \in DOMAIN down /\ down'[i] = down[i + 1]
  BY <1>1, HeadAndTail DEF Handled
<1>3. ~Touch(r) /\ \A j \in DOMAIN down : 1 < j => ~Brings(down[j], r)
  BY <1>2 DEF Parted
<1>4. \A i \in DOMAIN down' : 1 < i + 1
  BY <1>1 DEF Handled
<1> QED
  BY <1>2, <1>3, <1>4

LEMMA NothingBrought ==
  ASSUME NEW r, \A i \in DOMAIN down' : ~Brings(down'[i], r)
  PROVE  NoneOffered(r)' /\ NoneAnswered(r)' /\ NoneCalled(r)'
BY DEF Brings, NoneOffered, NoneAnswered, NoneCalled, Offers, Answers

LEMMA WaitingToRetrySound ==
  ASSUME PlainInv, PlainInv', NEW r \in Remote, Sound(r), HandleWaitingToRetry
  PROVE  Sound(r)'
<1>1. /\ down # <<>> /\ Parts(Head(down), r) /\ Handled /\ (r \notin Known)'
      /\ sessions' = sessions /\ batches' = batches /\ life' = life /\ within' = within
      /\ link' = link /\ budget' = budget /\ QueuesOK /\ QueuesOK'
  BY DEF HandleWaitingToRetry, Arrives, Parts, Known, others, PlainInv, TypeInv
<1>2. Parted(r) /\ Past(r) /\ Met(r)
  BY DEF Sound
<1>3. ~Touch(r) /\ \A i \in DOMAIN down' : ~Brings(down'[i], r)
  BY <1>1, <1>2, PartingIs
<1>4. NoneOffered(r)' /\ NoneAnswered(r)' /\ NoneCalled(r)'
  BY <1>3, NothingBrought
<1>5. ~Touch(r)' /\ (Shared(r) <=> Shared(r)')
  BY <1>1, <1>3 DEF Touch, Shared
<1>6. Parted(r)'
  BY <1>1, <1>2, <1>5, <1>3, FewerByHandling, PartedKept
<1>7. Past(r)'
  BY <1>1, <1>2, <1>4 DEF Past, Newest, Earlier, NoneCalled
<1>8. Met(r)'
  BY <1>1, <1>2, <1>5 DEF Met
<1>9. \A stay : Allowed(r, stay) <= Allowed(r, stay)'
  BY <1>1, <1>5, AllowedKept
<1>10. Labelled(r)'
  BY <1>1 DEF Labelled
<1> QED
  BY <1>1, <1>4, <1>5, <1>6, <1>7, <1>8, <1>9, <1>10, EndedSound

\* Another session takes the place of the newest.
LEMMA NewestChanged ==
  ASSUME PlainInv, NEW r \in Remote, NEW n \in DOMAIN sessions[r], NEW v, Changed(r, n, v)
  PROVE  /\ Earlier(r)' = Earlier(r) /\ Newest(r)' = IF n = Len(sessions[r]) THEN v ELSE Newest(r)
         /\ Len(sessions'[r]) = Len(sessions[r]) /\ DOMAIN sessions'[r] = DOMAIN sessions[r]
         /\ \A k \in Earlier(r) : sessions'[r][k] = IF k = n THEN v ELSE sessions[r][k]
         /\ n = Len(sessions[r]) => n \notin Earlier(r) /\ Newest(r) = sessions[r][n]
         /\ n # Len(sessions[r]) => n \in Earlier(r)
         /\ sessions[r] # <<>> /\ sessions'[r] # <<>>
<1>1. DOMAIN sessions[r] = 1..Len(sessions[r]) /\ Len(sessions[r]) \in DOMAIN sessions[r]
      /\ Len(sessions[r]) \in Nat /\ sessions[r] # <<>>
  BY About
<1>2. Len(sessions'[r]) = Len(sessions[r]) /\ DOMAIN sessions'[r] = DOMAIN sessions[r]
      /\ \A k \in DOMAIN sessions[r] : sessions'[r][k] = IF k = n THEN v ELSE sessions[r][k]
  BY DEF Changed
<1> QED
  BY <1>1, <1>2 DEF Earlier, Newest

LEMMA ClosedSpent ==
  ASSUME PlainInv, NEW r \in Remote, NEW s \in Session, Regular(r, s, lives[r])
  PROVE  /\ Spent(s) => Spent(ClosedSession(s))
         /\ ~ClosedSession(s).heard /\ ClosedSession(s).state = "closed"
<1>1. lives[r] \in Nat
  BY NumbersAre
<1>2. Spent(s) => Spent(ClosedSession(s))
  BY <1>1, ClosedRegular
<1> QED
  BY <1>2, ClosedIs DEF Regular

LEMMA PeerLeftSound ==
  ASSUME PlainInv, PlainInv', NEW r \in Remote, Sound(r), HandlePeerLeft
  PROVE  Sound(r)'
<1> DEFINE x == Head(down).peer
<1>1. /\ x \in Remote /\ peers' = [peers EXCEPT ![x] = None]
      /\ x \in Known => Changed(x, peers[x].session, ClosedSession(sessions[x][peers[x].session]))
      /\ x \notin Known => sessions' = sessions
  BY PeerLeftIs DEF PlainInv
<1>2. /\ down # <<>> /\ Parts(Head(down), x) /\ Handled /\ up' = up
      /\ batches' = batches /\ life' = life /\ within' = within /\ others' = others
      /\ link' = link /\ budget' = budget /\ QueuesOK /\ QueuesOK'
  BY DEF HandlePeerLeft, Arrives, Parts, others, PlainInv, TypeInv
<1>3. Fewer(r)
  BY <1>2, FewerByHandling
<1> HIDE DEF x
<1>4. CASE x # r
  <2>1. sessions'[r] = sessions[r] /\ peers'[r] = peers[r]
    BY <1>1, <1>4 DEF PlainInv, TypeInv, PeersOK, Changed
  <2> QED
    BY <1>2, <1>3, <2>1, ElsewhereSound, AskedAsBefore
<1>5. CASE x = r
  <2>1. Parted(r) /\ Past(r) /\ Met(r)
    BY DEF Sound
  <2>2. ~Touch(r) /\ \A i \in DOMAIN down' : ~Brings(down'[i], r)
    BY <1>2, <1>5, <2>1, PartingIs
  <2>3. NoneOffered(r)' /\ NoneAnswered(r)' /\ NoneCalled(r)'
    BY <2>2, NothingBrought
  <2>4. ~Touch(r)' /\ (Shared(r) <=> Shared(r)')
    BY <1>2, <2>2 DEF Touch, Shared
  <2>5. Parted(r)'
    BY <1>2, <1>3, <2>1, <2>2, <2>4, PartedKept
  <2>6. \A stay : Allowed(r, stay) <= Allowed(r, stay)'
    BY <1>2, <2>4, AllowedKept
  <2>7. (r \notin Known)'
    BY <1>1, <1>5 DEF Known, PlainInv, TypeInv, PeersOK
  <2>8. Past(r)' /\ Met(r)'
    <3>1. CASE r \notin Known
      <4>1. sessions' = sessions
        BY <1>1, <1>5, <3>1
      <4> QED
        BY <1>2, <2>1, <2>3, <2>4, <4>1 DEF Past, Met, Newest, Earlier, NoneCalled
    <3>2. CASE r \in Known
      <4> DEFINE n == Len(sessions[r])
                 s == Newest(r)
                 v == ClosedSession(s)
      <4>1. n \in DOMAIN sessions[r] /\ s \in Session /\ Regular(r, s, lives[r])
            /\ peers[r].session = n /\ s = sessions[r][n]
        BY <3>2, About
      <4>2. Changed(r, n, v)
        BY <1>1, <1>5, <3>2, <4>1
      <4>3. (Spent(s) => Spent(v)) /\ ~v.heard
        BY <4>1, ClosedSpent
      <4> HIDE DEF v, s
      <4>4. /\ Earlier(r)' = Earlier(r) /\ Newest(r)' = v
            /\ \A k \in Earlier(r) : sessions'[r][k] = sessions[r][k]
        BY <4>1, <4>2, NewestChanged
      <4>5. Past(r)'
        BY <2>1, <2>3, <4>3, <4>4 DEF Past, NoneCalled, Says, Spent, s
      <4>6. Met(r)'
        BY <1>2, <2>1, <2>4, <4>2, <4>3 DEF Met, Changed
      <4> QED
        BY <4>5, <4>6
    <3> QED
      BY <3>1, <3>2
  <2>9. Labelled(r)'
    BY <2>7 DEF Labelled
  <2> QED
    BY <1>2, <2>3, <2>4, <2>5, <2>6, <2>7, <2>8, <2>9, EndedSound
<1> QED
  BY <1>4, <1>5

\* While something is left of a session r is free for no other call, nor waits for an answer.
LEMMA NotFree ==
  ASSUME PlainInv, NEW r \in Remote, NEW n \in DOMAIN sessions[r], ~Over(sessions[r][n])
  PROVE  /\ ~Free(r)
         /\ sessions[r][n].reports # <<>> => ~Calling(r)
         /\ n # Len(sessions[r]) => ~Calling(r)
<1>1. n # Len(sessions[r]) => n \in Earlier(r)
  BY About DEF Earlier
<1> QED
  BY <1>1 DEF Free, Calling, Newest

LEMMA HeededSpent ==
  ASSUME PlainInv, NEW r \in Remote, NEW n \in DOMAIN sessions[r], sessions[r][n].reports # <<>>
  PROVE  LET s == sessions[r][n]
             v == Heeded(s)
         IN  /\ Spent(s) => Spent(v)
             /\ ~Says(v, "LocalDescription")
             /\ \A report : Says(v, report) => Says(s, report)
             /\ \A report : Says(s, report) /\ Head(s.reports) # report => Says(v, report)
             /\ v \in Session /\ v.caller = s.caller /\ v.remote = s.remote
             /\ v.heard = s.heard /\ v.over = s.over /\ v.state = s.state
<1>1. sessions[r][n] \in Session /\ Regular(r, sessions[r][n], lives[r]) /\ lives[r] \in Nat
  BY About, NumbersAre
<1> QED
  BY <1>1, HeededRegular, HeededSays, HeededIs

\* What is left of the past once a report of r is handled.
LEMMA HeededPast ==
  ASSUME PlainInv, NEW r \in Remote, NEW n \in DOMAIN sessions[r], sessions[r][n].reports # <<>>,
         Changed(r, n, Heeded(sessions[r][n])), Past(r), down' = down,
         (r \in Known)' <=> r \in Known
  PROVE  Past(r)'
<1> DEFINE s == sessions[r][n]
           v == Heeded(s)
<1>1. /\ Spent(s) => Spent(v)
      /\ \A report : Says(v, report) => Says(s, report)
  BY HeededSpent
<1>2. Changed(r, n, v)
  OBVIOUS
<1>3. n = Len(sessions[r]) => s = Newest(r)
  BY DEF Newest
<1>4. n \in Earlier(r) => s = sessions[r][n]
  OBVIOUS
<1> HIDE DEF v, s
<1>5. /\ Earlier(r)' = Earlier(r) /\ Newest(r)' = IF n = Len(sessions[r]) THEN v ELSE Newest(r)
      /\ \A k \in Earlier(r) : sessions'[r][k] = IF k = n THEN v ELSE sessions[r][k]
      /\ sessions[r] # <<>>
  BY <1>2, NewestChanged
<1>6. \A k \in Earlier(r) : Spent(sessions[r][k]) => Spent(sessions'[r][k])
  BY <1>1, <1>4, <1>5
<1>7. \A k \in Earlier(r) : Says(sessions'[r][k], "Closed") => Says(sessions[r][k], "Closed")
  BY <1>1, <1>4, <1>5
<1>8. Spent(Newest(r)) => Spent(Newest(r)')
  BY <1>1, <1>3, <1>5
<1>9. NoneCalled(r) => NoneCalled(r)'
  BY DEF NoneCalled
<1>10. \A k \in Earlier(r)' : Spent(sessions'[r][k])
  BY <1>5, <1>6 DEF Past
<1>11. (\E k \in Earlier(r)' : Says(sessions'[r][k], "Closed")) => Spent(Newest(r)')
  BY <1>5, <1>7, <1>8 DEF Past
<1>12. (r \notin Known)' /\ (\E i \in DOMAIN down' : Calls(down'[i], r)) =>
         sessions'[r] = <<>> \/ Spent(Newest(r)')
  BY <1>5, <1>8 DEF Past
<1> QED
  BY <1>10, <1>11, <1>12 DEF Past, Spent, Says

\* Handling a report of r says nothing new of who was met.
LEMMA HeededMet ==
  ASSUME PlainInv, NEW r \in Remote, NEW n \in DOMAIN sessions[r], sessions[r][n].reports # <<>>,
         Changed(r, n, Heeded(sessions[r][n])), Met(r), life'[r] = life[r], Shared(r) => Shared(r)'
  PROVE  Met(r)'
<1> DEFINE s == sessions[r][n]
           v == Heeded(s)
<1>1. v.remote = s.remote /\ v.heard = s.heard /\ v.over = s.over
  BY HeededSpent
<1>2. Changed(r, n, v)
  OBVIOUS
<1> HIDE DEF v
<1> QED
  BY <1>1, <1>2 DEF Met, Changed

LEMMA UnknownSound ==
  ASSUME PlainInv, PlainInv', NEW r \in Remote, Sound(r), NEW x \in Remote,
         NEW n \in DOMAIN sessions[x], HandleUnknown(x, n)
  PROVE  Sound(r)'
<1>1. /\ sessions[x][n].reports # <<>> /\ Changed(x, n, Heeded(sessions[x][n])) /\ x \notin Known
      /\ peers' = peers /\ batches' = batches /\ others' = others /\ down' = down /\ up' = up
      /\ link' = link /\ budget' = budget /\ QueuesOK /\ QueuesOK'
  BY TakenChanges DEF HandleUnknown, PlainInv, TypeInv, main
<1>2. Fewer(r) /\ FewerAsked(r) /\ FewerBrought(r)
  BY <1>1, FewerAsBefore, AskedAsBefore, FewerIsBrought
<1>3. CASE x # r
  BY <1>1, <1>2, <1>3, ElsewhereSound DEF Changed
<1>4. CASE x = r
  <2>1. Parted(r) /\ Past(r) /\ Met(r) /\ Offered(r) /\ Answered(r) /\ InTouch(r)
    BY DEF Sound
  <2>2. ~Free(r) /\ ~Calling(r) /\ ~Live(r)
    BY <1>1, <1>4, NotFree DEF Over, Live
  <2>3. NoneOffered(r)' /\ NoneAnswered(r)'
    BY <1>2, <2>1, <2>2, NoneImplies, NoneKept
  <2>4. ~Touch(r)' /\ (Shared(r) <=> Shared(r)') /\ ~Touch(r) /\ life' = life
    BY <1>1, <2>1, <2>2 DEF Touch, Shared, InTouch, others
  <2>5. Parted(r)'
    BY <1>1, <1>2, <2>1, <2>4, PartedKept
  <2>6. \A stay : Allowed(r, stay) <= Allowed(r, stay)'
    BY <1>1, <2>4, AllowedKept
  <2>7. (r \notin Known)'
    BY <1>1, <1>4 DEF Known
  <2>8. Past(r)'
    BY <1>1, <1>4, <2>1, <2>7, HeededPast DEF NoneCalled
  <2>9. Met(r)'
    BY <1>1, <1>4, <2>1, <2>4, HeededMet
  <2>10. Labelled(r)'
    BY <2>7 DEF Labelled
  <2> QED
    BY <1>1, <2>3, <2>4, <2>5, <2>6, <2>7, <2>8, <2>9, <2>10, EndedSound
<1> QED
  BY <1>3, <1>4

\* A session that said that it is gone: nothing more will come of the newest.
LEMMA GoneSpent ==
  ASSUME PlainInv, NEW r \in Remote, Past(r), NEW n \in DOMAIN sessions[r], HandleGone(r, n)
  PROVE  /\ Spent(Newest(r)') /\ Earlier(r)' = Earlier(r) /\ sessions'[r] # <<>>
         /\ \A k \in Earlier(r) : Spent(sessions'[r][k])
         /\ \A k \in DOMAIN sessions[r] : k \in DOMAIN sessions'[r] /\
              (sessions'[r][k].heard => /\ sessions[r][k].heard
                                        /\ sessions'[r][k].remote = sessions[r][k].remote
                                        /\ sessions'[r][k].over = sessions[r][k].over)
         /\ DOMAIN sessions'[r] = DOMAIN sessions[r]
<1> DEFINE top == Len(sessions[r])
           s == sessions[r][n]
<1>1. /\ r \in Known /\ Len(sessions'[r]) = top /\ DOMAIN sessions'[r] = DOMAIN sessions[r]
      /\ s.reports # <<>> /\ peers[r].session = top
      /\ top \in DOMAIN sessions[r] /\ DOMAIN sessions[r] = 1..top /\ top \in Nat
      /\ s \in Session /\ Regular(r, s, lives[r])
  BY GoneIs, About DEF PlainInv
<1>2. \/ /\ Head(s.reports) = "Failed"
         /\ \A k \in DOMAIN sessions[r] :
              sessions'[r][k] =
                IF k = top THEN ClosedSession(IF k = n THEN Heeded(s) ELSE sessions[r][k])
                ELSE IF k = n THEN Heeded(s) ELSE sessions[r][k]
      \/ /\ Head(s.reports) = "Closed"
         /\ \A k \in DOMAIN sessions[r] : sessions'[r][k] = IF k = n THEN Heeded(s) ELSE sessions[r][k]
  <2>1. peers[r].session = top
    BY <1>1
  <2> HIDE DEF top
  <2> QED
    BY <2>1, GoneIs DEF PlainInv
<1>3. /\ s.reports \in Seq(Report) /\ s.reports # <<>> /\ 1 \in DOMAIN s.reports
      /\ Head(s.reports) = s.reports[1] /\ Heeded(s).reports = Tail(s.reports)
      /\ \A i \in DOMAIN Tail(s.reports) :
           i + 1 \in DOMAIN s.reports /\ Tail(s.reports)[i] = s.reports[i + 1] /\ i \in Nat /\ i > 0
      /\ Heeded(s).remote = s.remote /\ Heeded(s).state = s.state /\ Heeded(s).heard = s.heard
      /\ Heeded(s).over = s.over /\ Heeded(s) \in Session
  BY <1>1, HeadAndTail, SessionFields, HeededIs
<1>4. Earlier(r)' = Earlier(r) /\ sessions'[r] # <<>> /\ (n # top => n \in Earlier(r)) /\ n <= top
  BY <1>1 DEF Earlier
<1>5. (Spent(s) => Spent(Heeded(s))) /\ Regular(r, Heeded(s), lives[r])
  <2>1. lives[r] \in Nat
    BY NumbersAre
  <2> QED
    BY <1>1, <2>1, HeededRegular
<1>6. /\ \A k \in DOMAIN sessions[r] : ~ClosedSession(sessions[r][k]).heard
      /\ ~ClosedSession(Heeded(s)).heard
      /\ Spent(Heeded(s)) => Spent(ClosedSession(Heeded(s)))
  BY <1>3, <1>5, ClosedSpent, About
<1> HIDE DEF top, s
<1>7. CASE Head(s.reports) = "Failed"
             /\ \A k \in DOMAIN sessions[r] :
                  sessions'[r][k] =
                    IF k = top THEN ClosedSession(IF k = n THEN Heeded(s) ELSE sessions[r][k])
                    ELSE IF k = n THEN Heeded(s) ELSE sessions[r][k]
  <2>1. n = top
    <3> SUFFICES ASSUME n # top
                 PROVE  FALSE
      OBVIOUS
    <3>1. Spent(s)
      BY <1>4 DEF Past, s
    <3> QED
      BY <1>3, <1>7, <3>1 DEF Spent
  <2>2. s.state \in {"failed", "closed"} /\ s.remote = 0
        /\ \A j \in DOMAIN s.reports : 1 < j => s.reports[j] = "Closed"
    BY <1>1, <1>3, <1>7 DEF Regular
  <2>3. \A i \in DOMAIN Heeded(s).reports : Heeded(s).reports[i] = "Closed"
    <3>1. \A i \in DOMAIN Tail(s.reports) : 1 < i + 1
      BY <1>3
    <3> QED
      BY <1>3, <2>2, <3>1
  <2>4. sessions'[r][top] = ClosedSession(Heeded(s)) /\ Newest(r)' = sessions'[r][top]
    BY <1>1, <1>7, <2>1 DEF Newest
  <2>5. Spent(Newest(r)')
    <3>1. CASE s.state = "closed"
      <4>1. ClosedSession(Heeded(s)) = Heeded(s)
        BY <1>3, <3>1, ClosedIs
      <4>2. Spent(Heeded(s))
        BY <1>3, <2>2, <2>3, <3>1 DEF Spent
      <4> QED
        BY <2>4, <4>1, <4>2, Zenon
    <3>2. CASE s.state # "closed"
      <4> SUFFICES ASSUME NEW v, v = ClosedSession(Heeded(s))
                   PROVE  Spent(v)
        BY <2>4
      <4>1. /\ v.state = "closed" /\ v.remote = 0
            /\ v.reports = Append(Heeded(s).reports, "Closed") /\ Heeded(s).reports \in Seq(Report)
        BY <1>3, <3>2, ClosedIs, SessionFields
      <4>2. \A i \in DOMAIN v.reports : v.reports[i] = "Closed"
        BY <2>3, <4>1
      <4> QED
        BY <4>1, <4>2 DEF Spent
    <3> QED
      BY <3>1, <3>2
  <2>6. \A k \in Earlier(r) : sessions'[r][k] = sessions[r][k]
    BY <1>1, <1>7, <2>1 DEF Earlier, top
  <2>7. \A k \in Earlier(r) : Spent(sessions'[r][k])
    BY <2>6 DEF Past
  <2>8. \A k \in DOMAIN sessions[r] : sessions'[r][k].heard => sessions'[r][k] = sessions[r][k]
    BY <1>6, <1>7, <2>1
  <2> QED
    BY <1>1, <1>4, <2>5, <2>7, <2>8
<1>8. CASE Head(s.reports) = "Closed"
           /\ \A k \in DOMAIN sessions[r] : sessions'[r][k] = IF k = n THEN Heeded(s) ELSE sessions[r][k]
  <2>1. s.state = "closed" /\ s.remote = 0 /\ 1 = Len(s.reports)
    BY <1>1, <1>3, <1>8 DEF Regular
  <2>2. Spent(Heeded(s))
    <3>1. DOMAIN Heeded(s).reports = {}
      BY <1>3, <2>1
    <3> QED
      BY <1>3, <2>1, <3>1 DEF Spent
  <2>3. Newest(r)' = IF n = top THEN Heeded(s) ELSE Newest(r)
    BY <1>1, <1>8 DEF Newest, top
  <2>4. n # top => Spent(Newest(r))
    <3>1. Says(s, "Closed")
      BY <1>3, <1>8 DEF Says
    <3> QED
      BY <1>4, <3>1 DEF Past, s
  <2>5. \A k \in Earlier(r) : Spent(sessions'[r][k])
    <3>1. \A k \in Earlier(r) : k \in DOMAIN sessions[r] /\ Spent(sessions[r][k])
      BY DEF Past, Earlier
    <3> QED
      BY <1>8, <2>2, <3>1
  <2>6. Spent(Newest(r)')
    BY <2>2, <2>3, <2>4
  <2>7. \A k \in DOMAIN sessions[r] : 
          /\ sessions'[r][k].heard = sessions[r][k].heard
          /\ sessions'[r][k].remote = sessions[r][k].remote
          /\ sessions'[r][k].over = sessions[r][k].over
    BY <1>3, <1>8 DEF s
  <2> QED
    BY <1>1, <1>4, <2>5, <2>6, <2>7
<1> QED
  BY <1>2, <1>7, <1>8 

LEMMA GoneSound ==
  ASSUME PlainInv, PlainInv', NEW r \in Remote, Sound(r), NEW x \in Remote,
         NEW n \in DOMAIN sessions[x], HandleGone(x, n)
  PROVE  Sound(r)'
<1>1. /\ sessions[x][n].reports # <<>> /\ x \in Known /\ peers' = [peers EXCEPT ![x] = None]
      /\ \A y \in Remote : y # x => sessions'[y] = sessions[y]
      /\ batches' = batches /\ others' = others /\ down' = down /\ up' = up
      /\ link' = link /\ budget' = budget /\ QueuesOK /\ QueuesOK'
      /\ Head(sessions[x][n].reports) \in {"Failed", "Closed"}
  BY GoneIs DEF HandleGone, PlainInv, TypeInv
<1>2. Fewer(r) /\ FewerAsked(r) /\ FewerBrought(r)
  BY <1>1, FewerAsBefore, AskedAsBefore, FewerIsBrought
<1>3. CASE x # r
  <2>1. peers'[r] = peers[r]
    BY <1>1, <1>3 DEF PlainInv, TypeInv, PeersOK
  <2> QED
    BY <1>1, <1>2, <1>3, <2>1, ElsewhereSound
<1>4. CASE x = r
  <2>1. Parted(r) /\ Past(r) /\ Met(r) /\ Offered(r) /\ Answered(r) /\ InTouch(r)
    BY DEF Sound
  <2>2. ~Free(r) /\ ~Calling(r)
    BY <1>1, <1>4, NotFree DEF Over
  <2>3. NoneOffered(r)' /\ NoneAnswered(r)'
    BY <1>2, <2>1, <2>2, NoneImplies, NoneKept
  <2>4. ~Touch(r)
    <3> SUFFICES ASSUME Touch(r)
                 PROVE  FALSE
      OBVIOUS
    <3>1. Live(r) /\ \A k \in Earlier(r) : Over(sessions[r][k])
      BY <2>1, <2>2 DEF InTouch
    <3>2. n = Len(sessions[r])
      BY <1>1, <1>4, <3>1, About DEF Earlier, Over
    <3>3. sessions[r][n].state \in {"new", "open"}
      BY <3>1, <3>2 DEF Live, Newest
    <3>4. /\ Regular(r, sessions[r][n], lives[r]) /\ sessions[r][n].reports \in Seq(Report)
          /\ sessions[r][n].reports # <<>>
      BY <1>1, <1>4, About, SessionFields
    <3>5. 1 \in DOMAIN sessions[r][n].reports /\ sessions[r][n].reports[1] \in {"Failed", "Closed"}
      BY <1>1, <1>4, <3>4, HeadAndTail
    <3> QED
      BY <3>3, <3>4, <3>5 DEF Regular
  <2>5. ~Touch(r)' /\ (Shared(r) <=> Shared(r)') /\ life' = life
    BY <1>1, <2>4 DEF Touch, Shared, others
  <2>6. Parted(r)'
    BY <1>1, <1>2, <2>1, <2>5, PartedKept
  <2>7. \A stay : Allowed(r, stay) <= Allowed(r, stay)'
    BY <1>1, <2>5, AllowedKept
  <2>8. (r \notin Known)'
    BY <1>1, <1>4 DEF Known, PlainInv, TypeInv, PeersOK
  <2>9. /\ Spent(Newest(r)') /\ Earlier(r)' = Earlier(r)
        /\ \A k \in Earlier(r) : Spent(sessions'[r][k])
        /\ \A k \in DOMAIN sessions[r] :
             sessions'[r][k].heard => /\ sessions[r][k].heard
                                      /\ sessions'[r][k].remote = sessions[r][k].remote
                                      /\ sessions'[r][k].over = sessions[r][k].over
        /\ DOMAIN sessions'[r] = DOMAIN sessions[r]
    BY <1>4, <2>1, GoneSpent
  <2>10. Past(r)'
    BY <2>9 DEF Past, Spent
  <2>11. Met(r)'
    BY <2>1, <2>5, <2>9 DEF Met
  <2>12. Labelled(r)'
    BY <2>8 DEF Labelled
  <2> QED
    BY <1>1, <2>3, <2>5, <2>6, <2>7, <2>8, <2>10, <2>11, <2>12, EndedSound
<1> QED
  BY <1>3, <1>4

\* A session that has a description of r is the newest, and r is free for no other call.
LEMMA DescribedIs ==
  ASSUME PlainInv, NEW r \in Remote, Sound(r), NEW n \in DOMAIN sessions[r],
         sessions[r][n].remote # 0
  PROVE  /\ n = Len(sessions[r]) /\ Newest(r) = sessions[r][n]
         /\ ~Free(r) /\ ~Calling(r) /\ NoneOffered(r) /\ NoneAnswered(r) /\ ~Spent(Newest(r))
         /\ \A k \in Earlier(r) : ~Says(sessions[r][k], "Closed")
         /\ r \notin Known => NoneCalled(r)
         /\ sessions[r] # <<>>
<1>1. n = Len(sessions[r]) /\ Newest(r) = sessions[r][n]
  <2>1. n \notin Earlier(r)
    BY DEF Sound, Past, Spent
  <2> QED
    BY <2>1, About DEF Earlier, Newest
<1>2. ~Spent(Newest(r)) /\ sessions[r] # <<>>
  BY <1>1, About DEF Spent
<1>3. ~Over(sessions[r][n])
  <2>1. Regular(r, sessions[r][n], lives[r])
    BY About
  <2> QED
    BY <2>1 DEF Over, Regular
<1>4. ~Free(r) /\ ~Calling(r)
  BY <1>1, <1>3 DEF Free, Calling
<1>5. NoneOffered(r) /\ NoneAnswered(r)
  BY <1>4, NoneImplies DEF Sound
<1>6. (\A k \in Earlier(r) : ~Says(sessions[r][k], "Closed")) /\ (r \notin Known => NoneCalled(r))
  BY <1>2 DEF Sound, Past, NoneCalled
<1> QED
  BY <1>1, <1>2, <1>4, <1>5, <1>6

\* The channel of the newest session opens or ends.
LEMMA BecomesPast ==
  ASSUME PlainInv, NEW r \in Remote, Sound(r), NEW n \in DOMAIN sessions[r],
         sessions[r][n].remote # 0, NEW v, Changed(r, n, v), Becomes(r, n, v)
  PROVE  /\ Past(r)' /\ Newest(r)' = v /\ Earlier(r)' = Earlier(r)
         /\ \A k \in Earlier(r) : sessions'[r][k] = sessions[r][k]
         /\ ((r \in Known)' <=> r \in Known)
<1>1. /\ n = Len(sessions[r]) /\ \A k \in Earlier(r) : ~Says(sessions[r][k], "Closed")
      /\ r \notin Known => NoneCalled(r)
  BY DescribedIs
<1>2. /\ Earlier(r)' = Earlier(r) /\ Newest(r)' = v
      /\ \A k \in Earlier(r) : sessions'[r][k] = sessions[r][k]
  BY <1>1, NewestChanged
<1>3. down' = down /\ peers' = peers
  BY DEF Becomes, main
<1>4. (r \in Known)' <=> r \in Known
  BY <1>3 DEF Known
<1> QED
  BY <1>1, <1>2, <1>3, <1>4 DEF Sound, Past, NoneCalled, Says, Spent

LEMMA BecomesElsewhere ==
  ASSUME PlainInv, PlainInv', NEW r \in Remote, Sound(r), NEW x \in Remote, x # r,
         NEW n, NEW v, Changed(x, n, v), Becomes(x, n, v)
  PROVE  Sound(r)'
<1>1. /\ sessions'[r] = sessions[r] /\ peers' = peers /\ batches' = batches /\ others' = others
      /\ down' = down /\ up' = up /\ link' = link /\ budget' = budget /\ QueuesOK
  BY DEF Changed, Becomes, main, PlainInv, TypeInv
<1> QED
  BY <1>1, ElsewhereSound, FewerAsBefore, AskedAsBefore

LEMMA ChannelEndsSound ==
  ASSUME PlainInv, PlainInv', NEW r \in Remote, Sound(r), NEW x \in Remote,
         NEW n \in DOMAIN sessions[x], ChannelEnds(x, n)
  PROVE  Sound(r)'
<1> DEFINE s == sessions[x][n]
<1>1. PICK v \in Session :
        /\ Changed(x, n, v) /\ Becomes(x, n, v) /\ ~v.heard
        /\ \/ s.state = "open" /\ v.state = "closed"
           \/ s.state = "new" /\ v.state = "failed"
  <2>1. s \in Session /\ Regular(x, s, lives[x])
    BY About
  <2>2. /\ ClosedSession(s) \in Session /\ ~ClosedSession(s).heard /\ ClosedSession(s).state = "closed"
        /\ Unopened(s) \in Session /\ ~Unopened(s).heard /\ Unopened(s).state = "failed"
    BY <2>1, ClosedIs, ClosedSpent, FailedIs DEF Unopened
  <2>3. \/ /\ s.state = "open" /\ Changed(x, n, ClosedSession(s)) /\ Becomes(x, n, ClosedSession(s))
        \/ /\ s.state = "new" /\ Changed(x, n, Unopened(s)) /\ Becomes(x, n, Unopened(s))
    BY EndsIs DEF PlainInv
  <2> HIDE DEF s
  <2> QED
    BY <2>2, <2>3, Zenon
<1>2. s.remote # 0 /\ (s.remote # life[x] \/ s.over)
  BY DEF ChannelEnds
<1>3. CASE x # r
  BY <1>1, <1>3, BecomesElsewhere
<1>4. CASE x = r
  <2>1. Parted(r) /\ Past(r) /\ Met(r) /\ Offered(r) /\ Answered(r) /\ InTouch(r) /\ Labelled(r)
    BY DEF Sound
  <2>2. /\ Newest(r) = s /\ ~Free(r) /\ NoneOffered(r) /\ NoneAnswered(r)
    BY <1>2, <1>4, DescribedIs
  <2>3. ~Touch(r)
    BY <1>2, <1>4, <2>1, <2>2 DEF InTouch, Live
  <2>4. /\ others' = others /\ down' = down /\ batches' = batches /\ link' = link /\ budget' = budget
        /\ QueuesOK /\ QueuesOK' /\ peers' = peers
    BY <1>1 DEF Becomes, PlainInv, TypeInv, main
  <2>5. ~Touch(r)' /\ (Shared(r) <=> Shared(r)') /\ life' = life
    BY <2>3, <2>4 DEF Touch, Shared, others
  <2>6. Fewer(r) /\ FewerBrought(r)
    BY <2>4, FewerAsBefore, FewerIsBrought
  <2>7. Parted(r)' /\ NoneOffered(r)' /\ NoneAnswered(r)'
    BY <2>1, <2>2, <2>4, <2>5, <2>6, PartedKept, NoneKept
  <2>8. \A stay : Allowed(r, stay) <= Allowed(r, stay)'
    BY <2>4, <2>5, AllowedKept
  <2>9. /\ Past(r)' /\ Newest(r)' = v /\ ((r \in Known)' <=> r \in Known)
    BY <1>1, <1>2, <1>4, BecomesPast
  <2>10. Met(r)'
    BY <1>1, <1>4, <2>1, <2>5 DEF Met, Changed
  <2>11. Labelled(r)'
    BY <1>1, <1>4, <2>1, <2>2, <2>4, <2>9 DEF Labelled
  <2> QED
    BY <1>1, <2>4, <2>5, <2>7, <2>8, <2>9, <2>10, <2>11, EndedSound
<1> QED
  BY <1>3, <1>4

LEMMA ChannelOpensSound ==
  ASSUME PlainInv, PlainInv', NEW r \in Remote, Sound(r), NEW x \in Remote,
         NEW n \in DOMAIN sessions[x], ChannelOpens(x, n)
  PROVE  Sound(r)'
<1> DEFINE s == sessions[x][n]
           v == Opened(x, s)
<1>1. Changed(x, n, v) /\ Becomes(x, n, v) /\ s \in Session /\ Regular(x, s, lives[x])
  BY OpensIs, About DEF PlainInv
<1>2. s.state = "new" /\ s.heard /\ life[x] # 0 /\ s.remote = life[x] /\ s.remote # 0
  BY DEF ChannelOpens
<1>3. /\ v.state = "open" /\ v.remote = s.remote /\ v.heard = s.heard /\ v.over = s.over
      /\ v.caller = s.caller
  <2>1. s \in Session
    BY <1>1
  <2> HIDE DEF s
  <2> QED
    BY <2>1, OpenedIs DEF Opened
<1>4. /\ s.remote \in Wanted[x] => Says(v, "WantedName")
      /\ Says(v, "LocalDescription") => Says(s, "LocalDescription")
  <2>1. lives[x] \in Nat
    BY NumbersAre
  <2> QED
    BY <1>1, <1>2, <2>1, OpenedRegular
<1> HIDE DEF v
<1>5. CASE x # r
  BY <1>1, <1>5, BecomesElsewhere
<1>6. CASE x = r
  <2>1. /\ Parted(r) /\ Past(r) /\ Met(r) /\ Offered(r) /\ Answered(r) /\ InTouch(r) /\ Labelled(r)
        /\ Counted(r)
    BY DEF Sound
  <2>2. /\ Newest(r) = s /\ ~Free(r) /\ NoneOffered(r) /\ NoneAnswered(r) /\ n = Len(sessions[r])
    BY <1>2, <1>6, DescribedIs
  <2>4. /\ others' = others /\ down' = down /\ up' = up /\ batches' = batches /\ link' = link
        /\ budget' = budget /\ QueuesOK /\ QueuesOK' /\ peers' = peers
    BY <1>1 DEF Becomes, PlainInv, TypeInv, main
  <2>5. (Touch(r) <=> Touch(r)') /\ (Shared(r) <=> Shared(r)') /\ life' = life
    BY <2>4 DEF Touch, Shared, others
  <2>6. Fewer(r) /\ FewerBrought(r) /\ FewerAsked(r)
    BY <2>4, FewerAsBefore, FewerIsBrought, AskedAsBefore
  <2>7. Parted(r)' /\ NoneOffered(r)' /\ NoneAnswered(r)'
    BY <2>1, <2>2, <2>4, <2>5, <2>6, PartedKept, NoneKept
  <2>8. Offered(r)' /\ Answered(r)'
    BY <2>7, NoneImpliesThen
  <2>9. /\ Past(r)' /\ Newest(r)' = v /\ Earlier(r)' = Earlier(r)
        /\ \A k \in Earlier(r) : sessions'[r][k] = sessions[r][k]
        /\ ((r \in Known)' <=> r \in Known)
    BY <1>1, <1>2, <1>6, BecomesPast
  <2>10. Met(r)'
    BY <1>1, <1>3, <1>6, <2>1, <2>5 DEF Met, Changed
  <2>11. Labelled(r)'
    BY <1>2, <1>3, <1>4, <1>6, <2>1, <2>2, <2>4, <2>9 DEF Labelled
  <2>12. InTouch(r)'
    <3> SUFFICES ASSUME Touch(r)'
                 PROVE  InTouch(r)'
      BY DEF InTouch
    <3>1. /\ Live(r) /\ \A k \in Earlier(r) : Over(sessions[r][k])
          /\ \A i \in DOMAIN down : Signals(down[i], r) => down[i].life = life[r]
      BY <2>1, <2>2, <2>5 DEF InTouch
    <3>2. Len(sessions'[r]) = Len(sessions[r])
      BY <1>1, <1>6 DEF Changed
    <3>3. Asked(r)'
      BY <1>3, <1>4, <2>2, <2>4, <2>6, <2>9, <3>1, <3>2, AskedKept DEF Live
    <3>4. Live(r)'
      <4>1. ~(v.caller /\ Says(v, "LocalDescription"))
        BY <1>2, <1>3, <1>4, <1>6, <2>2, <3>1 DEF Live
      <4> QED
        BY <1>2, <1>3, <1>6, <2>2, <2>4, <2>5, <2>9, <3>1, <3>3, <4>1 DEF Live, Says
    <3> QED
      BY <2>4, <2>5, <2>9, <3>1, <3>4 DEF InTouch, Over
  <2>13. Counted(r)'
    <3>1. \A stay : Allowed(r, stay) <= Allowed(r, stay)'
      BY <2>4, <2>5, AllowedKept
    <3>2. \A stay : Due(r, stay)' => Due(r, stay)
      BY <1>3, <2>2, <2>4, <2>5, <2>9 DEF Due
    <3> QED
      BY <2>1, <2>4, <3>1, <3>2, CountedKept
  <2> QED
    BY <2>7, <2>8, <2>9, <2>10, <2>11, <2>12, <2>13 DEF Sound
<1> QED
  BY <1>5, <1>6

\* This device leaves the server: its sessions with r are as they were, but for who was told.
LEMMA LeftSound ==
  ASSUME PlainInv, PlainInv', NEW r \in Remote, Sound(r), Leave, peers' = peers, life' = life,
         batches' = batches, up' = up, FewerBrought(r), Parted(r)',
         \A stay : Allowed(r, stay) <= Allowed(r, stay)'
  PROVE  Sound(r)'
<1>1. /\ within' = {} /\ Len(sessions'[r]) = Len(sessions[r])
      /\ DOMAIN sessions'[r] = DOMAIN sessions[r]
      /\ \A n \in DOMAIN sessions[r] :
           LET s == sessions[r][n]
               v == sessions'[r][n]
           IN  /\ v.caller = s.caller /\ v.remote = s.remote /\ v.heard = s.heard
               /\ v.state = s.state /\ v.reports = s.reports
               /\ v.over <=> s.over \/ Shared(r)
  BY LeaveIs DEF PlainInv, TypeInv
<1>2. /\ Offered(r) /\ Answered(r) /\ Past(r) /\ Met(r) /\ Counted(r) /\ Labelled(r)
      /\ QueuesOK /\ QueuesOK'
  BY DEF Sound, PlainInv, TypeInv
<1>3. ~Shared(r)' /\ ~Touch(r)'
  BY <1>1 DEF Shared, Touch
<1>4. /\ (r \in Known)' <=> r \in Known
      /\ Earlier(r)' = Earlier(r)
      /\ Earlier(r) \subseteq DOMAIN sessions[r]
      /\ sessions[r] = <<>> => sessions'[r] = <<>>
  <2>1. sessions'[r] \in Seq(Session) /\ sessions[r] \in Seq(Session)
    BY DEF PlainInv, TypeInv, SessionsOK
  <2> QED
    BY <1>1, <2>1 DEF Known, Earlier
<1>5. Len(sessions[r]) \in DOMAIN sessions[r] =>
        /\ Newest(r)'.caller = Newest(r).caller /\ Newest(r)'.remote = Newest(r).remote
        /\ Newest(r)'.heard = Newest(r).heard /\ Newest(r)'.state = Newest(r).state
        /\ Newest(r)'.reports = Newest(r).reports
        /\ (Newest(r)'.over <=> Newest(r).over \/ Shared(r))
  BY <1>1 DEF Newest
<1>6. r \in Known \/ Earlier(r) # {} \/ sessions[r] # <<>> => Len(sessions[r]) \in DOMAIN sessions[r]
  BY About DEF Earlier
<1>7. FewerAsked(r) /\ (Unasked(r) => Unasked(r)')
  BY <1>2, AskedAsBefore, UnaskedKept
<1>8. Offered(r)'
  <2>1. Free(r) => Free(r)'
    BY <1>1, <1>4, <1>7 DEF Free, Over
  <2> QED
    BY <1>2, <2>1, OfferedKept
<1>9. Answered(r)'
  <2>1. Calling(r) => Calling(r)'
    <3>1. Calling(r) => \A n \in Earlier(r)' : Over(sessions'[r][n])
      BY <1>1, <1>4 DEF Calling, Over
    <3>2. Calling(r) =>
            /\ (r \in Known)' /\ Unasked(r)' /\ Newest(r)'.caller /\ Newest(r)'.state = "new"
            /\ Newest(r)'.remote = 0 /\ Newest(r)'.reports = <<>>
      BY <1>4, <1>5, <1>6, <1>7 DEF Calling
    <3> QED
      BY <3>1, <3>2 DEF Calling, Over
  <2>2. CASE Calling(r)
    <3>1. \A stay \in Nat \ {0} : (stay = life[r] /\ ~Newest(r).over => Shared(r)) =>
                                  (stay = life'[r] /\ ~Newest(r)'.over => Shared(r)')
      BY <1>3, <1>5, <1>6, <2>2 DEF Calling
    <3> QED
      BY <1>2, <2>1, <3>1, AnsweredKept
  <2>3. CASE ~Calling(r)
    BY <1>2, <2>3, NoneImplies, NoneKept, NoneImpliesThen
  <2> QED
    BY <2>2, <2>3
<1>10. InTouch(r)'
  BY <1>3 DEF InTouch
<1>11. Past(r)'
  <2>1. \A n \in Earlier(r) : Spent(sessions'[r][n])
    BY <1>1, <1>2, <1>4 DEF Past, Spent
  <2>2. (\E n \in Earlier(r) : Says(sessions'[r][n], "Closed")) =>
           \E n \in Earlier(r) : Says(sessions[r][n], "Closed")
    BY <1>1, <1>4 DEF Says
  <2>3. Len(sessions[r]) \in DOMAIN sessions[r] => (Spent(Newest(r)) => Spent(Newest(r)'))
    BY <1>5 DEF Spent
  <2>4. NoneCalled(r) => NoneCalled(r)'
    BY NoneKept
  <2>5. (\E n \in Earlier(r)' : Says(sessions'[r][n], "Closed")) => Spent(Newest(r)')
    BY <1>2, <1>4, <1>6, <2>2, <2>3 DEF Past
  <2>6. (r \notin Known)' /\ ~NoneCalled(r)' => sessions'[r] = <<>> \/ Spent(Newest(r)')
    BY <1>2, <1>4, <1>6, <2>3, <2>4 DEF Past, NoneCalled
  <2> QED
    BY <1>4, <2>1, <2>5, <2>6 DEF Past, NoneCalled, Spent, Says
<1>12. Met(r)'
  BY <1>1, <1>2 DEF Met
<1>13. Counted(r)'
  <2>1. \A stay : (\E i \in DOMAIN down' : Answers(down'[i], r) /\ down'[i].life = stay) =>
                     \E i \in DOMAIN down : Answers(down[i], r) /\ down[i].life = stay
    BY NoneKept
  <2>2. \A stay : Due(r, stay)' => Due(r, stay)
    BY <1>3, <1>4, <1>5, <1>6, <2>1 DEF Due
  <2> QED
    BY <1>2, <2>2, CountedKept
<1>14. Labelled(r)'
  BY <1>2, <1>4, <1>5, <1>6 DEF Labelled, Says
<1> QED
  BY <1>8, <1>9, <1>10, <1>11, <1>12, <1>13, <1>14 DEF Sound

LEMMA DropSound ==
  ASSUME PlainInv, PlainInv', NEW r \in Remote, Sound(r), Drop
  PROVE  Sound(r)'
<1>1. /\ Leave /\ peers' = peers /\ life' = life /\ batches' = batches /\ up' = up
      /\ Spend("drops")
  BY DEF Drop, main
<1>2. FewerBrought(r)
  BY LostBrought DEF PlainInv
<1>3. Parted(r)'
  <2> DEFINE frame == [type |-> "WaitingToRetry"]
  <2>1. frame \in SignalingEvent /\ ~Brings(frame, r)
    BY SignalingEvents DEF Brings, Calls, Signals
  <2>2. PICK n \in 0..Len(down) : down' = Append(SubSeq(down, 1, n), frame)
    BY DEF Drop
  <2> HIDE DEF frame
  <2>3. QueuesOK /\ down \in Seq(SignalingEvent)
    BY DEF PlainInv, TypeInv, QueuesOK
  <2>4. /\ DOMAIN down' = 1..(n + 1) /\ down'[n + 1] = frame
        /\ \A i \in DOMAIN down' : i # n + 1 => i \in DOMAIN down /\ down'[i] = down[i] /\ i <= n
    BY <2>1, <2>2, <2>3, Lost
  <2>5. ~Touch(r)'
    BY <1>1 DEF Leave, Touch, Shared
  <2>6. ASSUME NEW i \in DOMAIN down', Parts(down'[i], r), NEW j \in DOMAIN down', i < j,
               Brings(down'[j], r)
        PROVE  FALSE
    <3>1. j # n + 1 /\ j <= n
      BY <2>1, <2>4, <2>6
    <3>2. i # n + 1
      BY <2>4, <2>6, <3>1
    <3>3. /\ i \in DOMAIN down /\ Parts(down[i], r) /\ j \in DOMAIN down /\ Brings(down[j], r)
      BY <2>4, <2>6, <3>1, <3>2
    <3> QED
      BY <2>6, <3>3 DEF Sound, Parted
  <2> QED
    BY <2>5, <2>6 DEF Parted
<1>4. \A stay : Allowed(r, stay) <= Allowed(r, stay)'
  <2>1. budget'.drops = budget.drops - 1 /\ budget.drops \in 0..MaxDrops /\ MaxDrops \in Nat
    BY <1>1, SpendType, NumbersAre DEF PlainInv, TypeInv
  <2> QED
    BY <2>1 DEF Allowed
<1> QED
  BY <1>1, <1>2, <1>3, <1>4, LeftSound

LEMMA TaskEndsSound ==
  ASSUME PlainInv, PlainInv', NEW r \in Remote, Sound(r), TaskEnds
  PROVE  Sound(r)'
<1>1. /\ Leave /\ peers' = peers /\ life' = life /\ batches' = batches /\ up' = up
      /\ link' = "ended" /\ (Spend("drops") \/ budget' = budget)
  BY DEF TaskEnds, main
<1>2. Fewer(r) /\ FewerBrought(r)
  BY EndBrought, FewerIsBrought DEF PlainInv
<1>3. Parted(r)'
  <2>1. ~Touch(r)'
    BY <1>1 DEF Leave, Touch, Shared
  <2> QED
    BY <1>2, <2>1, PartedKept DEF PlainInv, TypeInv, Sound
<1>4. \A stay : Allowed(r, stay) <= Allowed(r, stay)'
  <2>1. /\ budget'.drops \in {budget.drops, budget.drops - 1}
        /\ budget.drops \in 0..MaxDrops /\ MaxDrops \in Nat
    BY <1>1, SpendType, NumbersAre DEF PlainInv, TypeInv
  <2> QED
    BY <1>1, <2>1 DEF Allowed
<1> QED
  BY <1>1, <1>2, <1>3, <1>4, LeftSound

\* The description of a session is given to the task.
LEMMA LocalDescriptionSound ==
  ASSUME PlainInv, PlainInv', NEW r \in Remote, Sound(r), NEW x \in Remote,
         NEW n \in DOMAIN sessions[x], HandleLocalDescription(x, n)
  PROVE  Sound(r)'
<1> DEFINE message == [type |-> "Signal", peer |-> x, session |-> n, room |-> room]
<1>1. /\ sessions[x][n].reports # <<>> /\ Changed(x, n, Heeded(sessions[x][n])) /\ x \in Known
      /\ peers' = peers /\ batches' = batches /\ others' = others /\ down' = down
      /\ link' = link /\ budget' = budget /\ QueuesOK /\ QueuesOK'
      /\ Head(sessions[x][n].reports) = "LocalDescription" /\ up' = Append(up, message)
  BY TakenChanges DEF HandleLocalDescription, Reports, PlainInv, TypeInv, main
<1>2. message \in ClientMessage
  <2>1. n \in Nat \ {0}
    BY About
  <2> QED
    BY <2>1, ClientMessages DEF PlainInv, TypeInv, MainOK
<1>3. Fewer(r) /\ FewerBrought(r)
  BY <1>1, FewerAsBefore, FewerIsBrought
<1>4. /\ message.type = "Signal" /\ message.peer = x /\ message.session = n
  OBVIOUS
<1> HIDE DEF message
<1>5. CASE x # r
  <2>1. FewerAsked(r)
    BY <1>1, <1>2, <1>4, <1>5, AskedByAppending DEF Asks
  <2> QED
    BY <1>1, <1>3, <1>5, <2>1, ElsewhereSound DEF Changed
<1>6. CASE x = r
  <2> DEFINE s == sessions[r][n]
             v == Heeded(s)
  <2>1. /\ Parted(r) /\ Past(r) /\ Met(r) /\ Offered(r) /\ Answered(r) /\ InTouch(r) /\ Labelled(r)
        /\ Counted(r)
    BY DEF Sound
  <2>2. ~Free(r) /\ ~Calling(r)
    BY <1>1, <1>6, NotFree DEF Over
  <2>3. NoneOffered(r)' /\ NoneAnswered(r)'
    BY <1>3, <2>1, <2>2, NoneImplies, NoneKept
  <2>4. (Touch(r)' <=> Touch(r)) /\ (Shared(r) <=> Shared(r)') /\ life' = life
    BY <1>1 DEF Touch, Shared, others
  <2>5. Parted(r)'
    BY <1>1, <1>3, <2>1, <2>4, PartedKept
  <2>6. \A stay : Allowed(r, stay) <= Allowed(r, stay)'
    BY <1>1, <2>4, AllowedKept
  <2>7. (r \in Known)' <=> r \in Known
    BY <1>1 DEF Known
  <2>8. Past(r)' /\ Met(r)'
    BY <1>1, <1>6, <2>1, <2>4, <2>7, HeededPast, HeededMet DEF NoneCalled
  <2>9. /\ v.caller = s.caller /\ v.remote = s.remote /\ v.heard = s.heard /\ v.over = s.over
        /\ v.state = s.state /\ ~Says(v, "LocalDescription") /\ Says(s, "LocalDescription")
        /\ Says(s, "WantedName") => Says(v, "WantedName")
    <3>1. s.reports \in Seq(Report) /\ s.reports # <<>>
      BY <1>1, <1>6, About, SessionFields
    <3>2. Says(s, "LocalDescription")
      BY <1>1, <1>6, <3>1 DEF Says
    <3> QED
      BY <1>1, <1>6, <3>2, HeededSpent
  <2>10. Changed(r, n, v) /\ s = sessions[r][n]
    BY <1>1, <1>6
  <2> HIDE DEF v, s
  <2>11. /\ Earlier(r)' = Earlier(r) /\ Newest(r)' = (IF n = Len(sessions[r]) THEN v ELSE Newest(r))
         /\ n = Len(sessions[r]) => n \notin Earlier(r) /\ Newest(r) = s
         /\ n # Len(sessions[r]) => n \in Earlier(r)
         /\ Len(sessions'[r]) = Len(sessions[r])
         /\ \A k \in Earlier(r) : sessions'[r][k] = IF k = n THEN v ELSE sessions[r][k]
    BY <1>6, <2>10, NewestChanged
  <2>12. Labelled(r)'
    BY <1>1, <2>1, <2>7, <2>9, <2>11 DEF Labelled, Says
  <2>13. Counted(r)'
    <3>1. \A stay : ~(\E i \in DOMAIN down' : Answers(down'[i], r) /\ down'[i].life = stay)
      BY <2>3, NoneImpliesThen
    <3>2. Newest(r)'.heard = Newest(r).heard /\ Newest(r)'.remote = Newest(r).remote
      BY <2>9, <2>11
    <3>3. \A stay : Due(r, stay)' => Due(r, stay)
      BY <1>1, <2>4, <2>7, <3>1, <3>2 DEF Due
    <3> QED
      BY <1>1, <2>1, <2>6, <3>3, CountedKept
  <2>14. InTouch(r)'
    <3> SUFFICES ASSUME Touch(r)'
                 PROVE  InTouch(r)'
      BY DEF InTouch
    <3>1. /\ Live(r) /\ \A k \in Earlier(r) : Over(sessions[r][k])
          /\ \A i \in DOMAIN down : Signals(down[i], r) => down[i].life = life[r]
      BY <2>1, <2>2, <2>4 DEF InTouch
    <3>2. n = Len(sessions[r]) /\ Newest(r) = s /\ Newest(r)' = v
      BY <1>1, <1>6, <2>10, <2>11, <3>1 DEF Over
    <3>3. s.caller => s.remote = 0 /\ Unasked(r)
      BY <2>9, <3>1, <3>2 DEF Live
    <3>4. Asked(r)'
      <4>1. /\ DOMAIN up' = DOMAIN up \union {Len(up) + 1} /\ up'[Len(up) + 1] = message
            /\ \A i \in DOMAIN up : up'[i] = up[i] /\ i # Len(up) + 1
        BY <1>1, <1>2, Appended DEF QueuesOK
      <4>2. ASSUME NEW i \in DOMAIN up', Asks(up'[i], r)
            PROVE  /\ up'[i].session = Len(sessions'[r])
                   /\ v.caller => v.remote = 0 /\ ~Says(v, "LocalDescription") /\ i = Len(up) + 1
        <5>1. CASE i = Len(up) + 1
          BY <1>4, <2>9, <2>11, <3>2, <3>3, <4>1, <5>1
        <5>2. CASE i \in DOMAIN up
          <6>1. Asks(up[i], r) /\ up'[i] = up[i] /\ ~Unasked(r)
            BY <4>1, <4>2, <5>2 DEF Unasked
          <6> QED
            BY <2>9, <2>11, <3>1, <3>3, <5>2, <6>1 DEF Live, Asked
        <5> QED
          BY <4>1, <5>1, <5>2
      <4> QED
        BY <3>2, <4>2 DEF Asked, Says
    <3>5. Live(r)'
      BY <2>4, <2>7, <2>9, <3>1, <3>2, <3>4 DEF Live, Says
    <3> QED
      BY <1>1, <1>6, <2>4, <2>11, <3>1, <3>2, <3>5 DEF InTouch, Over
  <2>15. Offered(r)' /\ Answered(r)'
    BY <2>3, NoneImpliesThen
  <2> QED
    BY <2>5, <2>8, <2>12, <2>13, <2>14, <2>15 DEF Sound
<1> QED
  BY <1>5, <1>6

-----------------------------------------------------------------------------
(* What is heard on an open channel.                                       *)

\* The channel of r is open, or its name is known: the files are sent if they are to be.
LEMMA SentSound ==
  ASSUME PlainInv, PlainInv', NEW r \in Remote, Sound(r), NEW n \in DOMAIN sessions[r], r \in Known,
         NEW peer \in Peer, peer.session = peers[r].session, peer.sent = peers[r].sent,
         MaybeSends(r, peer), Changed(r, n, Heeded(sessions[r][n])), sessions[r][n].reports # <<>>,
         Head(sessions[r][n].reports) \in {"Open", "Name", "WantedName"},
         Head(sessions[r][n].reports) = "WantedName" => peer.wanted,
         peer.wanted /\ sessions[r][n].state = "open" =>
           sessions[r][n].remote \in Wanted[r],
         others' = others, down' = down, up' = up, link' = link, budget' = budget
  PROVE  Sound(r)'
<1> DEFINE s == sessions[r][n]
           v == Heeded(s)
<1>1. /\ Parted(r) /\ Past(r) /\ Met(r) /\ Offered(r) /\ Answered(r) /\ InTouch(r) /\ Labelled(r)
      /\ Counted(r) /\ QueuesOK /\ QueuesOK'
  BY DEF Sound, PlainInv, TypeInv
<1>2. ~Free(r) /\ ~Calling(r)
  BY NotFree DEF Over
<1>3. Fewer(r) /\ FewerBrought(r) /\ FewerAsked(r)
  BY <1>1, FewerAsBefore, FewerIsBrought, AskedAsBefore
<1>4. NoneOffered(r)' /\ NoneAnswered(r)'
  BY <1>1, <1>2, <1>3, NoneImplies, NoneKept
<1>5. (Touch(r)' <=> Touch(r)) /\ (Shared(r) <=> Shared(r)') /\ life' = life
  BY DEF Touch, Shared, others
<1>6. Parted(r)'
  BY <1>1, <1>3, <1>5, PartedKept
<1>7. \A stay : Allowed(r, stay) <= Allowed(r, stay)'
  BY <1>5, AllowedKept
<1>8. /\ peers'[r] = Flagged(r, peer) /\ peers'[r] # None /\ (r \in Known)' /\ ((r \in Known)' <=> r \in Known)
      /\ peers'[r].wanted = peer.wanted /\ (peers'[r].sent <=> peers[r].sent \/ peer.wanted)
  <2>1. peers'[r] = Flagged(r, peer)
    BY DEF MaybeSends, PlainInv, TypeInv, PeersOK
  <2>2. Flagged(r, peer) # None
    BY FlaggedIs, NoneAssumption
  <2> QED
    BY <2>1, <2>2, FlaggedIs DEF Known
<1>9. Past(r)' /\ Met(r)'
  BY <1>1, <1>5, <1>8, HeededPast, HeededMet DEF NoneCalled
<1>10. s.reports \in Seq(Report) /\ s.reports # <<>> /\ 1 \in DOMAIN s.reports
       /\ s.reports[1] \in {"Open", "Name", "WantedName"} /\ Head(s.reports) = s.reports[1]
       /\ s \in Session /\ Regular(r, s, lives[r])
  <2>1. s.reports \in Seq(Report) /\ s \in Session /\ Regular(r, s, lives[r])
    BY About, SessionFields
  <2> QED
    BY <2>1, HeadAndTail
<1>11. /\ v.caller = s.caller /\ v.remote = s.remote /\ v.heard = s.heard /\ v.over = s.over
       /\ v.state = s.state /\ ~Says(v, "LocalDescription")
       /\ Says(s, "WantedName") /\ Head(s.reports) # "WantedName" => Says(v, "WantedName")
  BY HeededSpent
<1>12. Changed(r, n, v)
  OBVIOUS
<1>13. Head(s.reports) \in {"Open", "Name", "WantedName"} /\ (Head(s.reports) = "WantedName" => peer.wanted)
       /\ (peer.wanted /\ s.state = "open" => s.remote \in Wanted[r])
  OBVIOUS
<1> HIDE DEF v
<1>14. n = Len(sessions[r]) /\ Newest(r) = s
  <2>1. ~Spent(s)
    BY <1>10 DEF Spent
  <2>2. n \notin Earlier(r)
    BY <1>1, <2>1 DEF Past
  <2> QED
    BY <2>2, About DEF Earlier, Newest
<1> HIDE DEF s
<1>15. /\ Earlier(r)' = Earlier(r) /\ Newest(r)' = v /\ Len(sessions'[r]) = Len(sessions[r])
       /\ \A k \in Earlier(r) : sessions'[r][k] = sessions[r][k]
  BY <1>12, <1>14, NewestChanged
<1>16. s.state \in {"open", "closed"} /\ (s.state = "open" => s.heard /\ s.remote # 0)
  BY <1>10 DEF Regular
<1>17. s.state = "open" => s.remote \in 1..MaxLives[r]
  <2>1. s.remote <= lives[r] /\ s.remote \in Nat
    BY <1>10, SessionFields DEF Regular
  <2> QED
    BY <1>16, <2>1, NumbersAre
<1>18. DOMAIN batches'[r] = 1..MaxLives[r]
       /\ \A stay \in 1..MaxLives[r] :
            batches'[r][stay] = IF ~peers[r].sent /\ peer.wanted /\ s.state = "open" /\ s.remote = stay
                                THEN batches[r][stay] + 1 ELSE batches[r][stay]
  <2>1. sessions[r][peer.session] = s
    BY <1>14, About DEF s
  <2>2. DOMAIN batches[r] = 1..MaxLives[r]
    BY NumbersAre
  <2> QED
    BY <2>1, <2>2 DEF MaybeSends, Sends
<1>19. \A stay \in 1..MaxLives[r] : batches[r][stay] \in Nat /\ Allowed(r, stay) \in Nat
  BY NumbersAre
<1>20. Counted(r)'
  <2>0. \A stay \in 1..MaxLives[r] : Allowed(r, stay)' = Allowed(r, stay)
    BY <1>5 DEF Allowed
  <2>1. \A stay : ~(\E i \in DOMAIN down' : Answers(down'[i], r) /\ down'[i].life = stay)
    BY <1>4, NoneImpliesThen
  <2>2. \A stay : Due(r, stay)' => Due(r, stay) /\ (~peers'[r].sent \/ ~s.heard)
    BY <1>5, <1>8, <1>11, <1>14, <1>15, <2>1 DEF Due
  <2>3. \A stay : ~peers[r].sent /\ s.state = "open" /\ s.remote = stay => Due(r, stay)
    BY <1>14, <1>16 DEF Due
  <2>4. ASSUME NEW stay \in 1..MaxLives[r]
        PROVE  /\ batches'[r][stay] > 0 => stay \in Wanted[r]
               /\ batches'[r][stay] <= Allowed(r, stay)
               /\ Due(r, stay)' => batches'[r][stay] < Allowed(r, stay)
    <3>0. /\ batches[r][stay] > 0 => stay \in Wanted[r]
          /\ batches[r][stay] <= Allowed(r, stay)
          /\ Due(r, stay) => batches[r][stay] < Allowed(r, stay)
          /\ batches[r][stay] \in Nat /\ Allowed(r, stay) \in Nat
      BY <1>1, <1>19 DEF Counted
    <3>1. CASE ~peers[r].sent /\ peer.wanted /\ s.state = "open" /\ s.remote = stay
      <4>1. stay \in Wanted[r] /\ Due(r, stay) /\ batches'[r][stay] = batches[r][stay] + 1
        BY <1>13, <1>18, <2>3, <3>1
      <4>2. ~Due(r, stay)'
        BY <1>8, <1>16, <2>2, <3>1
      <4> QED
        BY <3>0, <4>1, <4>2
    <3>2. CASE ~(~peers[r].sent /\ peer.wanted /\ s.state = "open" /\ s.remote = stay)
      <4>1. batches'[r][stay] = batches[r][stay] /\ (Due(r, stay)' => Due(r, stay))
        BY <1>18, <2>2, <3>2
      <4> QED
        BY <3>0, <4>1
    <3> QED
      BY <3>1, <3>2
  <2> QED
    BY <2>0, <2>4 DEF Counted
<1>21. Labelled(r)'
  <2>1. peers[r].sent /\ s.state = "open" /\ s.remote \in Wanted[r] => batches[r][s.remote] > 0
    BY <1>1, <1>14 DEF Labelled
  <2>2. s.state = "open" /\ s.remote \in Wanted[r] => peers[r].sent \/ Says(s, "WantedName")
    BY <1>1, <1>14 DEF Labelled
  <2>3. s.state = "open" /\ s.remote \in Wanted[r] => peers'[r].sent \/ Says(v, "WantedName")
    BY <1>8, <1>11, <1>13, <2>2
  <2>4. s.state = "open" /\ s.remote \in Wanted[r] /\ peers'[r].sent => batches'[r][s.remote] > 0
    <3> SUFFICES ASSUME NEW stay, stay = s.remote, s.state = "open", stay \in Wanted[r], peers'[r].sent
                 PROVE  batches'[r][stay] > 0
      OBVIOUS
    <3>1. stay \in 1..MaxLives[r] /\ batches[r][stay] \in Nat
      BY <1>17, <1>19
    <3> QED
      BY <1>8, <1>18, <2>1, <3>1
  <2> QED
    BY <1>8, <1>11, <1>13, <1>15, <1>16, <2>3, <2>4 DEF Labelled, Says
<1>22. InTouch(r)'
  <2> SUFFICES ASSUME Touch(r)'
               PROVE  InTouch(r)'
    BY DEF InTouch
  <2>1. /\ Live(r) /\ \A k \in Earlier(r) : Over(sessions[r][k])
        /\ \A i \in DOMAIN down : Signals(down[i], r) => down[i].life = life[r]
    BY <1>1, <1>2, <1>5 DEF InTouch
  <2>2. Asked(r)'
    BY <1>1, <1>3, <1>11, <1>14, <1>15, <2>1, AskedKept DEF Live
  <2>3. Live(r)'
    BY <1>5, <1>8, <1>11, <1>14, <1>15, <2>1, <2>2 DEF Live, Says
  <2> QED
    BY <1>5, <1>15, <2>1, <2>3 DEF InTouch, Over
<1>23. Offered(r)' /\ Answered(r)'
  BY <1>4, NoneImpliesThen
<1> QED
  BY <1>6, <1>9, <1>20, <1>21, <1>22, <1>23 DEF Sound

LEMMA SentElsewhere ==
  ASSUME PlainInv, PlainInv', NEW r \in Remote, Sound(r), NEW x \in Remote, x # r, NEW n, NEW v,
         NEW peer, MaybeSends(x, peer), Changed(x, n, v),
         others' = others, down' = down, up' = up, link' = link, budget' = budget
  PROVE  Sound(r)'
<1>1. sessions'[r] = sessions[r] /\ peers'[r] = peers[r] /\ batches'[r] = batches[r] /\ QueuesOK
  BY DEF Changed, MaybeSends, PlainInv, TypeInv, PeersOK
<1> QED
  BY <1>1, ElsewhereSound, FewerAsBefore, AskedAsBefore

LEMMA OpenSound ==
  ASSUME PlainInv, PlainInv', NEW r \in Remote, Sound(r), NEW x \in Remote,
         NEW n \in DOMAIN sessions[x], HandleOpen(x, n)
  PROVE  Sound(r)'
<1>1. /\ Changed(x, n, Heeded(sessions[x][n])) /\ MaybeSends(x, peers[x]) /\ peers[x] \in Peer
      /\ others' = others /\ down' = down /\ up' = up /\ link' = link /\ budget' = budget
      /\ sessions[x][n].reports # <<>> /\ Head(sessions[x][n].reports) = "Open" /\ x \in Known
  BY OpenIs DEF HandleOpen, Reports, PlainInv
<1>2. CASE x # r
  BY <1>1, <1>2, SentElsewhere
<1>3. CASE x = r
  <2>1. peers[r].wanted /\ sessions[r][n].state = "open" => sessions[r][n].remote \in Wanted[r]
    <3>1. /\ sessions[r][n].reports \in Seq(Report) /\ sessions[r][n].reports # <<>>
      BY <1>1, <1>3, About, SessionFields
    <3>2. 1 \in DOMAIN sessions[r][n].reports /\ sessions[r][n].reports[1] = "Open"
      BY <1>1, <1>3, <3>1, HeadAndTail
    <3>3. n \notin Earlier(r)
      BY <3>2 DEF Sound, Past, Spent
    <3>4. sessions[r][n] = Newest(r)
      BY <1>3, <3>3, About DEF Earlier, Newest
    <3> QED
      BY <1>1, <1>3, <3>4 DEF Sound, Labelled
  <2> QED
    BY <1>1, <1>3, <2>1, SentSound
<1> QED
  BY <1>2, <1>3

LEMMA NameSound ==
  ASSUME PlainInv, PlainInv', NEW r \in Remote, Sound(r), NEW x \in Remote,
         NEW n \in DOMAIN sessions[x], HandleName(x, n)
  PROVE  Sound(r)'
<1>1. /\ Changed(x, n, Heeded(sessions[x][n])) /\ peers[x] \in Peer
      /\ others' = others /\ down' = down /\ up' = up /\ link' = link /\ budget' = budget
      /\ x \in Known
  BY NameIs DEF HandleName, PlainInv
<1>2. PICK name \in {"Name", "WantedName"} : Reports(x, n, name) /\ MaybeSends(x, Named(x, name))
  BY NameIs DEF PlainInv
<1>3. sessions[x][n].reports # <<>> /\ Head(sessions[x][n].reports) = name
  BY <1>2 DEF Reports
<1>4. CASE x # r
  BY <1>1, <1>2, <1>4, SentElsewhere
<1>5. CASE x = r
  <2> DEFINE peer == Named(r, name)
  <2>1. /\ peer \in Peer /\ peer.session = peers[r].session /\ peer.sent = peers[r].sent
        /\ peer.wanted <=> name = "WantedName"
    BY <1>1, <1>5, NamedIs
  <2>2. MaybeSends(r, peer)
    BY <1>2, <1>5
  <2> HIDE DEF peer
  <2>3. peer.wanted /\ sessions[r][n].state = "open" => sessions[r][n].remote \in Wanted[r]
    <3>1. sessions[r][n].reports \in Seq(Report) /\ Regular(r, sessions[r][n], lives[r])
      BY <1>5, About, SessionFields
    <3>2. 1 \in DOMAIN sessions[r][n].reports /\ sessions[r][n].reports[1] = name
      BY <1>3, <1>5, <3>1, HeadAndTail
    <3> QED
      BY <2>1, <3>1, <3>2 DEF Regular
  <2> QED
    BY <1>1, <1>3, <1>5, <2>1, <2>2, <2>3, SentSound
<1> QED
  BY <1>4, <1>5

-----------------------------------------------------------------------------
(* What begins a call, or answers it.                                      *)

\* A session that is built takes the place of the newest.
LEMMA NewestBuilt ==
  ASSUME PlainInv, NEW r \in Remote, NEW v, Built(r, v)
  PROVE  /\ Newest(r)' = v /\ Len(sessions'[r]) = Len(sessions[r]) + 1
         /\ Earlier(r)' = DOMAIN sessions[r] /\ sessions'[r] # <<>>
         /\ \A n \in DOMAIN sessions[r] : sessions'[r][n] = sessions[r][n]
         /\ DOMAIN sessions'[r] = DOMAIN sessions[r] \union {Len(sessions[r]) + 1}
<1>1. /\ DOMAIN sessions[r] = 1..Len(sessions[r]) /\ Len(sessions[r]) \in Nat
  BY About
<1>2. /\ Len(sessions'[r]) = Len(sessions[r]) + 1
      /\ DOMAIN sessions'[r] = DOMAIN sessions[r] \union {Len(sessions[r]) + 1}
      /\ sessions'[r][Len(sessions[r]) + 1] = v
      /\ \A n \in DOMAIN sessions[r] : sessions'[r][n] = sessions[r][n]
  BY DEF Built
<1>3. Earlier(r)' = DOMAIN sessions[r]
  BY <1>1, <1>2 DEF Earlier
<1>4. sessions'[r] # <<>>
  BY <1>1, <1>2
<1> QED
  BY <1>2, <1>3, <1>4 DEF Newest

\* r is called, or calls, when it is free: the session that is built is the call with it.
LEMMA BuiltSound ==
  ASSUME PlainInv, PlainInv', NEW r \in Remote, Sound(r), NEW v, Built(r, v),
         r \notin Known, peers'[r] = NewPeer(r), batches'[r] = batches[r], others' = others,
         up' = up, link' = link, budget' = budget, Fewer(r),
         NoneOffered(r)', NoneAnswered(r)', Touch(r) => Free(r),
         \A n \in DOMAIN sessions[r] : Spent(sessions[r][n]),
         v.state = "new", ~v.heard, ~v.over, ~Says(v, "Closed"), Spent(v) \/ Free(r),
         v.caller => v.remote = 0,
         ~v.caller => v.remote # 0 /\ (Touch(r) => v.remote = life[r])
  PROVE  Sound(r)'
<1>1. /\ Parted(r) /\ Past(r) /\ Met(r) /\ InTouch(r) /\ Counted(r) /\ QueuesOK /\ QueuesOK'
  BY DEF Sound, PlainInv, TypeInv
<1>2. (Touch(r)' <=> Touch(r)) /\ (Shared(r) <=> Shared(r)') /\ life' = life
  BY DEF Touch, Shared, others
<1>3. Parted(r)'
  BY <1>1, <1>2, PartedKept
<1>4. (r \in Known)' /\ ~peers'[r].sent /\ ~peers'[r].wanted
  BY NewPeerType DEF Known, PlainInv, TypeInv
<1>5. /\ Newest(r)' = v /\ Len(sessions'[r]) = Len(sessions[r]) + 1
      /\ Earlier(r)' = DOMAIN sessions[r]
      /\ \A n \in DOMAIN sessions[r] : sessions'[r][n] = sessions[r][n]
      /\ DOMAIN sessions'[r] = DOMAIN sessions[r] \union {Len(sessions[r]) + 1}
      /\ sessions'[r][Len(sessions[r]) + 1] = v
  BY NewestBuilt DEF Built
<1>6. Past(r)'
  <2>1. (\E n \in DOMAIN sessions[r] : Says(sessions[r][n], "Closed")) => Spent(v)
    BY DEF Free, Over, Says
  <2> QED
    BY <1>4, <1>5, <2>1 DEF Past, Spent, Says
<1>7. Met(r)'
  BY <1>1, <1>2, <1>5 DEF Met
<1>8. InTouch(r)'
  <2> SUFFICES ASSUME Touch(r)'
               PROVE  InTouch(r)'
    BY DEF InTouch
  <2>1. Free(r) /\ Touch(r)
    BY <1>2
  <2>2. Unasked(r)' /\ \A n \in DOMAIN sessions[r] : Over(sessions[r][n])
    BY <2>1 DEF Free, Unasked
  <2>3. Asked(r)'
    BY <2>2 DEF Asked, Unasked
  <2>4. Live(r)'
    BY <1>2, <1>4, <1>5, <2>1, <2>2, <2>3 DEF Live
  <2>5. \A i \in DOMAIN down' : ~Signals(down'[i], r)
    BY <1>1, NoneImpliesThen
  <2> QED
    BY <1>5, <2>2, <2>4, <2>5 DEF InTouch, Over
<1>9. Counted(r)'
  <2>1. \A stay : Allowed(r, stay) <= Allowed(r, stay)'
    BY <1>2, AllowedKept
  <2>2. \A stay : ~(\E i \in DOMAIN down' : Answers(down'[i], r) /\ down'[i].life = stay)
    BY NoneImpliesThen
  <2>3. \A stay : Due(r, stay)' => Due(r, stay)
    BY <1>2, <1>5, <2>2 DEF Due
  <2> QED
    BY <1>1, <2>1, <2>3, CountedKept
<1>10. Labelled(r)'
  BY <1>4, <1>5 DEF Labelled
<1>11. Offered(r)' /\ Answered(r)'
  BY NoneImpliesThen
<1> QED
  BY <1>3, <1>6, <1>7, <1>8, <1>9, <1>10, <1>11 DEF Sound

LEMMA PeersSound ==
  ASSUME PlainInv, PlainInv', NEW r \in Remote, Sound(r), HandlePeers
  PROVE  Sound(r)'
<1>1. /\ down \in Seq(SignalingEvent) /\ down # <<>> /\ Head(down).type = "Peers" /\ Handled
      /\ batches' = batches /\ others' = others /\ up' = up /\ link' = link /\ budget' = budget
      /\ QueuesOK /\ QueuesOK'
  BY DEF HandlePeers, Arrives, PlainInv, TypeInv, QueuesOK
<1>2. PICK called \in SUBSET (Head(down).peers \ Known) :
        called \in SUBSET Remote /\ Dials(called)
  BY SomeDialled DEF PlainInv
<1>0. r \in called => Calls(Head(down), r) /\ r \notin Known
  BY <1>1, <1>2 DEF Calls
<1>4. /\ r \in called => Built(r, NewSession(TRUE)) /\ peers'[r] = NewPeer(r)
      /\ r \notin called => sessions'[r] = sessions[r] /\ peers'[r] = peers[r]
  BY <1>2, Dialled DEF PlainInv, TypeInv
<1>5. Fewer(r) /\ FewerBrought(r)
  BY <1>1, FewerByHandling, FewerIsBrought
<1>6. CASE r \notin called
  BY <1>1, <1>4, <1>5, <1>6, ElsewhereSound, AskedAsBefore
<1>7. CASE r \in called
  <2>1. /\ Offered(r) /\ Answered(r) /\ InTouch(r) /\ Past(r)
    BY DEF Sound
  <2>2. Calls(Head(down), r) /\ r \notin Known
    BY <1>0, <1>7
  <2>3. /\ 1 \in DOMAIN down /\ Head(down) = down[1] /\ DOMAIN down = 1..Len(down)
    BY <1>1
  <2>4. NoneOffered(r)
    <3> SUFFICES ASSUME NEW i \in DOMAIN down, Offers(down[i], r)
                 PROVE  FALSE
      BY DEF NoneOffered
    <3>1. i # 1
      BY <1>1, <2>3 DEF Offers, Signals
    <3>2. 1 < i
      BY <2>3, <3>1
    <3> QED
      BY <2>1, <2>2, <2>3, <3>2 DEF Offered, Brings
  <2>5. NoneAnswered(r)
    BY <2>1, <2>2, NoneImplies DEF Calling
  <2>6. NoneOffered(r)' /\ NoneAnswered(r)'
    BY <1>5, <2>4, <2>5, NoneKept
  <2>7. Touch(r) => Free(r)
    BY <2>1, <2>2 DEF InTouch, Live
  <2>8. \A n \in DOMAIN sessions[r] : Spent(sessions[r][n])
    <3>1. sessions[r] = <<>> \/ Spent(Newest(r))
      BY <2>1, <2>2, <2>3 DEF Past
    <3> QED
      BY <2>1, <3>1, About DEF Past, Earlier, Newest
  <2> DEFINE v == NewSession(TRUE)
  <2>9. /\ v.caller /\ v.remote = 0 /\ ~v.heard /\ ~v.over /\ v.state = "new" /\ Spent(v)
        /\ v.reports = <<"LocalDescription">>
    <3>1. lives[r] \in Nat
      BY NumbersAre
    <3> QED
      BY <3>1, NewRegular
  <2>10. Built(r, v) /\ peers'[r] = NewPeer(r)
    BY <1>4, <1>7
  <2> HIDE DEF v
  <2>11. ~Says(v, "Closed")
    BY <2>9 DEF Says
  <2> QED
    BY <1>1, <1>5, <2>2, <2>6, <2>7, <2>8, <2>9, <2>10, <2>11, BuiltSound
<1> QED
  BY <1>6, <1>7

\* What an answer makes of the session that waits for it.
LEMMA AnswerSound ==
  ASSUME PlainInv, PlainInv', NEW r \in Remote, Sound(r), r \in Known, down # <<>>,
         Signals(Head(down), r), Handled,
         Changed(r, peers[r].session, Accept(sessions[r][peers[r].session], Head(down))),
         peers' = peers, batches' = batches, others' = others, up' = up, link' = link,
         budget' = budget
  PROVE  Sound(r)'
<1> DEFINE frame == Head(down)
           s == Newest(r)
           n == Len(sessions[r])
           v == Accept(s, frame)
<1>1. /\ Parted(r) /\ Past(r) /\ Met(r) /\ Offered(r) /\ Answered(r) /\ InTouch(r) /\ Labelled(r)
      /\ Counted(r) /\ QueuesOK /\ QueuesOK' /\ down \in Seq(SignalingEvent)
  BY DEF Sound, PlainInv, TypeInv, QueuesOK
<1>2. /\ 1 \in DOMAIN down /\ frame = down[1] /\ frame \in SignalingEvent /\ frame.type = "Signal"
      /\ frame.peer = r /\ frame.offer \in BOOLEAN /\ frame.life \in Nat \ {0}
  BY <1>1, CarriedDown, HeadAndTail DEF Signals
<1>3. ~frame.offer
  BY <1>1, <1>2 DEF Offered, Free, Offers, Signals
<1>4. /\ Calling(r)
      /\ frame.life = life[r] /\ ~s.over => Shared(r)
      /\ \A j \in DOMAIN down : Answers(down[j], r) => j = 1
  <2>1. Answers(down[1], r)
    BY <1>2, <1>3 DEF Answers, Signals
  <2> QED
    BY <1>1, <1>2, <2>1 DEF Answered
<1>5. n \in DOMAIN sessions[r] /\ s \in Session /\ s = sessions[r][n] /\ peers[r].session = n
  BY About
<1>6. s.caller /\ s.state = "new" /\ s.remote = 0 /\ s.reports = <<>>
  BY <1>4 DEF Calling
<1>7. /\ v.caller = s.caller /\ v.over = s.over /\ v.state = "new" /\ v.remote = frame.life /\ v.heard
      /\ v.reports = <<>>
  <2>1. s.state = "new" /\ s.remote = 0 /\ (s.caller <=> ~frame.offer)
    BY <1>3, <1>6
  <2> SUFFICES ASSUME NEW w, w = Accept(s, frame)
               PROVE  /\ w.caller = s.caller /\ w.over = s.over /\ w.state = "new"
                      /\ w.remote = frame.life /\ w.heard /\ w.reports = <<>>
    BY Zenon
  <2>2. /\ w.caller = s.caller /\ w.over = s.over /\ w.state = s.state
        /\ w.remote = frame.life /\ (w.heard <=> ~frame.offer)
        /\ ~frame.offer => w.reports = s.reports
    BY <1>2, <1>5, <2>1, AcceptIs, Zenon
  <2> QED
    BY <1>3, <1>6, <2>2
<1>8. Changed(r, n, v)
  BY <1>5
<1> HIDE DEF v, s, n
<1>9. /\ Earlier(r)' = Earlier(r) /\ Newest(r)' = v /\ Len(sessions'[r]) = Len(sessions[r])
      /\ \A k \in Earlier(r) : sessions'[r][k] = sessions[r][k]
  BY <1>5, <1>8, NewestChanged DEF n
<1>10. Fewer(r) /\ FewerBrought(r) /\ FewerAsked(r)
  BY <1>1, FewerByHandling, FewerIsBrought, AskedAsBefore
<1>11. NoneOffered(r)' /\ NoneAnswered(r)'
  <2>1. NoneOffered(r)
    BY <1>1, NoneImplies DEF Free
  <2>2. \A i \in DOMAIN down' : i + 1 \in DOMAIN down /\ down'[i] = down[i + 1] /\ i + 1 # 1
    <3>1. \A i \in DOMAIN down' : i + 1 \in DOMAIN down /\ down'[i] = down[i + 1]
      BY <1>1, HeadAndTail DEF Handled
    <3>2. \A i \in DOMAIN down' : i \in Nat \ {0}
      BY <1>1 DEF QueuesOK
    <3> QED
      BY <3>1, <3>2
  <2>3. NoneAnswered(r)'
    BY <1>4, <2>2 DEF NoneAnswered
  <2> QED
    BY <1>10, <2>1, <2>3, NoneKept
<1>12. (Touch(r)' <=> Touch(r)) /\ (Shared(r) <=> Shared(r)') /\ life' = life
       /\ ((r \in Known)' <=> r \in Known)
  BY DEF Touch, Shared, others, Known
<1>13. Parted(r)' /\ Offered(r)' /\ Answered(r)'
  BY <1>1, <1>10, <1>11, <1>12, PartedKept, NoneImpliesThen
<1>14. Past(r)'
  <2>1. \A k \in Earlier(r) : ~Says(sessions[r][k], "Closed")
    BY <1>4 DEF Calling, Over, Says
  <2> QED
    BY <1>1, <1>9, <1>12, <2>1 DEF Past, Spent, Says
<1>15. Met(r)'
  BY <1>1, <1>4, <1>5, <1>7, <1>8, <1>12 DEF Met, Changed
<1>16. InTouch(r)'
  <2> SUFFICES ASSUME Touch(r)'
               PROVE  InTouch(r)'
    BY DEF InTouch
  <2>1. /\ Live(r) /\ frame.life = life[r]
    BY <1>1, <1>2, <1>12 DEF InTouch, Free, Signals
  <2>2. Asked(r)'
    <3>1. Unasked(r)'
      BY <1>4, <1>10, UnaskedKept DEF Calling
    <3> QED
      BY <3>1 DEF Asked, Unasked
  <2>3. ~Says(v, "LocalDescription")
    BY <1>7 DEF Says
  <2>4. Live(r)'
    BY <1>6, <1>7, <1>9, <1>12, <2>1, <2>2, <2>3 DEF Live, Says, s
  <2>5. \A i \in DOMAIN down' : ~Signals(down'[i], r)
    BY <1>1, <1>11, NoneImpliesThen
  <2> QED
    BY <1>4, <1>9, <2>4, <2>5 DEF InTouch, Over, Calling
<1>17. Counted(r)'
  <2>1. \A stay : Allowed(r, stay) <= Allowed(r, stay)'
    BY <1>12, AllowedKept
  <2>2. \A stay : ~(\E i \in DOMAIN down' : Answers(down'[i], r) /\ down'[i].life = stay)
    BY <1>11, NoneImpliesThen
  <2>3. \A stay : Due(r, stay)' => stay = frame.life
    BY <1>7, <1>9, <1>12, <2>2 DEF Due
  <2>4. Due(r, frame.life)
    BY <1>2, <1>3 DEF Due, Answers, Signals
  <2> QED
    BY <1>1, <2>1, <2>3, <2>4, CountedKept
<1>18. Labelled(r)'
  BY <1>1, <1>6, <1>7, <1>9, <1>12 DEF Labelled, s
<1> QED
  BY <1>13, <1>14, <1>15, <1>16, <1>17, <1>18 DEF Sound

LEMMA SignalSound ==
  ASSUME PlainInv, PlainInv', NEW r \in Remote, Sound(r), HandleSignal
  PROVE  Sound(r)'
<1> DEFINE frame == Head(down)
           x == frame.peer
<1>1. /\ down \in Seq(SignalingEvent) /\ down # <<>> /\ Handled
      /\ batches' = batches /\ others' = others /\ up' = up /\ link' = link /\ budget' = budget
      /\ QueuesOK /\ QueuesOK'
  BY DEF HandleSignal, Arrives, PlainInv, TypeInv, QueuesOK
<1>2. x \in Remote /\ frame \in SignalingEvent /\ frame.type = "Signal"
  BY SignalIs DEF PlainInv
<1>3. \/ /\ x \in Known /\ peers' = peers
         /\ Changed(x, peers[x].session, Accept(sessions[x][peers[x].session], frame))
      \/ /\ x \notin Known /\ peers' = [peers EXCEPT ![x] = NewPeer(x)]
         /\ Built(x, Accept(NewSession(FALSE), frame))
         /\ \A y \in Remote : y # x => sessions'[y] = sessions[y]
      \/ x \notin Known /\ UNCHANGED <<sessions, peers>>
  BY SignalIs DEF PlainInv
<1>4. Fewer(r) /\ FewerBrought(r)
  BY <1>1, FewerByHandling, FewerIsBrought
<1>8. CASE UNCHANGED <<sessions, peers>>
  BY <1>1, <1>4, <1>8, ElsewhereSound, AskedAsBefore
<1>5. CASE x # r
  <2>1. sessions'[r] = sessions[r] /\ peers'[r] = peers[r]
    <3> HIDE DEF x, frame
    <3> QED
      BY <1>2, <1>3, <1>5 DEF PlainInv, TypeInv, PeersOK, Changed
  <2> QED
    BY <1>1, <1>4, <2>1, ElsewhereSound, AskedAsBefore
<1>6. CASE x = r /\ x \in Known
  <2>1. Signals(Head(down), r)
    BY <1>2, <1>6 DEF Signals
  <2>2. peers' = peers /\ Changed(r, peers[r].session, Accept(sessions[r][peers[r].session], Head(down)))
    BY <1>3, <1>6
  <2> QED
    BY <1>1, <1>6, <2>1, <2>2, AnswerSound
<1>7. CASE x = r /\ x \notin Known /\ ~UNCHANGED <<sessions, peers>>
  <2>1. /\ Offered(r) /\ Answered(r) /\ InTouch(r) /\ Past(r)
    BY DEF Sound
  <2>2. 1 \in DOMAIN down /\ frame = down[1] /\ DOMAIN down = 1..Len(down)
        /\ \A i \in DOMAIN down' : i \in Nat \ {0} /\ i + 1 \in DOMAIN down /\ down'[i] = down[i + 1]
    BY <1>1 DEF Handled
  <2>3. frame.offer \in BOOLEAN /\ frame.life \in Nat \ {0} /\ Signals(frame, r)
    BY <1>2, <1>7, CarriedDown DEF Signals
  <2>4. NoneAnswered(r)
    BY <1>7, <2>1, NoneImplies DEF Calling
  <2>5. frame.offer
    BY <2>2, <2>3, <2>4 DEF NoneAnswered, Answers
  <2>6. Free(r)
    BY <2>1, <2>2, <2>3, <2>5 DEF Offered, Offers
  <2>7. NoneOffered(r)'
    <3> SUFFICES ASSUME NEW i \in DOMAIN down', Offers(down'[i], r)
                 PROVE  FALSE
      BY DEF NoneOffered
    <3>1. i + 1 \in DOMAIN down /\ Offers(down[i + 1], r) /\ 1 < i + 1
      BY <2>2
    <3> QED
      BY <2>1, <2>2, <2>3, <3>1 DEF Offered, Brings
  <2>8. NoneAnswered(r)'
    BY <1>4, <2>4, NoneKept
  <2>9. \A n \in DOMAIN sessions[r] : Spent(sessions[r][n])
    BY <2>6, OverIsSpent DEF Free
  <2> DEFINE fresh == NewSession(FALSE)
             v == Accept(fresh, frame)
  <2>10. /\ fresh \in Session /\ ~fresh.caller /\ fresh.remote = 0 /\ ~fresh.heard /\ ~fresh.over
         /\ fresh.state = "new" /\ fresh.reports = <<>>
    <3>1. lives[r] \in Nat
      BY NumbersAre
    <3> QED
      BY <3>1, NewRegular, NewSessionType
  <2>11. Built(r, v) /\ peers'[r] = NewPeer(r)
    <3>1. Built(r, v) /\ peers' = [peers EXCEPT ![r] = NewPeer(r)]
      BY <1>3, <1>7
    <3> QED
      BY <3>1 DEF PlainInv, TypeInv, PeersOK
  <2> HIDE DEF fresh
  <2>12. /\ ~v.caller /\ ~v.over /\ v.state = "new" /\ v.remote = frame.life /\ ~v.heard
         /\ v.reports = <<"LocalDescription">>
    <3> SUFFICES ASSUME NEW w, w = Accept(fresh, frame)
                 PROVE  /\ ~w.caller /\ ~w.over /\ w.state = "new" /\ w.remote = frame.life /\ ~w.heard
                        /\ w.reports = <<"LocalDescription">>
      BY Zenon
    <3>1. fresh.state = "new" /\ fresh.remote = 0 /\ (fresh.caller <=> ~frame.offer)
      BY <2>5, <2>10
    <3>2. /\ w.caller = fresh.caller /\ w.over = fresh.over /\ w.state = fresh.state
          /\ w.remote = frame.life /\ (w.heard <=> ~frame.offer)
          /\ frame.offer => w.reports = Append(fresh.reports, "LocalDescription")
      BY <1>2, <2>10, <3>1, AcceptIs, Zenon
    <3> QED
      BY <2>5, <2>10, <3>2
  <2> HIDE DEF v
  <2>13. Touch(r) => v.remote = life[r]
    BY <2>1, <2>2, <2>3, <2>12 DEF InTouch
  <2>14. ~Says(v, "Closed") /\ v.remote # 0
    BY <2>3, <2>12 DEF Says
  <2> QED
    BY <1>1, <1>4, <1>7, <2>6, <2>7, <2>8, <2>9, <2>11, <2>12, <2>13, <2>14, BuiltSound
<1> QED
  BY <1>5, <1>6, <1>7, <1>8

\* Nothing is left of the calls with a device about which nothing is under way.
LEMMA IdleIs ==
  ASSUME PlainInv, NEW r \in Remote, ~UnderWay(r)
  PROVE  /\ Free(r)
         /\ \A i \in DOMAIN down : ~Brings(down[i], r) /\ ~Parts(down[i], r)
         /\ \A n \in DOMAIN sessions[r] : Spent(sessions[r][n]) /\ \A report : ~Says(sessions[r][n], report)
<1>1. \A n \in DOMAIN sessions[r] : Over(sessions[r][n])
  BY DEF UnderWay, Over
<1>2. Unasked(r)
  BY DEF UnderWay, Unasked, Asks
<1>3. \A i \in DOMAIN down : ~Brings(down[i], r) /\ ~Parts(down[i], r)
  BY DEF UnderWay, Brings, Parts, Calls, Signals
<1>4. r \notin Known
  <2> SUFFICES ASSUME r \in Known
               PROVE  FALSE
    OBVIOUS
  <2>1. /\ Len(sessions[r]) \in DOMAIN sessions[r]
        /\ Newest(r).state = "closed" => Says(Newest(r), "Closed")
    BY About
  <2>2. Over(Newest(r)) /\ ~Says(Newest(r), "Closed")
    BY <1>1, <2>1, OverIsSpent DEF Newest
  <2> QED
    BY <2>1, <2>2 DEF Over
<1> QED
  BY <1>1, <1>2, <1>3, <1>4, OverIsSpent DEF Free

\* The frames after one more came.
LEMMA FramesAppended ==
  ASSUME QueuesOK, NEW frame \in SignalingEvent, down' = Append(down, frame)
  PROVE  /\ Len(down) \in Nat /\ down'[Len(down) + 1] = frame
         /\ \A i \in DOMAIN down : down'[i] = down[i] /\ i \in DOMAIN down'
         /\ \A i \in DOMAIN down' :
              /\ i \in Nat
              /\ \/ i \in DOMAIN down /\ i <= Len(down) /\ down'[i] = down[i]
                 \/ i = Len(down) + 1 /\ down'[i] = frame
<1>1. down \in Seq(SignalingEvent)
  BY DEF QueuesOK
<1> QED
  BY <1>1

\* What holds of a device as before.
LEMMA SameKept ==
  ASSUME PlainInv, PlainInv', NEW r \in Remote, sessions'[r] = sessions[r], peers'[r] = peers[r],
         FewerAsked(r)
  PROVE  /\ (r \in Known)' <=> r \in Known
         /\ Newest(r)' = Newest(r) /\ Earlier(r)' = Earlier(r)
         /\ Free(r) => Free(r)'
         /\ Calling(r) => Calling(r)'
         /\ Asked(r) => Asked(r)'
         /\ Live(r) /\ life'[r] = life[r] => Live(r)'
         /\ Unasked(r) => Unasked(r)'
         /\ batches'[r] = batches[r] /\ Labelled(r) => Labelled(r)'
<1>0. QueuesOK'
  BY DEF PlainInv, TypeInv
<1>1. /\ (r \in Known)' <=> r \in Known
      /\ Newest(r)' = Newest(r) /\ Earlier(r)' = Earlier(r)
  BY DEF Known, Newest, Earlier
<1>2. Unasked(r) => Unasked(r)'
  BY UnaskedKept
<1>3. Free(r) => Free(r)'
  BY <1>1, <1>2 DEF Free, Over
<1>4. Calling(r) => Calling(r)'
  BY <1>1, <1>2 DEF Calling, Over
<1>5. Asked(r) => Asked(r)'
  <2>1. Len(sessions'[r]) = Len(sessions[r])
    OBVIOUS
  <2> QED
    BY <1>0, <1>1, <2>1, AskedKept DEF Says
<1>6. Live(r) /\ life'[r] = life[r] => Live(r)'
  BY <1>1, <1>2, <1>5 DEF Live, Says
<1>7. batches'[r] = batches[r] /\ Labelled(r) => Labelled(r)'
  BY <1>1 DEF Labelled, Says
<1> QED
  BY <1>1, <1>2, <1>3, <1>4, <1>5, <1>6, <1>7

\* A device that a room which is joined brings is met again when nothing is left of an
\* earlier call, or is there already.
LEMMA JoinedSound ==
  ASSUME PlainInv, PlainInv', NEW r \in Remote, Sound(r), NEW place \in Room, Joins(place),
         link = "connected", r \in There(place), Shared(r) \/ ~UnderWay(r),
         [type |-> "Peers", room |-> place, peers |-> There(place)] \in SignalingEvent
  PROVE  Sound(r)'
<1> DEFINE frame == [type |-> "Peers", room |-> place, peers |-> There(place)]
<1>1. /\ frame \in SignalingEvent /\ down' = Append(down, frame)
      /\ ~Signals(frame, r) /\ ~Offers(frame, r) /\ ~Answers(frame, r) /\ ~Parts(frame, r)
  BY DEF Joins, Signals, Offers, Answers, Parts
<1>2. /\ sessions' = sessions /\ peers' = peers /\ batches' = batches /\ life' = life
      /\ up' = up /\ link' = link /\ budget' = budget
      /\ within' = within \union {place} /\ QueuesOK /\ QueuesOK'
  BY DEF Joins, main, PlainInv, TypeInv
<1>3. life[r] # 0 /\ place \in RoomsOf[r]
  BY DEF There
<1>4. Shared(r)' /\ Touch(r)'
  BY <1>2, <1>3 DEF Shared, Touch
<1> HIDE DEF frame
<1>5. /\ Len(down) \in Nat
      /\ \A i \in DOMAIN down : down'[i] = down[i]
      /\ \A i \in DOMAIN down' :
              /\ i \in Nat
              /\ \/ i \in DOMAIN down /\ i <= Len(down) /\ down'[i] = down[i]
                 \/ i = Len(down) + 1 /\ down'[i] = frame
  BY <1>1, <1>2, FramesAppended
<1>6. /\ Parted(r) /\ Offered(r) /\ Answered(r) /\ InTouch(r) /\ Past(r) /\ Met(r) /\ Labelled(r)
      /\ Counted(r)
  BY DEF Sound
<1>7. FewerAsked(r)
  BY <1>2, AskedAsBefore
<1>8. /\ (r \in Known)' <=> r \in Known
      /\ Newest(r)' = Newest(r) /\ Earlier(r)' = Earlier(r)
      /\ Free(r) => Free(r)'
      /\ Calling(r) => Calling(r)'
      /\ Live(r) => Live(r)'
      /\ Labelled(r) => Labelled(r)'
  BY <1>2, <1>7, SameKept
<1>9. Shared(r) \/ ~UnderWay(r)
  OBVIOUS
<1>10. /\ Free(r) \/ Live(r)
       /\ \A n \in Earlier(r) : Over(sessions[r][n])
       /\ \A i \in DOMAIN down : Signals(down[i], r) => down[i].life = life[r]
       /\ \A i \in DOMAIN down : ~Parts(down[i], r)
  <2>1. CASE Shared(r)
    BY <1>3, <1>6, <2>1 DEF Touch, InTouch, Parted
  <2>2. CASE ~UnderWay(r)
    BY <2>2, IdleIs DEF Free, Earlier, Brings
  <2> QED
    BY <1>9, <2>1, <2>2
<1>11. Parted(r)'
  BY <1>1, <1>5, <1>10 DEF Parted
<1>12. Offered(r)'
  <2> SUFFICES ASSUME NEW i \in DOMAIN down', Offers(down'[i], r)
               PROVE  Free(r)' /\ \A j \in DOMAIN down' : j < i => ~Brings(down'[j], r)
    BY DEF Offered
  <2>1. i \in DOMAIN down /\ i <= Len(down) /\ Offers(down[i], r)
    BY <1>1, <1>5
  <2>2. Free(r) /\ \A j \in DOMAIN down : j < i => ~Brings(down[j], r)
    BY <1>6, <2>1 DEF Offered
  <2>3. \A j \in DOMAIN down' : j < i => ~Brings(down'[j], r)
    BY <1>5, <2>1, <2>2
  <2> QED
    BY <1>8, <2>2, <2>3
<1>13. Answered(r)'
  <2> SUFFICES ASSUME NEW i \in DOMAIN down', Answers(down'[i], r)
               PROVE  Calling(r)' /\ Shared(r)' /\ \A j \in DOMAIN down' : Answers(down'[j], r) => j = i
    BY DEF Answered
  <2>1. i \in DOMAIN down /\ Answers(down[i], r)
    BY <1>1, <1>5
  <2>2. Calling(r) /\ \A j \in DOMAIN down : Answers(down[j], r) => j = i
    BY <1>6, <2>1 DEF Answered
  <2>3. \A j \in DOMAIN down' : Answers(down'[j], r) => j = i
    BY <1>1, <1>5, <2>2
  <2> QED
    BY <1>4, <1>8, <2>2, <2>3
<1>14. InTouch(r)'
  <2>1. \A i \in DOMAIN down' : Signals(down'[i], r) => down'[i].life = life'[r]
    BY <1>1, <1>2, <1>5, <1>10
  <2> QED
    BY <1>2, <1>8, <1>10, <2>1 DEF InTouch, Over
<1>15. Past(r)'
  <2>1. r \notin Known => sessions[r] = <<>> \/ Spent(Newest(r))
    <3>1. r \notin Known => Free(r)
      BY <1>10 DEF Live
    <3>2. sessions[r] # <<>> => Len(sessions[r]) \in DOMAIN sessions[r]
      BY About
    <3> QED
      BY <3>1, <3>2, OverIsSpent DEF Free, Newest
  <2> QED
    BY <1>2, <1>6, <1>8, <2>1 DEF Past, Spent, Says
<1>16. Met(r)'
  BY <1>4 DEF Met
<1>17. Counted(r)'
  <2>1. \A stay : Allowed(r, stay) <= Allowed(r, stay)'
    BY <1>2, <1>4, AllowedKept
  <2>2. \A stay : (\E i \in DOMAIN down' : Answers(down'[i], r) /\ down'[i].life = stay) =>
                       \E i \in DOMAIN down : Answers(down[i], r) /\ down[i].life = stay
    BY <1>1, <1>5
  <2>3. CASE Shared(r)
    <3>1. Touch(r)
      BY <1>3, <2>3 DEF Touch
    <3>2. \A stay : Due(r, stay)' => Due(r, stay)
      BY <1>2, <1>8, <2>2, <3>1 DEF Due
    <3> QED
      BY <1>2, <1>6, <2>1, <3>2, CountedKept
  <2>4. CASE ~Shared(r)
    <3>1. \A stay \in 1..MaxLives[r] : batches[r][stay] \in Nat /\ Allowed(r, stay) \in Nat
      BY NumbersAre
    <3>2. MaxDrops \in Nat /\ budget.drops \in 0..MaxDrops
      BY NumbersAre
    <3>3. /\ Allowed(r, life[r]) = MaxDrops - budget.drops
          /\ Allowed(r, life[r])' = MaxDrops - budget.drops + 1
      BY <1>2, <1>4, <2>4, <3>2 DEF Allowed
    <3>4. r \notin Known /\ ~(\E i \in DOMAIN down : \E stay : Answers(down[i], r) /\ down[i].life = stay)
      BY <1>9, <2>4, IdleIs DEF Free, Brings, Answers
    <3>5. \A stay : Due(r, stay)' => stay = life[r]
      BY <1>2, <1>8, <2>2, <3>4 DEF Due
    <3>6. ASSUME NEW stay \in 1..MaxLives[r]
          PROVE  /\ batches'[r][stay] > 0 => stay \in Wanted[r]
                 /\ batches'[r][stay] <= Allowed(r, stay)'
                 /\ Due(r, stay)' => batches'[r][stay] < Allowed(r, stay)'
      <4>1. /\ batches[r][stay] > 0 => stay \in Wanted[r]
            /\ batches[r][stay] <= Allowed(r, stay)
        BY <1>6 DEF Counted
      <4>2. Allowed(r, stay) <= Allowed(r, stay)' /\ Allowed(r, stay)' \in Nat
        <5>1. MaxDrops - budget.drops \in Nat
          BY <3>2
        <5> QED
          BY <1>2, <2>1, <5>1 DEF Allowed
      <4>3. CASE stay = life[r]
        BY <1>2, <3>2, <3>3, <4>1, <4>3, <3>1
      <4>4. CASE stay # life[r]
        BY <1>2, <3>1, <3>5, <4>1, <4>2, <4>4
      <4> QED
        BY <4>3, <4>4
    <3> QED
      BY <3>6 DEF Counted
  <2> QED
    BY <2>3, <2>4
<1> QED
  BY <1>6, <1>8, <1>11, <1>12, <1>13, <1>14, <1>15, <1>16, <1>17 DEF Sound

LEMMA JoinsSound ==
  ASSUME PlainInv, PlainInv', NEW r \in Remote, Sound(r), ServerJoins, ~late'
  PROVE  Sound(r)'
<1>1. CASE up # <<>> /\ up' = Tail(up)
           /\ UNCHANGED <<main, sessions, link, down, others, batches, late, budget>>
  BY <1>1, IdleSound
<1>2. ASSUME NEW place \in Room, Joins(place), link = "connected",
             [type |-> "Peers", room |-> place, peers |-> There(place)] \in SignalingEvent
      PROVE  Sound(r)'
  <2>1. CASE r \in There(place)
    <3>1. Shared(r) \/ ~UnderWay(r)
      BY <1>2, <2>1 DEF Joins
    <3> QED
      BY <1>2, <2>1, <3>1, JoinedSound
  <2>2. CASE r \notin There(place)
    <3> DEFINE frame == [type |-> "Peers", room |-> place, peers |-> There(place)]
    <3>1. ~Brings(frame, r) /\ ~Parts(frame, r) /\ frame \in SignalingEvent
      BY <1>2, <2>2 DEF Brings, Parts, Calls, Signals
    <3>2. down' = Append(down, frame) /\ QueuesOK /\ QueuesOK'
      BY <1>2 DEF Joins, PlainInv, TypeInv
    <3> HIDE DEF frame
    <3>3. Fewer(r)
      BY <3>1, <3>2, FewerByAppending
    <3>4. Same(r) /\ up' = up /\ budget' = budget /\ link' = link /\ life' = life
          /\ within' = within \union {place}
      BY <1>2 DEF Joins, Same, main
    <3>5. (Touch(r)' <=> Touch(r)) /\ (Shared(r) => Shared(r)')
      BY <2>2, <3>4 DEF Touch, Shared, There
    <3>6. FewerAsked(r)
      BY <3>2, <3>4, AskedAsBefore
    <3> QED
      BY <3>3, <3>4, <3>5, <3>6, ApartSound DEF Apart
  <2> QED
    BY <2>1, <2>2
<1> QED
  BY <1>1, <1>2, JoinsAre DEF PlainInv

\* A session that waits for an answer, and has told its description, reports nothing more.
LEMMA WaitingReports ==
  ASSUME PlainInv, NEW r \in Remote, NEW s \in Session, Regular(r, s, lives[r]),
         s.state = "new", ~Says(s, "LocalDescription")
  PROVE  s.reports = <<>>
<1>1. s.reports \in Seq(Report)
  BY SessionFields
<1>2. ASSUME NEW i \in DOMAIN s.reports
      PROVE  FALSE
  <2>1. s.reports[i] \in Report
    BY <1>1
  <2>2. s.reports[i] # "LocalDescription"
    BY DEF Says
  <2>3. /\ s.reports[i] \notin {"Open", "Name", "WantedName"}
        /\ s.reports[i] # "Failed" /\ s.reports[i] # "Closed"
    BY DEF Regular
  <2> QED
    BY <2>1, <2>2, <2>3 DEF Report
<1>3. ASSUME NEW q \in Seq(Report), q # <<>>
      PROVE  1 \in DOMAIN q
  BY <1>3
<1> QED
  BY <1>1, <1>2, <1>3

\* What the task hands over about r when r can be reached.
LEMMA AskedHeard ==
  ASSUME PlainInv, NEW r \in Remote, Sound(r), up # <<>>, Asks(Head(up), r), Touch(r), up' = Tail(up)
  PROVE  /\ Live(r) /\ Head(up).session = Len(sessions[r]) /\ Len(sessions[r]) \in DOMAIN sessions[r]
         /\ Newest(r) \in Session /\ Regular(r, Newest(r), lives[r]) /\ r \in Known
         /\ \A n \in Earlier(r) : Over(sessions[r][n])
         /\ \A i \in DOMAIN down : ~Parts(down[i], r) /\ (Signals(down[i], r) => down[i].life = life[r])
         /\ NoneOffered(r) /\ NoneAnswered(r)
         /\ Newest(r).caller =>
              Newest(r).remote = 0 /\ ~Says(Newest(r), "LocalDescription") /\ Unasked(r)'
<1>1. /\ up \in Seq(ClientMessage) /\ Parted(r) /\ Offered(r) /\ Answered(r) /\ InTouch(r)
  BY DEF Sound, PlainInv, TypeInv, QueuesOK
<1>2. /\ 1 \in DOMAIN up /\ Asks(up[1], r) /\ Head(up) = up[1]
      /\ \A i \in DOMAIN up' : i \in Nat \ {0} /\ i + 1 \in DOMAIN up /\ up'[i] = up[i + 1]
  BY <1>1
<1>3. ~Unasked(r)
  BY <1>2 DEF Unasked
<1>4. /\ Live(r) /\ \A n \in Earlier(r) : Over(sessions[r][n])
      /\ \A i \in DOMAIN down : Signals(down[i], r) => down[i].life = life[r]
  BY <1>1, <1>3 DEF InTouch, Free
<1>5. /\ up[1].session = Len(sessions[r]) /\ r \in Known
      /\ Newest(r).caller =>
           /\ Newest(r).remote = 0 /\ ~Says(Newest(r), "LocalDescription")
           /\ \A j \in DOMAIN up : Asks(up[j], r) => j = 1
  BY <1>2, <1>4 DEF Live, Asked
<1>6. NoneOffered(r) /\ NoneAnswered(r)
  BY <1>1, <1>3, NoneImplies DEF Free, Calling
<1>7. \A i \in DOMAIN down : ~Parts(down[i], r)
  BY <1>1 DEF Parted
<1>8. Newest(r).caller => Unasked(r)'
  <2> SUFFICES ASSUME Newest(r).caller, NEW i \in DOMAIN up', Asks(up'[i], r)
               PROVE  FALSE
    BY DEF Unasked
  <2>1. i + 1 \in DOMAIN up /\ Asks(up[i + 1], r) /\ i + 1 # 1
    BY <1>2
  <2> QED
    BY <1>5, <2>1
<1> QED
  BY <1>2, <1>4, <1>5, <1>6, <1>7, <1>8, About

\* r is told and answers.
LEMMA ToldSound ==
  ASSUME PlainInv, PlainInv', NEW r \in Remote, Sound(r), up # <<>>, Asks(Head(up), r), Touch(r),
         up' = Tail(up), Newest(r).caller, sessions' = sessions,
         down' = Append(down, [type |-> "Signal", peer |-> r, life |-> life[r], offer |-> FALSE]),
         peers' = peers, batches' = batches, others' = others, link' = link, budget' = budget
  PROVE  Sound(r)'
<1> DEFINE answer == [type |-> "Signal", peer |-> r, life |-> life[r], offer |-> FALSE]
<1>1. /\ Past(r) /\ Met(r) /\ Labelled(r) /\ Counted(r) /\ QueuesOK /\ QueuesOK'
  BY DEF Sound, PlainInv, TypeInv
<1>2. /\ Live(r) /\ Len(sessions[r]) \in DOMAIN sessions[r] /\ r \in Known
      /\ Newest(r) \in Session /\ Regular(r, Newest(r), lives[r])
      /\ \A n \in Earlier(r) : Over(sessions[r][n])
      /\ \A i \in DOMAIN down : ~Parts(down[i], r) /\ (Signals(down[i], r) => down[i].life = life[r])
      /\ NoneOffered(r) /\ NoneAnswered(r)
      /\ Newest(r).remote = 0 /\ ~Says(Newest(r), "LocalDescription") /\ Unasked(r)'
  BY AskedHeard
<1>3. /\ answer \in SignalingEvent /\ Answers(answer, r) /\ answer.life = life[r]
      /\ ~Offers(answer, r) /\ ~Parts(answer, r) /\ ~Calls(answer, r)
  <2>1. life[r] \in Nat \ {0}
    BY NumbersAre DEF Touch
  <2> QED
    BY <2>1, SignalingEvents DEF Answers, Offers, Parts, Calls, Signals
<1>4. down' = Append(down, answer)
  OBVIOUS
<1> HIDE DEF answer
<1>5. \A i \in DOMAIN down' :
              /\ i \in Nat
              /\ \/ i \in DOMAIN down /\ i <= Len(down) /\ down'[i] = down[i]
                 \/ i = Len(down) + 1 /\ down'[i] = answer
  BY <1>1, <1>3, <1>4, FramesAppended
<1>6. FewerAsked(r)
  BY <1>1, AskedByReading
<1>7. /\ (Touch(r)' <=> Touch(r)) /\ (Shared(r)' <=> Shared(r)) /\ life' = life /\ Shared(r)
  BY DEF Touch, Shared, others
<1>8. /\ (r \in Known)' /\ Newest(r)' = Newest(r) /\ Earlier(r)' = Earlier(r) /\ Live(r)' /\ Labelled(r)'
  BY <1>1, <1>2, <1>6, <1>7, SameKept
<1>9. Newest(r).state = "new" /\ ~Newest(r).heard /\ Newest(r).reports = <<>>
  <2>1. ~Newest(r).heard /\ Newest(r).state \in {"new", "open"}
    BY <1>2 DEF Regular, Live
  <2>2. Newest(r).state = "new"
    BY <1>2, <2>1 DEF Regular
  <2> QED
    BY <1>2, <2>1, <2>2, WaitingReports
<1>10. Calling(r)'
  BY <1>2, <1>8, <1>9 DEF Calling, Over
<1>11. Parted(r)'
  BY <1>2, <1>3, <1>5 DEF Parted
<1>12. Offered(r)'
  BY <1>2, <1>3, <1>5 DEF Offered, NoneOffered
<1>13. Answered(r)'
  BY <1>2, <1>5, <1>7, <1>10 DEF Answered, NoneAnswered
<1>14. InTouch(r)'
  <2>1. \A i \in DOMAIN down' : Signals(down'[i], r) => down'[i].life = life'[r]
    BY <1>2, <1>3, <1>5, <1>7
  <2> QED
    BY <1>2, <1>8, <2>1 DEF InTouch, Over
<1>15. Past(r)'
  BY <1>1, <1>8 DEF Past, Spent, Says
<1>16. Met(r)'
  BY <1>7 DEF Met
<1>17. Counted(r)'
  <2>1. \A stay : Allowed(r, stay) <= Allowed(r, stay)'
    BY <1>7, AllowedKept
  <2>2. \A stay : (\E i \in DOMAIN down' : Answers(down'[i], r) /\ down'[i].life = stay) => stay = life[r]
    BY <1>2, <1>3, <1>5 DEF NoneAnswered
  <2>3. \A stay : Due(r, stay)' => Due(r, stay)
    BY <1>7, <1>8, <1>9, <2>2 DEF Due
  <2> QED
    BY <1>1, <2>1, <2>3, CountedKept
<1> QED
  BY <1>8, <1>11, <1>12, <1>13, <1>14, <1>15, <1>16, <1>17 DEF Sound

\* The answer to r arrives.
LEMMA AnsweringSound ==
  ASSUME PlainInv, PlainInv', NEW r \in Remote, Sound(r), up # <<>>, Asks(Head(up), r), Touch(r),
         up' = Tail(up), ~Newest(r).caller, down' = down,
         Changed(r, Len(sessions[r]), Reaching(r, Newest(r))),
         peers' = peers, batches' = batches, others' = others, link' = link, budget' = budget
  PROVE  Sound(r)'
<1> DEFINE v == Reaching(r, Newest(r))
<1>1. /\ Parted(r) /\ Past(r) /\ Met(r) /\ Labelled(r) /\ Counted(r) /\ QueuesOK /\ QueuesOK'
  BY DEF Sound, PlainInv, TypeInv
<1>2. /\ Live(r) /\ Len(sessions[r]) \in DOMAIN sessions[r] /\ r \in Known
      /\ Newest(r) \in Session /\ Regular(r, Newest(r), lives[r])
      /\ \A n \in Earlier(r) : Over(sessions[r][n])
      /\ \A i \in DOMAIN down : Signals(down[i], r) => down[i].life = life[r]
      /\ NoneOffered(r) /\ NoneAnswered(r)
  BY AskedHeard
<1>3. /\ v.caller = Newest(r).caller /\ v.remote = Newest(r).remote /\ v.over = Newest(r).over
      /\ v.state = Newest(r).state /\ v.reports = Newest(r).reports
      /\ v.heard <=> Newest(r).heard \/ Newest(r).remote = life[r]
  BY <1>2, ReachingIs
<1>4. Newest(r).remote = life[r] /\ Newest(r).state \in {"new", "open"}
  BY <1>2 DEF Live
<1>5. v.heard
  BY <1>3, <1>4
<1>6. Changed(r, Len(sessions[r]), v)
  OBVIOUS
<1> HIDE DEF v
<1>7. /\ Earlier(r)' = Earlier(r) /\ Newest(r)' = v /\ Len(sessions'[r]) = Len(sessions[r])
      /\ \A k \in Earlier(r) : sessions'[r][k] = sessions[r][k]
  <2>1. ASSUME NEW n, n = Len(sessions[r])
        PROVE  /\ Earlier(r)' = Earlier(r) /\ Newest(r)' = v /\ Len(sessions'[r]) = Len(sessions[r])
               /\ \A k \in Earlier(r) : sessions'[r][k] = sessions[r][k]
    <3>1. n \in DOMAIN sessions[r] /\ Changed(r, n, v)
      BY <1>2, <1>6, <2>1
    <3> QED
      BY <2>1, <3>1, NewestChanged
  <2> QED
    BY <2>1, Zenon
<1>8. Fewer(r) /\ FewerBrought(r) /\ FewerAsked(r)
  BY <1>1, FewerAsBefore, FewerIsBrought, AskedByReading
<1>9. /\ (Touch(r)' <=> Touch(r)) /\ (Shared(r)' <=> Shared(r)) /\ life' = life /\ Shared(r)
      /\ (r \in Known)'
  BY <1>2 DEF Touch, Shared, others, Known
<1>10. Parted(r)' /\ NoneOffered(r)' /\ NoneAnswered(r)'
  BY <1>1, <1>2, <1>8, <1>9, PartedKept, NoneKept
<1>11. Asked(r)' /\ Live(r)'
  <2>1. Asked(r)
    BY <1>2 DEF Live
  <2>2. Asked(r)'
    BY <1>1, <1>3, <1>7, <1>8, <2>1, AskedKept
  <2>3. ~Newest(r)'.caller /\ Newest(r)'.remote = life'[r] /\ ~Newest(r)'.over /\ Newest(r)'.remote # 0
        /\ Newest(r)'.state \in {"new", "open"}
    BY <1>2, <1>3, <1>4, <1>7, <1>9 DEF Live, Touch
  <2> QED
    BY <1>9, <2>2, <2>3 DEF Live
<1>12. InTouch(r)'
  <2>1. \A i \in DOMAIN down' : Signals(down'[i], r) => down'[i].life = life'[r]
    BY <1>2, <1>9
  <2> QED
    BY <1>2, <1>7, <1>11, <2>1 DEF InTouch, Over
<1>13. Past(r)'
  <2>1. \A n \in Earlier(r) : ~Says(sessions[r][n], "Closed")
    BY <1>2 DEF Over, Says
  <2> QED
    BY <1>1, <1>7, <1>9, <2>1 DEF Past, Spent, Says
<1>14. Met(r)'
  BY <1>9 DEF Met
<1>15. Counted(r)'
  <2>1. \A stay : Allowed(r, stay) <= Allowed(r, stay)'
    BY <1>9, AllowedKept
  <2>2. \A stay : ~(\E i \in DOMAIN down' : Answers(down'[i], r) /\ down'[i].life = stay)
    BY <1>10, NoneImpliesThen
  <2>3. \A stay : Due(r, stay)' => Due(r, stay)
    BY <1>2, <1>3, <1>4, <1>5, <1>7, <1>9, <2>2 DEF Due
  <2> QED
    BY <1>1, <2>1, <2>3, CountedKept
<1>16. Labelled(r)'
  BY <1>1, <1>3, <1>7, <1>2 DEF Labelled, Says
<1> QED
  BY <1>10, <1>12, <1>13, <1>14, <1>15, <1>16, NoneImpliesThen DEF Sound

LEMMA RelaysSound ==
  ASSUME PlainInv, PlainInv', NEW r \in Remote, Sound(r), ServerRelays
  PROVE  Sound(r)'
<1> DEFINE x == Head(up).peer
           n == Head(up).session
           answer == [type |-> "Signal", peer |-> x, life |-> life[x], offer |-> FALSE]
           reached == life[x] # 0 /\ Head(up).room \in within \intersect RoomsOf[x]
<1>1. /\ x \in Remote /\ up # <<>> /\ up' = Tail(up) /\ Head(up).type = "Signal"
      /\ \/ reached /\ sessions[x][n].caller /\ sessions' = sessions /\ down' = Append(down, answer)
         \/ /\ reached /\ ~sessions[x][n].caller /\ down' = down
            /\ Changed(x, n, Reaching(x, sessions[x][n]))
         \/ sessions' = sessions /\ down' = down
  BY RelaysIs, Zenon DEF PlainInv
<1>2. /\ peers' = peers /\ batches' = batches /\ others' = others /\ link' = link /\ budget' = budget
      /\ QueuesOK /\ QueuesOK'
  BY DEF ServerRelays, main, PlainInv, TypeInv
<1>3. FewerAsked(r) /\ (down' = down => Fewer(r))
  BY <1>1, <1>2, AskedByReading, FewerAsBefore
<1>4. CASE sessions' = sessions /\ down' = down
  BY <1>2, <1>3, <1>4, ElsewhereSound
<1>5. CASE reached /\ x # r
  <2>1. sessions'[r] = sessions[r]
    BY <1>1, <1>5 DEF Changed
  <2>2. Fewer(r)
    <3>1. CASE down' = Append(down, answer)
      <4>1. life[x] \in Nat \ {0}
        BY <1>1, <1>5, NumbersAre
      <4>2. answer \in SignalingEvent /\ ~Brings(answer, r) /\ ~Parts(answer, r)
        BY <1>1, <1>5, <4>1, SignalingEvents DEF Brings, Parts, Calls, Signals
      <4> HIDE DEF answer
      <4> QED
        BY <1>2, <3>1, <4>2, FewerByAppending
    <3> QED
      BY <1>1, <1>3, <3>1
  <2> HIDE DEF x, n, answer, reached
  <2> QED
    BY <1>2, <1>3, <2>1, <2>2, ElsewhereSound
<1>6. CASE reached /\ x = r
  <2>1. Touch(r) /\ Asks(Head(up), r)
    BY <1>1, <1>6 DEF Touch, Shared, Asks
  <2>2. n = Len(sessions[r]) /\ sessions[x][n] = Newest(r)
    BY <1>1, <1>6, <2>1, AskedHeard DEF Newest
  <2>3. \/ /\ Newest(r).caller /\ sessions' = sessions
           /\ down' = Append(down, [type |-> "Signal", peer |-> r, life |-> life[r], offer |-> FALSE])
        \/ /\ ~Newest(r).caller /\ down' = down
           /\ Changed(r, Len(sessions[r]), Reaching(r, Newest(r)))
        \/ sessions' = sessions /\ down' = down
    BY <1>1, <1>6, <2>2
  <2> HIDE DEF x, n, answer, reached
  <2> QED
    BY <1>1, <1>2, <1>4, <2>1, <2>3, ToldSound, AnsweringSound
<1> QED
  <2> HIDE DEF x, n, answer, reached
  <2> QED
    BY <1>1, <1>4, <1>5, <1>6

\* A device that comes when nothing is left of its last stay calls first, and was never sent
\* the files in this one.
LEMMA CameSound ==
  ASSUME PlainInv, PlainInv', NEW r \in Remote, Sound(r), Come(r), ~late'
  PROVE  Sound(r)'
<1> DEFINE offer == [type |-> "Signal", peer |-> r, life |-> lives[r] + 1, offer |-> TRUE]
<1>1. /\ sessions' = sessions /\ peers' = peers /\ batches' = batches /\ within' = within
      /\ up' = up /\ link' = link /\ budget' = budget /\ QueuesOK /\ QueuesOK'
      /\ life[r] = 0 /\ lives[r] < MaxLives[r] /\ ~UnderWay(r)
      /\ IF Shared(r) THEN down' = Append(down, offer) ELSE down' = down
  BY DEF Come, main, PlainInv, TypeInv
<1>2. life'[r] = lives[r] + 1 /\ lives[r] \in Nat /\ MaxLives[r] \in Nat
  BY NumbersAre DEF Come, PlainInv, TypeInv, LivesOK
<1>3. /\ offer \in SignalingEvent /\ ~Calls(offer, r) /\ ~Answers(offer, r) /\ ~Parts(offer, r)
      /\ offer.life = life'[r]
  <2>1. lives[r] + 1 \in Nat \ {0}
    BY <1>2
  <2> QED
    BY <1>2, <2>1, SignalingEvents DEF Calls, Answers, Parts, Signals
<1> HIDE DEF offer
<1>4. /\ Free(r)
      /\ \A i \in DOMAIN down : ~Brings(down[i], r) /\ ~Parts(down[i], r)
      /\ \A n \in DOMAIN sessions[r] : Spent(sessions[r][n]) /\ ~sessions[r][n].heard
                                       /\ \A report : ~Says(sessions[r][n], report)
  BY <1>1, IdleIs, OverIsSpent DEF Free
<1>5. \A i \in DOMAIN down' :
        /\ i \in Nat
        /\ \/ i \in DOMAIN down /\ i <= Len(down) /\ down'[i] = down[i]
           \/ i = Len(down) + 1 /\ down'[i] = offer
  <2>1. CASE down' = Append(down, offer)
    BY <1>1, <1>3, <2>1, FramesAppended
  <2>2. CASE down' = down
    BY <1>1, <2>2 DEF QueuesOK
  <2> QED
    BY <1>1, <2>1, <2>2
<1>6. FewerAsked(r)
  BY <1>1, AskedAsBefore
<1>7. /\ (r \notin Known)' /\ Newest(r)' = Newest(r) /\ Earlier(r)' = Earlier(r) /\ Free(r)'
      /\ (Shared(r)' <=> Shared(r))
  BY <1>1, <1>4, <1>6, SameKept DEF Free, Shared
<1>8. Parted(r)'
  BY <1>3, <1>4, <1>5 DEF Parted
<1>9. \A i \in DOMAIN down' : Brings(down'[i], r) => i = Len(down) + 1 /\ down'[i] = offer
  BY <1>4, <1>5
<1>10. Offered(r)' /\ Answered(r)'
  <2>1. Len(down) \in Nat
    BY <1>1 DEF QueuesOK
  <2>2. NoneAnswered(r)'
    BY <1>3, <1>9 DEF NoneAnswered, Brings, Answers
  <2>3. Offered(r)'
    BY <1>7, <1>9, <2>1 DEF Offered, Brings, Offers
  <2> QED
    BY <2>2, <2>3, NoneImpliesThen
<1>11. InTouch(r)'
  <2>1. \A i \in DOMAIN down' : Signals(down'[i], r) => down'[i].life = life'[r]
    BY <1>3, <1>9 DEF Brings
  <2>2. \A n \in Earlier(r)' : Over(sessions'[r][n])
    BY <1>1, <1>4, <1>7 DEF Free, Earlier
  <2> QED
    BY <1>7, <2>1, <2>2 DEF InTouch, Over
<1>12. Past(r)'
  <2>1. \A i \in DOMAIN down' : ~Calls(down'[i], r)
    BY <1>3, <1>9 DEF Brings
  <2> QED
    BY <1>1, <1>4, <1>7, <2>1 DEF Past, Earlier, Spent, Says
<1>13. Met(r)'
  BY <1>1, <1>4 DEF Met
<1>14. Counted(r)'
  <2>1. Counted(r) /\ Plain(r)
    BY DEF Sound, PlainInv
  <2>2. /\ MaxDrops \in Nat /\ budget.drops \in 0..MaxDrops
        /\ \A stay \in 1..MaxLives[r] : batches[r][stay] \in Nat /\ stay \in Nat \ {0}
    BY NumbersAre
  <2> SUFFICES ASSUME NEW stay \in 1..MaxLives[r]
               PROVE  /\ batches[r][stay] > 0 => stay \in Wanted[r]
                      /\ batches[r][stay] <= Allowed(r, stay)'
                      /\ Due(r, stay)' => batches[r][stay] < Allowed(r, stay)'
    BY <1>1 DEF Counted
  <2>3. /\ batches[r][stay] > 0 => stay \in Wanted[r]
        /\ batches[r][stay] <= Allowed(r, stay) /\ Allowed(r, stay) = MaxDrops - budget.drops + 1
    BY <1>1, <2>1, <2>2 DEF Counted, Allowed
  <2>4. Allowed(r, stay)' =
          MaxDrops - budget.drops + IF stay # life'[r] \/ Shared(r)' \/ link' = "ended" THEN 1 ELSE 0
    BY <1>1 DEF Allowed
  <2>5. stay = life'[r] => batches[r][stay] = 0
    <3>1. batches[r][stay] > 0 => stay <= lives[r]
      BY <2>1 DEF Plain
    <3> QED
      BY <1>2, <2>2, <3>1
  <2>6. ~(\E i \in DOMAIN down' : Answers(down'[i], r) /\ down'[i].life = stay)
    BY <1>3, <1>9 DEF Brings, Answers
  <2>7. Due(r, stay)' => stay = life'[r] /\ Shared(r)'
    BY <1>7, <2>6 DEF Due, Touch
  <2> QED
    BY <2>2, <2>3, <2>4, <2>5, <2>7
<1>15. Labelled(r)'
  BY <1>7 DEF Labelled
<1> QED
  BY <1>8, <1>10, <1>11, <1>12, <1>13, <1>14, <1>15 DEF Sound

LEMMA WentSound ==
  ASSUME PlainInv, PlainInv', NEW r \in Remote, Sound(r), Go(r)
  PROVE  Sound(r)'
<1> DEFINE frame == [type |-> "PeerLeft", peer |-> r]
<1>1. /\ sessions' = sessions /\ peers' = peers /\ batches' = batches /\ within' = within
      /\ up' = up /\ link' = link /\ budget' = budget /\ QueuesOK /\ QueuesOK'
      /\ down' = Append(down, frame) \/ down' = down
  BY DEF Go, main, PlainInv, TypeInv
<1>2. life'[r] = 0 /\ ~Touch(r)' /\ (Shared(r)' <=> Shared(r))
  BY <1>1 DEF Go, PlainInv, TypeInv, LivesOK, Touch, Shared
<1>3. frame \in SignalingEvent /\ ~Brings(frame, r)
  BY SignalingEvents DEF Brings, Calls, Signals
<1> HIDE DEF frame
<1>4. \A i \in DOMAIN down' :
        /\ i \in Nat
        /\ \/ i \in DOMAIN down /\ i <= Len(down) /\ down'[i] = down[i]
           \/ i = Len(down) + 1 /\ down'[i] = frame
  <2>1. CASE down' = Append(down, frame)
    BY <1>1, <1>3, <2>1, FramesAppended
  <2>2. CASE down' = down
    BY <1>1, <2>2 DEF QueuesOK
  <2> QED
    BY <1>1, <2>1, <2>2
<1>5. /\ Parted(r) /\ Offered(r) /\ Answered(r) /\ Past(r) /\ Met(r) /\ Counted(r) /\ Labelled(r)
  BY DEF Sound
<1>6. FewerAsked(r) /\ FewerBrought(r)
  <2>1. \A i \in DOMAIN down' : Brings(down'[i], r) => i + 0 \in DOMAIN down /\ down'[i] = down[i + 0]
    BY <1>3, <1>4
  <2> QED
    BY <1>1, <2>1, AskedAsBefore DEF FewerBrought
<1>7. /\ (r \in Known)' <=> r \in Known
      /\ Newest(r)' = Newest(r) /\ Earlier(r)' = Earlier(r)
      /\ Free(r) => Free(r)'
      /\ Calling(r) => Calling(r)'
      /\ Labelled(r)'
  BY <1>1, <1>5, <1>6, SameKept
<1>8. Parted(r)'
  <2> SUFFICES ASSUME NEW i \in DOMAIN down', Parts(down'[i], r)
               PROVE  \A j \in DOMAIN down' : i < j => ~Brings(down'[j], r)
    BY <1>2 DEF Parted
  <2>1. Len(down) \in Nat
    BY <1>1 DEF QueuesOK
  <2>2. CASE i \in DOMAIN down /\ down'[i] = down[i]
    <3>1. \A j \in DOMAIN down : i < j => ~Brings(down[j], r)
      BY <1>5, <2>2 DEF Parted
    <3> QED
      BY <1>3, <1>4, <3>1
  <2>3. CASE i = Len(down) + 1
    BY <1>4, <2>1, <2>3
  <2> QED
    BY <1>4, <2>2, <2>3
<1>9. Offered(r)'
  BY <1>1, <1>5, <1>6, <1>7, OfferedKept
<1>10. Answered(r)'
  <2>1. \A stay \in Nat \ {0} : (stay = life[r] /\ ~Newest(r).over => Shared(r)) =>
                                 (stay = life'[r] /\ ~Newest(r)'.over => Shared(r)')
    BY <1>2
  <2> QED
    BY <1>1, <1>5, <1>6, <1>7, <2>1, AnsweredKept
<1>11. InTouch(r)'
  BY <1>2 DEF InTouch
<1>12. Past(r)'
  <2>1. NoneCalled(r) => NoneCalled(r)'
    BY <1>6, NoneKept
  <2> QED
    BY <1>1, <1>5, <1>7, <2>1 DEF Past, Spent, Says, NoneCalled
<1>13. Met(r)'
  <2>1. \A n \in DOMAIN sessions[r] : sessions[r][n].heard => sessions[r][n].remote # 0
    BY About DEF Regular
  <2> QED
    BY <1>1, <1>2, <2>1 DEF Met
<1>14. Counted(r)'
  <2>1. MaxDrops \in Nat /\ budget.drops \in 0..MaxDrops
        /\ \A stay \in 1..MaxLives[r] : stay \in Nat \ {0}
    BY NumbersAre
  <2>2. \A stay \in 1..MaxLives[r] : Allowed(r, stay) <= Allowed(r, stay)'
    BY <1>1, <1>2, <2>1 DEF Allowed
  <2>3. \A stay : (\E i \in DOMAIN down' : Answers(down'[i], r) /\ down'[i].life = stay) =>
                       \E i \in DOMAIN down : Answers(down[i], r) /\ down[i].life = stay
    BY <1>6, NoneKept
  <2>4. \A stay : Due(r, stay)' => Due(r, stay)
    BY <1>1, <1>2, <1>7, <2>3 DEF Due
  <2> QED
    BY <1>1, <1>5, <2>2, <2>4, CountedKept
<1> QED
  BY <1>7, <1>8, <1>9, <1>10, <1>11, <1>12, <1>13, <1>14 DEF Sound

LEMMA ComeGoSound ==
  ASSUME PlainInv, PlainInv', NEW r \in Remote, Sound(r), NEW x \in Remote,
         (Come(x) /\ ~late') \/ Go(x)
  PROVE  Sound(r)'
<1>1. CASE x = r
  BY <1>1, CameSound, WentSound
<1>2. CASE x # r
  <2> DEFINE offer == [type |-> "Signal", peer |-> x, life |-> lives[x] + 1, offer |-> TRUE]
             frame == [type |-> "PeerLeft", peer |-> x]
  <2>1. /\ sessions' = sessions /\ peers' = peers /\ batches' = batches /\ within' = within
        /\ up' = up /\ link' = link /\ budget' = budget /\ QueuesOK
        /\ down' = Append(down, offer) \/ down' = Append(down, frame) \/ down' = down
    BY DEF Come, Go, main, PlainInv, TypeInv
  <2>2. life'[r] = life[r] /\ lives'[r] = lives[r]
    BY <1>2 DEF Come, Go, PlainInv, TypeInv, LivesOK
  <2>3. /\ offer \in SignalingEvent /\ ~Brings(offer, r) /\ ~Parts(offer, r)
        /\ frame \in SignalingEvent /\ ~Brings(frame, r) /\ ~Parts(frame, r)
    <3>1. lives[x] + 1 \in Nat \ {0}
      BY NumbersAre
    <3> QED
      BY <1>2, <3>1, SignalingEvents DEF Brings, Parts, Calls, Signals
  <2> HIDE DEF offer, frame
  <2>4. Fewer(r) /\ FewerAsked(r)
    BY <2>1, <2>3, FewerByAppending, FewerAsBefore, AskedAsBefore
  <2>5. (Touch(r)' <=> Touch(r)) /\ (Shared(r)' <=> Shared(r))
    BY <2>1, <2>2 DEF Touch, Shared
  <2>6. Same(r)
    BY <2>1, <2>2 DEF Same
  <2> QED
    BY <2>1, <2>4, <2>5, <2>6, ApartSound DEF Apart
<1> QED
  BY <1>1, <1>2

-----------------------------------------------------------------------------
(* Together.                                                               *)

\* The loop has no invariant to keep once it has ended, nor after two calls overlapped.
SoundInv == running /\ ~late => \A r \in Remote : Sound(r)
FilesInv == PlainInv /\ SoundInv /\ FilesGoWhereWanted

LEMMA InitSound == Init => PlainInv /\ SoundInv
<1> SUFFICES ASSUME Init
             PROVE  PlainInv /\ SoundInv
  OBVIOUS
<1>1. TypeInv
  BY InitType
<1>2. /\ down = <<>> /\ DOMAIN down = {} /\ within = {} /\ Known = {} /\ budget.drops = MaxDrops
      /\ up = <<>>
  BY DEF Init, Known
<1>3. ASSUME NEW r \in Remote
      PROVE  /\ sessions[r] = <<>> /\ DOMAIN sessions[r] = {} /\ r \notin Known /\ ~Shared(r)
             /\ \A stay \in 1..MaxLives[r] : batches[r][stay] = 0
  BY <1>2 DEF Init, Shared
<1>4. ASSUME NEW r \in Remote
      PROVE  Plain(r)
  BY <1>2, <1>3 DEF Plain
<1>5. PlainInv
  BY <1>1, <1>4 DEF PlainInv
<1>6. ASSUME NEW r \in Remote
      PROVE  Sound(r)
  <2>1. Parted(r) /\ Offered(r) /\ Answered(r) /\ Labelled(r)
    BY <1>2, <1>3 DEF Parted, Offered, Answered, Labelled
  <2>2. InTouch(r) /\ Met(r)
    BY <1>3 DEF InTouch, Met, Touch
  <2>3. Past(r)
    BY <1>2, <1>3 DEF Past, Earlier
  <2>4. Counted(r)
    <3>1. \A stay \in 1..MaxLives[r] : Allowed(r, stay) \in Nat
      BY <1>5, NumbersAre
    <3>2. \A stay : ~Due(r, stay)
      BY <1>2, <1>3 DEF Due, Touch
    <3> QED
      BY <1>3, <3>1, <3>2 DEF Counted
  <2> QED
    BY <2>1, <2>2, <2>3, <2>4 DEF Sound
<1> QED
  BY <1>5, <1>6 DEF SoundInv

LEMMA LateStays == [Next]_vars /\ late' # TRUE => late # TRUE
<1> SUFFICES ASSUME [Next]_vars, late' # TRUE
             PROVE  late # TRUE
  OBVIOUS
<1>1. CASE UNCHANGED vars
  BY <1>1 DEF vars
<1>2. CASE HandleSignaling
  BY <1>2 DEF HandleSignaling, HandleWaitingToRetry, HandleClosed, HandleIdentity, HandlePaired,
     HandlePeers, HandlePeerLeft, HandleSignal
<1>3. CASE HandleRtcEvent
  BY <1>3 DEF HandleRtcEvent, HandleUnknown, HandleLocalDescription, HandleOpen, HandleName, HandleGone
<1>4. CASE Task \/ ServerRelays \/ Interrupt \/ Drop
  BY <1>4 DEF Task, Connect, Retry, TaskEnds, ServerRelays, Interrupt, Drop
<1>5. CASE ServerJoins
  BY <1>5 DEF ServerJoins
<1>6. CASE Channel
  BY <1>6 DEF Channel, ChannelOpens, ChannelEnds, Becomes
<1>7. CASE \E r \in Remote : Come(r) \/ Go(r) \/ Pair(r)
  BY <1>7 DEF Come, Go, Pair
<1> QED
  BY <1>1, <1>2, <1>3, <1>4, <1>5, <1>6, <1>7 DEF Next, Main, Server, Environment

LEMMA StepSound ==
  ASSUME PlainInv, PlainInv', NEW r \in Remote, Sound(r), [Next]_vars, running', ~late'
  PROVE  Sound(r)'
<1>1. CASE \/ HandleIdentity \/ HandlePaired \/ Interrupt \/ Connect \/ Retry \/ UNCHANGED vars
           \/ \E x \in Remote : Pair(x)
  BY <1>1, IdleSound
<1>2. CASE HandleSignaling
  <2>1. ~HandleClosed
    BY DEF HandleClosed
  <2> QED
    BY <1>1, <1>2, <2>1, WaitingToRetrySound, PeersSound, PeerLeftSound, SignalSound
       DEF HandleSignaling
<1>3. CASE HandleRtcEvent
  <2>1. PICK x \in Remote : \E n \in DOMAIN sessions[x] :
          \/ HandleUnknown(x, n) \/ HandleLocalDescription(x, n) \/ HandleOpen(x, n)
          \/ HandleName(x, n) \/ HandleGone(x, n)
    BY <1>3 DEF HandleRtcEvent
  <2> QED
    BY <2>1, UnknownSound, LocalDescriptionSound, OpenSound, NameSound, GoneSound
<1>4. CASE Drop \/ TaskEnds
  BY <1>4, DropSound, TaskEndsSound
<1>5. CASE Server
  BY <1>5, JoinsSound, RelaysSound DEF Server
<1>6. CASE \E x \in Remote : Come(x) \/ Go(x)
  BY <1>6, ComeGoSound
<1>7. CASE Channel
  BY <1>7, ChannelOpensSound, ChannelEndsSound DEF Channel
<1> QED
  BY <1>1, <1>2, <1>3, <1>4, <1>5, <1>6, <1>7 DEF Next, Main, Task, Environment

\* While the loop runs the files go where they are wanted.
LEMMA SoundSends == PlainInv /\ (\A r \in Remote : Sound(r)) => SentPerConnection /\ WantedAreSent
<1> SUFFICES ASSUME PlainInv, \A r \in Remote : Sound(r)
             PROVE  SentPerConnection /\ WantedAreSent
  OBVIOUS
<1>1. SentPerConnection
  <2> SUFFICES ASSUME NEW r \in Remote, NEW stay \in DOMAIN batches[r]
               PROVE  /\ batches[r][stay] > 0 => stay \in Wanted[r]
                      /\ batches[r][stay] <= 1 + (MaxDrops - budget.drops)
    BY DEF SentPerConnection
  <2>1. /\ DOMAIN batches[r] = 1..MaxLives[r] /\ batches[r][stay] \in Nat
        /\ MaxDrops \in Nat /\ budget.drops \in 0..MaxDrops
    BY NumbersAre
  <2>2. /\ batches[r][stay] > 0 => stay \in Wanted[r]
        /\ batches[r][stay] <= Allowed(r, stay)
    BY <2>1 DEF Sound, Counted
  <2>3. Allowed(r, stay) <= 1 + (MaxDrops - budget.drops) /\ Allowed(r, stay) \in Nat
    BY <2>1 DEF Allowed
  <2> QED
    BY <2>1, <2>2, <2>3
<1>2. WantedAreSent
  <2> SUFFICES ASSUME NEW r \in Known, sessions[r][peers[r].session].state = "open",
                      sessions[r][peers[r].session].remote \in Wanted[r]
               PROVE  /\ peers[r].sent => batches[r][sessions[r][peers[r].session].remote] > 0
                      /\ Quiet => peers[r].sent
    BY DEF WantedAreSent
  <2>1. r \in Remote
    BY DEF Known
  <2>2. /\ sessions[r][peers[r].session] = Newest(r) /\ Len(sessions[r]) \in DOMAIN sessions[r]
    BY <2>1, About
  <2>3. /\ peers[r].sent \/ Says(Newest(r), "WantedName")
        /\ peers[r].sent => batches[r][Newest(r).remote] > 0
    BY <2>1, <2>2 DEF Sound, Labelled
  <2>4. Quiet => ~Says(Newest(r), "WantedName")
    BY <2>1, <2>2 DEF Quiet, Says, Newest
  <2> QED
    BY <2>2, <2>3, <2>4
<1> QED
  BY <1>1, <1>2

LEMMA InitFiles == Init => FilesGoWhereWanted
<1> SUFFICES ASSUME Init
             PROVE  FilesGoWhereWanted
  OBVIOUS
<1>1. PlainInv /\ \A r \in Remote : Sound(r)
  BY InitSound DEF SoundInv, Init
<1> QED
  BY <1>1, SoundSends DEF FilesGoWhereWanted

\* Only HandleClosed ends the loop.
LEMMA RunsOn == running /\ Next => running' \/ HandleClosed
<1> SUFFICES ASSUME running, Next
             PROVE  running' \/ HandleClosed
  OBVIOUS
<1>2. CASE HandleSignaling
  BY <1>2 DEF HandleSignaling, HandleWaitingToRetry, HandleIdentity, HandlePaired,
     HandlePeers, HandlePeerLeft, HandleSignal
<1>3. CASE HandleRtcEvent
  BY <1>3 DEF HandleRtcEvent, HandleUnknown, HandleLocalDescription, HandleOpen, HandleName,
     HandleGone, main
<1>4. CASE Task \/ ServerRelays \/ Interrupt \/ Drop
  BY <1>4 DEF Task, Connect, Retry, TaskEnds, ServerRelays, Interrupt, Drop, main
<1>5. CASE ServerJoins
  BY <1>5 DEF ServerJoins, main
<1>6. CASE Channel
  BY <1>6 DEF Channel, ChannelOpens, ChannelEnds, Becomes, main
<1>7. CASE \E r \in Remote : Come(r) \/ Go(r) \/ Pair(r)
  BY <1>7 DEF Come, Go, Pair, main
<1> QED
  BY <1>2, <1>3, <1>4, <1>5, <1>6, <1>7 DEF Next, Main, Server, Environment

LEMMA ClosedSends ==
  ASSUME PlainInv, PlainInv', HandleClosed, SentPerConnection
  PROVE  (SentPerConnection /\ WantedAreSent)'
<1>1. SentPerConnection'
  BY DEF SentPerConnection, HandleClosed
<1>2. WantedAreSent'
  <2> SUFFICES ASSUME NEW r, (r \in Known)'
               PROVE  sessions'[r][peers'[r].session].state # "open"
    BY DEF WantedAreSent
  <2>1. r \in Remote
    BY DEF Known
  <2>2. Newest(r)'.state = "closed" /\ Plain(r)'
    BY <2>1, ClosedPlain DEF PlainInv
  <2>3. sessions'[r][peers'[r].session] = Newest(r)'
    BY <2>2 DEF Plain, Newest
  <2> QED
    BY <2>2, <2>3
<1> QED
  BY <1>1, <1>2

LEMMA StepFiles == FilesInv /\ [Next]_vars => FilesInv'
<1> SUFFICES ASSUME FilesInv, [Next]_vars
             PROVE  FilesInv'
  OBVIOUS
<1>1. PlainInv /\ SoundInv /\ FilesGoWhereWanted /\ PlainInv'
  BY StepPlain DEF FilesInv
<1>2. late \in BOOLEAN /\ late' \in BOOLEAN /\ running \in BOOLEAN /\ running' \in BOOLEAN
  BY <1>1 DEF PlainInv, TypeInv, BoundsOK, MainOK
<1>3. ~late' => ~late
  BY <1>2, LateStays
<1>4. running \/ UNCHANGED vars
  BY DEF Next
<1>5. running' => running
  BY <1>4 DEF vars, main
<1>6. SoundInv'
  <2> SUFFICES ASSUME running', ~late', NEW r \in Remote
               PROVE  Sound(r)'
    BY DEF SoundInv
  <2>1. Sound(r)
    BY <1>1, <1>3, <1>5 DEF SoundInv
  <2> QED
    BY <1>1, <2>1, StepSound
<1>7. FilesGoWhereWanted'
  <2> SUFFICES ASSUME ~late'
               PROVE  (SentPerConnection /\ WantedAreSent)'
    BY DEF FilesGoWhereWanted
  <2>1. SentPerConnection /\ WantedAreSent
    BY <1>1, <1>3 DEF FilesGoWhereWanted
  <2>2. CASE running'
    <3>1. (\A r \in Remote : Sound(r))'
      BY <1>6, <2>2 DEF SoundInv
    <3>2. (PlainInv /\ (\A r \in Remote : Sound(r)) => SentPerConnection /\ WantedAreSent)'
      BY SoundSends, PTL
    <3> QED
      BY <1>1, <3>1, <3>2
  <2>3. CASE HandleClosed
    BY <1>1, <2>1, <2>3, ClosedSends
  <2>4. CASE UNCHANGED vars
    BY <2>1, <2>4 DEF SentPerConnection, WantedAreSent, Quiet, Known, vars, main
  <2>5. running' \/ HandleClosed \/ UNCHANGED vars
    BY <1>4, RunsOn
  <2> QED
    BY <2>2, <2>3, <2>4, <2>5
<1> QED
  BY <1>1, <1>6, <1>7 DEF FilesInv

\* In each stay of a device the files go to it only if --to names it, and at most once on
\* each connection; and the flag that maybe_send sets is set for a device with an open
\* channel just when they went to it: at the latest when all that was reported is handled.
THEOREM FilesGoWhereWantedAlways == Spec => []FilesGoWhereWanted
<1>1. Init => FilesInv
  BY InitSound, InitFiles DEF FilesInv
<1>2. FilesInv => FilesGoWhereWanted
  BY DEF FilesInv
<1> QED
  BY <1>1, <1>2, StepFiles, PTL DEF Spec

\* Once all that was reported is handled, a device with an open channel that is still there
\* is in the list of the loop with the session of that channel.
THEOREM QuietMeansListedAlways == Spec => []QuietMeansListed
<1>1. Init => FilesInv
  BY InitSound, InitFiles DEF FilesInv
<1>2. FilesInv => QuietMeansListed
  <2> SUFFICES ASSUME FilesInv, Quiet, ~late, NEW r \in Remote, NEW n \in DOMAIN sessions[r],
                      sessions[r][n].state = "open", sessions[r][n].remote = life[r],
                      ~sessions[r][n].over
               PROVE  r \in Known /\ peers[r].session = n
    BY DEF QuietMeansListed
  <2>1. PlainInv /\ Sound(r)
    BY DEF FilesInv, SoundInv, Quiet
  <2>2. sessions[r][n].heard /\ life[r] # 0
    BY <2>1, About DEF Regular
  <2>3. Touch(r)
    BY <2>1, <2>2 DEF Sound, Met, Touch
  <2>4. (Free(r) \/ Live(r)) /\ \A k \in Earlier(r) : Over(sessions[r][k])
    BY <2>1, <2>3 DEF Sound, InTouch
  <2>5. ~Over(sessions[r][n])
    BY DEF Over
  <2>6. Live(r)
    BY <2>4, <2>5 DEF Free
  <2>7. r \in Known /\ peers[r].session = Len(sessions[r])
    BY <2>1, <2>6, About DEF Live
  <2>8. n = Len(sessions[r])
    <3>1. n \notin Earlier(r)
      BY <2>4, <2>5
    <3>2. n \in 1..Len(sessions[r]) /\ Len(sessions[r]) \in Nat
      BY <2>1, About
    <3> QED
      BY <3>1, <3>2 DEF Earlier
  <2> QED
    BY <2>7, <2>8
<1> QED
  BY <1>1, <1>2, StepFiles, PTL DEF Spec

=============================================================================
