-------------------------------- MODULE Engine --------------------------------
(***************************************************************************)
(* The engine of the Linux client (crate pairdrop-client): the peers a     *)
(* device knows, the WebRTC session it keeps with each of them (crate      *)
(* pairdrop-rtc), the rooms they meet in and the trust put in a pairing.   *)
(* Several devices run the same engine; the server introduces them to each *)
(* other and relays their descriptions, and a data channel opens between   *)
(* two sessions that hold each other's description.                        *)
(*                                                                         *)
(* What a transfer does on an open channel is Transfer, what a pairing     *)
(* does with the credential store is Pairing.                              *)
(***************************************************************************)
EXTENDS Naturals, Sequences

CONSTANTS
  Device, Secret,
  Ip, Homes,     \* the rooms of public addresses, and who may be in which of them
  None,
  InitiallyHeld, \* the secrets every device starts with
  Settles,       \* whether a wait to retry that lasts its time outlasts what is under way
                 \* about the device
  Limits         \* how often each thing outside the engines' control may happen: one of these

Kind == {"drop", "iceFailure", "dialFailure", "unpair", "trust", "pairing", "rotation"}

ASSUME RoomAssumption ==
  /\ Ip \intersect Secret = {} /\ None \notin Ip \union Secret \union Device
  /\ Homes \subseteq [Device -> Ip]
  /\ InitiallyHeld \subseteq Secret
ASSUME BoundAssumption == Settles \in BOOLEAN /\ Limits \subseteq [Kind -> Nat]

VARIABLES
  peers,     \* State.peers: what each device keeps of each other one
  secretFor, \* State.secret_for_peer
  held,      \* the secrets of the paired devices
  trusted,   \* those the user marked to be accepted without asking
  sessions,  \* every session a device has built with each other one, oldest first
  link,      \* the signaling task: waiting to retry, connecting or connected
  hurried,   \* the devices whose wait to retry a message has cut short
  up,        \* messages handed to the signaling task that the server has not read
  down,      \* signaling events the engine has not handled
  home,      \* server: the room of the public address of each device
  members,   \* server: who is in each room
  fresh,     \* server: the secrets not handed out yet
  budget     \* what the environment may still do

engine == <<peers, secretFor, held, trusted>>
task == <<link, hurried>>
server == <<home, members, fresh>>
vars == <<engine, sessions, task, up, down, server, budget>>

-----------------------------------------------------------------------------
(* Data.                                                                   *)

Room == Ip \union Secret

\* Peer: its current session, PeerView.connected, the secret it was dialled under, and
\* whether its Transfer accepts without asking.
Peer == [session : Nat \ {0}, connected : BOOLEAN,
         secret : Secret \union {None}, autoAccept : BOOLEAN]

ASSUME NoneAssumption == None \notin Peer

\* RtcEvent, without what an open channel carries.
Report == {"LocalDescription", "Open", "Failed", "Closed"}

\* RtcSession: `remote` is the session of the other end whose description it accepted.
Session == [caller : BOOLEAN, remote : Nat,
            state : {"new", "open", "failed", "closed"}, reports : Seq(Report)]

\* An offer, or the answer to an offer, of a session of the sender.
Signal == [type : {"Signal"}, peer : Device, session : Nat \ {0}, answers : Nat]

ClientMessage ==
  [type : {"JoinIpRoom"}]
    \union [type : {"RoomSecrets"}, secrets : SUBSET Secret]
    \union [type : {"RoomSecretsDeleted"}, secret : Secret]
    \union [type : {"Signal"}, peer : Device, session : Nat \ {0}, answers : Nat, room : Room]

ServerMessage ==
  Signal
    \union [type : {"WaitingToRetry", "Identity"}]
    \union [type : {"Peers"}, room : Room, peers : SUBSET Device]
    \union [type : {"PeerJoined"}, room : Room, peer : Device]
    \union [type : {"PeerLeft"}, peer : Device]
    \union [type : {"Paired"}, secret : Secret, peer : Device]
    \union [type : {"Deleted"}, secret : Secret]
    \union [type : {"Regenerated"}, old : Secret, new : Secret]

Others(d) == Device \ {d}
Known(d) == {e \in Device : peers[d][e] # None}

Current(d, e) == sessions[d][e][peers[d][e].session]

-----------------------------------------------------------------------------
(* What steps share.                                                       *)

\* Takes one of each of these kinds from the budget of the environment.
Spend(kinds) ==
  /\ \A kind \in kinds : budget[kind] > 0
  /\ budget' = [kind \in DOMAIN budget |->
       IF kind \in kinds THEN budget[kind] - 1 ELSE budget[kind]]

Send(d, messages) == up' = [up EXCEPT ![d] = @ \o messages]

Arrives(d, type) == down[d] # <<>> /\ Head(down[d]).type = type
Handled(d) == down' = [down EXCEPT ![d] = Tail(@)]

\* RtcSession::close
ClosedSession(session) ==
  [session EXCEPT !.state = "closed", !.reports = Append(@, "Closed")]

\* The sessions of d after it closes the current ones with these peers.
Closing(d, leaving) ==
  [e \in Device |->
    [n \in DOMAIN sessions[d][e] |->
       IF e \in leaving /\ peers[d][e].session = n /\ sessions[d][e][n].state # "closed"
       THEN ClosedSession(sessions[d][e][n]) ELSE sessions[d][e][n]]]

\* Every session is closed and the list is cleared.
DropPeers(d) ==
  /\ sessions' = [sessions EXCEPT ![d] = Closing(d, Known(d))]
  /\ peers' = [peers EXCEPT ![d] = [e \in Device |-> None]]

\* signalling_room
SignallingRoom(d, e) == IF secretFor[d][e] = None THEN home[d] ELSE secretFor[d][e]

RoomSecrets(secrets) == [type |-> "RoomSecrets", secrets |-> secrets]

NewSession(isCaller) ==
  [caller |-> isCaller, remote |-> 0, state |-> "new",
   reports |-> IF isCaller THEN <<"LocalDescription">> ELSE <<>>]

NewPeer(d, e, room) ==
  LET secret == IF room \in Secret THEN room ELSE None IN
  [session |-> Len(sessions[d][e]) + 1, connected |-> FALSE, secret |-> secret,
   autoAccept |-> secret \in trusted[d]]

\* Mutant of Dial: the peer is listed whether its session could be set up or not.
DialRegardless(d, called, isCaller, room) ==
  \E reached \in SUBSET called :
    /\ Spend(IF reached = called THEN {} ELSE {"dialFailure"})
    /\ sessions' = [sessions EXCEPT ![d] = [e \in Device |->
         IF e \in reached THEN Append(@[e], NewSession(isCaller)) ELSE @[e]]]
    /\ peers' = [peers EXCEPT ![d] = [e \in Device |->
         IF e \in called THEN NewPeer(d, e, room) ELSE @[e]]]
    /\ secretFor' = [secretFor EXCEPT ![d] = [e \in Device |->
         IF e \in called /\ room \in Secret THEN room ELSE @[e]]]

\* dial, for each of these peers. A session that cannot be set up leaves no trace.
Dial(d, called, isCaller, room) ==
  \E reached \in SUBSET called :
    /\ Spend(IF reached = called THEN {} ELSE {"dialFailure"})
    /\ sessions' = [sessions EXCEPT ![d] = [e \in Device |->
         IF e \in reached THEN Append(@[e], NewSession(isCaller)) ELSE @[e]]]
    /\ peers' = [peers EXCEPT ![d] = [e \in Device |->
         IF e \in reached THEN NewPeer(d, e, room) ELSE @[e]]]
    /\ secretFor' = [secretFor EXCEPT ![d] = [e \in Device |->
         IF e \in reached /\ room \in Secret THEN room ELSE @[e]]]

-----------------------------------------------------------------------------

Init ==
  /\ peers = [d \in Device |-> [e \in Device |-> None]]
  /\ secretFor = [d \in Device |-> [e \in Device |-> None]]
  /\ held = [d \in Device |-> InitiallyHeld]
  /\ trusted = [d \in Device |-> {}]
  /\ sessions = [d \in Device |-> [e \in Device |-> <<>>]]
  /\ link = [d \in Device |-> "connecting"] /\ hurried = {}
  /\ up = [d \in Device |-> <<>>]
  /\ down = [d \in Device |-> <<>>]
  /\ home \in Homes
  /\ members = [room \in Room |-> {}]
  /\ fresh = Secret \ InitiallyHeld
  /\ budget \in Limits

-----------------------------------------------------------------------------
(* Signaling events.                                                       *)

\* Mutant of HandleWaitingToRetry: the peers whose sessions were closed stay in the list.
HandleWaitingToRetryKeeping(d) ==
  /\ Arrives(d, "WaitingToRetry")
  /\ Handled(d)
  /\ sessions' = [sessions EXCEPT ![d] = Closing(d, Known(d))]
  /\ UNCHANGED <<engine, task, up, server, budget>>

HandleWaitingToRetry(d) ==
  /\ Arrives(d, "WaitingToRetry")
  /\ Handled(d)
  /\ DropPeers(d)
  /\ UNCHANGED <<secretFor, held, trusted, task, up, server, budget>>

HandleIdentity(d) ==
  /\ Arrives(d, "Identity")
  /\ Handled(d)
  /\ Send(d, <<[type |-> "JoinIpRoom"]>>
               \o (IF held[d] = {} THEN <<>> ELSE <<RoomSecrets(held[d])>>))
  /\ UNCHANGED <<engine, sessions, task, server, budget>>

\* Peers already in the room are called.
HandlePeers(d) ==
  LET frame == Head(down[d]) IN
  /\ Arrives(d, "Peers")
  /\ Handled(d)
  /\ Dial(d, frame.peers \ Known(d), TRUE, frame.room)
  /\ UNCHANGED <<held, trusted, task, up, server>>

\* Mutant of HandlePeerJoined: the newcomer is called as well.
HandlePeerJoinedCalling(d) ==
  LET frame == Head(down[d]) IN
  /\ Arrives(d, "PeerJoined")
  /\ Handled(d)
  /\ Dial(d, {frame.peer} \ Known(d), TRUE, frame.room)
  /\ UNCHANGED <<held, trusted, task, up, server>>

\* A peer that arrives later calls.
HandlePeerJoined(d) ==
  LET frame == Head(down[d]) IN
  /\ Arrives(d, "PeerJoined")
  /\ Handled(d)
  /\ Dial(d, {frame.peer} \ Known(d), FALSE, frame.room)
  /\ UNCHANGED <<held, trusted, task, up, server>>

\* Mutant of HandlePeerLeft: the session is dropped without being closed.
HandlePeerLeftOpen(d) ==
  /\ Arrives(d, "PeerLeft")
  /\ Handled(d)
  /\ peers' = [peers EXCEPT ![d][Head(down[d]).peer] = None]
  /\ UNCHANGED <<secretFor, held, trusted, sessions, task, up, server, budget>>

\* Whatever room it left.
HandlePeerLeft(d) ==
  LET gone == {Head(down[d]).peer} \intersect Known(d) IN
  /\ Arrives(d, "PeerLeft")
  /\ Handled(d)
  /\ sessions' = [sessions EXCEPT ![d] = Closing(d, gone)]
  /\ peers' = [peers EXCEPT ![d][Head(down[d]).peer] = None]
  /\ UNCHANGED <<secretFor, held, trusted, task, up, server, budget>>

\* accept_remote_description: a callee takes the first offer and answers it, a caller
\* takes the first answer, and anything else is an error that is dropped.
HandleSignal(d) ==
  LET frame == Head(down[d])
      e == frame.peer
      n == peers[d][e].session
      accepts == /\ peers[d][e] # None
                 /\ sessions[d][e][n].remote = 0 /\ sessions[d][e][n].state = "new"
                 /\ sessions[d][e][n].caller <=> frame.answers # 0
  IN
  /\ Arrives(d, "Signal")
  /\ Handled(d)
  /\ \/ /\ accepts
        /\ sessions' = [sessions EXCEPT ![d][e][n].remote = frame.session,
             ![d][e][n].reports =
               IF frame.answers = 0 THEN Append(@, "LocalDescription") ELSE @]
     \/ ~accepts /\ UNCHANGED sessions
  /\ UNCHANGED <<engine, task, up, server, budget>>

\* pair-device-joined
HandlePaired(d) ==
  LET frame == Head(down[d]) IN
  /\ Arrives(d, "Paired")
  /\ Handled(d)
  /\ held' = [held EXCEPT ![d] = @ \union {frame.secret}]
  /\ secretFor' = [secretFor EXCEPT ![d][frame.peer] = frame.secret]
  /\ Send(d, <<RoomSecrets({frame.secret})>>)
  /\ UNCHANGED <<peers, trusted, sessions, task, server, budget>>

\* secret-room-deleted
HandleDeleted(d) ==
  LET secret == Head(down[d]).secret IN
  /\ Arrives(d, "Deleted")
  /\ Handled(d)
  /\ held' = [held EXCEPT ![d] = @ \ {secret}]
  /\ trusted' = [trusted EXCEPT ![d] = @ \ {secret}]
  /\ UNCHANGED <<peers, secretFor, sessions, task, up, server, budget>>

\* room-secret-regenerated, which is ignored when the old secret is not known.
HandleRegenerated(d) ==
  LET frame == Head(down[d])
      Rotated(secrets) ==
        IF frame.old \in secrets THEN (secrets \ {frame.old}) \union {frame.new} ELSE secrets
  IN
  /\ Arrives(d, "Regenerated")
  /\ Handled(d)
  /\ held' = [held EXCEPT ![d] = Rotated(@)]
  /\ trusted' = [trusted EXCEPT ![d] = Rotated(@)]
  /\ Send(d, IF frame.old \in held[d] THEN <<RoomSecrets(held'[d])>> ELSE <<>>)
  /\ UNCHANGED <<peers, secretFor, sessions, task, server, budget>>

HandleSignaling(d) ==
  \/ HandleWaitingToRetry(d) \/ HandleIdentity(d) \/ HandlePeers(d)
  \/ HandlePeerJoined(d) \/ HandlePeerLeft(d) \/ HandleSignal(d)
  \/ HandlePaired(d) \/ HandleDeleted(d) \/ HandleRegenerated(d)

-----------------------------------------------------------------------------
(* Reports of a session. They name the peer, not the session they are of.  *)

Reports(d, e, n, report) ==
  /\ sessions[d][e][n].reports # <<>> /\ Head(sessions[d][e][n].reports) = report
  /\ sessions' = [sessions EXCEPT ![d][e][n].reports = Tail(@)]
  /\ UNCHANGED <<secretFor, held, trusted, task, down, server, budget>>

Connects(d, e, connected) ==
  /\ peers' = IF peers[d][e] = None THEN peers
              ELSE [peers EXCEPT ![d][e].connected = connected]
  /\ UNCHANGED up

\* The offer of a caller, or the answer of a callee to the offer it took.
HandleLocalDescription(d, e, n) ==
  /\ Reports(d, e, n, "LocalDescription")
  /\ Send(d, <<[type |-> "Signal", peer |-> e, session |-> n, room |-> SignallingRoom(d, e),
                answers |-> IF sessions[d][e][n].caller THEN 0
                            ELSE sessions[d][e][n].remote]>>)
  /\ UNCHANGED peers

HandleOpen(d, e, n) == Reports(d, e, n, "Open") /\ Connects(d, e, TRUE)

HandleClosed(d, e, n) ==
  /\ Reports(d, e, n, "Failed") \/ Reports(d, e, n, "Closed")
  /\ Connects(d, e, FALSE)

HandleRtc(d) ==
  \E e \in Others(d) : \E n \in DOMAIN sessions[d][e] :
    HandleLocalDescription(d, e, n) \/ HandleOpen(d, e, n) \/ HandleClosed(d, e, n)

-----------------------------------------------------------------------------
(* Commands of the user.                                                   *)

Unpair(d, secret) ==
  /\ secret \in held[d]
  /\ Spend({"unpair"})
  /\ held' = [held EXCEPT ![d] = @ \ {secret}]
  /\ trusted' = [trusted EXCEPT ![d] = @ \ {secret}]
  /\ Send(d, <<[type |-> "RoomSecretsDeleted", secret |-> secret], RoomSecrets(held'[d])>>)
  /\ UNCHANGED <<peers, secretFor, sessions, task, down, server>>

\* Mutant of SetAutoAccept: a peer that is already connected does not pick it up.
SetAutoAcceptLater(d, secret, enabled) ==
  /\ secret \in held[d]
  /\ Spend({"trust"})
  /\ trusted' = [trusted EXCEPT ![d] = IF enabled THEN @ \union {secret} ELSE @ \ {secret}]
  /\ UNCHANGED <<peers, secretFor, held, sessions, task, up, down, server>>

SetAutoAccept(d, secret, enabled) ==
  /\ secret \in held[d]
  /\ Spend({"trust"})
  /\ trusted' = [trusted EXCEPT ![d] = IF enabled THEN @ \union {secret} ELSE @ \ {secret}]
  /\ peers' = [peers EXCEPT ![d] = [e \in Device |->
       IF e \in Known(d) /\ @[e].secret = secret
       THEN [@[e] EXCEPT !.autoAccept = enabled] ELSE @[e]]]
  /\ UNCHANGED <<secretFor, held, sessions, task, up, down, server>>

Command(d) ==
  \E secret \in Secret :
    Unpair(d, secret) \/ \E enabled \in BOOLEAN : SetAutoAccept(d, secret, enabled)

-----------------------------------------------------------------------------
(* WebRTC: what happens between two sessions.                              *)

Remote(d, e, n) == sessions[e][d][sessions[d][e][n].remote]

CanOpen(d, e, n) ==
  /\ sessions[d][e][n].caller /\ sessions[d][e][n].state = "new"
  /\ sessions[d][e][n].remote # 0
  /\ Remote(d, e, n).state = "new" /\ Remote(d, e, n).remote = n

CanClose(d, e, n) ==
  sessions[d][e][n].state = "open" /\ Remote(d, e, n).state \in {"closed", "failed"}

\* A channel opens between a caller and a callee that accepted each other's description.
ChannelOpens(d, e, n) ==
  /\ CanOpen(d, e, n)
  /\ LET Opened(session) == [session EXCEPT !.state = "open", !.reports = Append(@, "Open")]
     IN sessions' = [sessions EXCEPT ![d][e][n] = Opened(@),
                                     ![e][d][sessions[d][e][n].remote] = Opened(@)]
  /\ UNCHANGED <<engine, task, up, down, server, budget>>

\* The other end of an open channel has closed it.
ChannelCloses(d, e, n) ==
  /\ CanClose(d, e, n)
  /\ sessions' = [sessions EXCEPT ![d][e][n] = ClosedSession(@)]
  /\ UNCHANGED <<engine, task, up, down, server, budget>>

\* ICE gives up on a session that has a remote description.
IceFails(d, e, n) ==
  /\ sessions[d][e][n].state \in {"new", "open"} /\ sessions[d][e][n].remote # 0
  /\ Spend({"iceFailure"})
  /\ sessions' = [sessions EXCEPT ![d][e][n].state = "failed",
                                  ![d][e][n].reports = Append(@, "Failed")]
  /\ UNCHANGED <<engine, task, up, down, server>>

Channel(d) ==
  \E e \in Others(d) : \E n \in DOMAIN sessions[d][e] :
    ChannelOpens(d, e, n) \/ ChannelCloses(d, e, n)

-----------------------------------------------------------------------------
(* The signaling task.                                                     *)

\* What the engine of d still has to handle, and what the others still have to learn of d.
UnderWay(d) ==
  \/ down[d] # <<>>
  \/ \E e \in Others(d) :
       \/ \E i \in DOMAIN down[e] :
            \/ down[e][i].type \in {"PeerJoined", "PeerLeft", "Signal"} /\ down[e][i].peer = d
            \/ down[e][i].type = "Peers" /\ d \in down[e][i].peers
       \/ \E i \in DOMAIN up[e] : up[e][i].type = "Signal" /\ up[e][i].peer = d
       \/ \E n \in DOMAIN sessions[d][e] : sessions[d][e][n].reports # <<>>
       \/ \E n \in DOMAIN sessions[e][d] : sessions[e][d][n].reports # <<>>

\* A connection that is accepted gets an identity first, the one it had before. A wait of
\* its two seconds or more leaves everyone time to settle, one cut short does not.
Connect(d) ==
  /\ link[d] = "connecting"
  /\ Settles /\ d \notin hurried => ~UnderWay(d)
  /\ link' = [link EXCEPT ![d] = "connected"]
  /\ down' = [down EXCEPT ![d] = Append(@, [type |-> "Identity"])]
  /\ UNCHANGED <<engine, sessions, hurried, up, server, budget>>

\* The wait ends with its time, or with the next message handed over, which is lost.
Retry(d) ==
  /\ link[d] = "waiting"
  /\ link' = [link EXCEPT ![d] = "connecting"]
  /\ \/ (Settles => up[d] = <<>> /\ ~UnderWay(d)) /\ UNCHANGED <<up, hurried>>
     \/ /\ up[d] # <<>> /\ up' = [up EXCEPT ![d] = Tail(@)]
        /\ hurried' = hurried \union {d}
  /\ UNCHANGED <<engine, sessions, down, server, budget>>

\* Messages on the socket and frames not read from it are lost, and the server tells
\* the others. A message that was not written yet is what will cut the wait short.
Drop(d) ==
  /\ link[d] = "connected"
  /\ Spend({"drop"})
  /\ link' = [link EXCEPT ![d] = "waiting"]
  /\ \E n \in 0..Len(up[d]) :
       /\ up' = [up EXCEPT ![d] = SubSeq(@, n + 1, Len(@))]
       /\ hurried' = IF n < Len(up[d]) THEN hurried \union {d} ELSE hurried
  /\ \E n \in 0..Len(down[d]) :
       down' = [e \in Device |->
         IF e = d THEN Append(SubSeq(down[d], 1, n), [type |-> "WaitingToRetry"])
         ELSE IF \E room \in Room : {d, e} \subseteq members[room]
         THEN Append(down[e], [type |-> "PeerLeft", peer |-> d]) ELSE down[e]]
  /\ members' = [room \in Room |-> members[room] \ {d}]
  /\ UNCHANGED <<engine, sessions, home, fresh>>

-----------------------------------------------------------------------------
(* The server.                                                             *)

Reads(d, type) ==
  /\ link[d] = "connected" /\ up[d] # <<>> /\ Head(up[d]).type = type
  /\ UNCHANGED <<engine, sessions, task, home, fresh, budget>>

Read(d) == up' = [up EXCEPT ![d] = Tail(@)]

\* A newcomer is told who is there, and they are told of the newcomer.
Enters(d, room) ==
  /\ members' = [members EXCEPT ![room] = @ \union {d}]
  /\ down' = [e \in Device |->
       IF e = d /\ members[room] # {}
       THEN Append(down[e], [type |-> "Peers", room |-> room, peers |-> members[room]])
       ELSE IF e \in members[room] \ {d}
       THEN Append(down[e], [type |-> "PeerJoined", room |-> room, peer |-> d])
       ELSE down[e]]

ServerJoinsIpRoom(d) ==
  /\ Reads(d, "JoinIpRoom")
  /\ Read(d)
  /\ \/ d \notin members[home[d]] /\ Enters(d, home[d])
     \/ d \in members[home[d]] /\ UNCHANGED <<members, down>>

\* One room after the other.
ServerRegisters(d) ==
  LET missing == {s \in Head(up[d]).secrets : d \notin members[s]} IN
  /\ Reads(d, "RoomSecrets")
  /\ \/ missing = {} /\ Read(d) /\ UNCHANGED <<members, down>>
     \/ \E secret \in missing : Enters(d, secret) /\ UNCHANGED up

\* Those in the room may also be told that the others left it.
ServerDeletes(d) ==
  /\ Reads(d, "RoomSecretsDeleted")
  /\ Read(d)
  /\ LET secret == Head(up[d]).secret
         Told(e) == <<[type |-> "Deleted", secret |-> secret]>>
         Left(e, f) == IF f \in members[secret] \ {e}
                       THEN <<[type |-> "PeerLeft", peer |-> f]>> ELSE <<>>
     IN /\ members' = [members EXCEPT ![secret] = {}]
        /\ \E leaver \in members[secret] \union {None} :
             down' = [e \in Device |->
               IF e \notin members[secret] THEN down[e]
               ELSE down[e] \o Left(e, leaver) \o Told(e)]

\* A description reaches a peer that is in the room it names.
ServerRelays(d) ==
  LET frame == Head(up[d]) IN
  /\ Reads(d, "Signal")
  /\ Read(d)
  /\ down' = IF frame.peer \in members[frame.room]
             THEN [down EXCEPT ![frame.peer] = Append(@,
                    [type |-> "Signal", peer |-> d, session |-> frame.session,
                     answers |-> frame.answers])]
             ELSE down
  /\ UNCHANGED members

\* Two devices that have joined the rooms of their addresses are paired; Pairing has the
\* frames that lead to it.
ServerPairs(d, e, secret) ==
  /\ d # e /\ d \in members[home[d]] /\ e \in members[home[e]] /\ secret \in fresh
  /\ Spend({"pairing"})
  /\ fresh' = fresh \ {secret}
  /\ down' = [down EXCEPT ![d] = Append(@, [type |-> "Paired", secret |-> secret, peer |-> e]),
                          ![e] = Append(@, [type |-> "Paired", secret |-> secret, peer |-> d])]
  /\ UNCHANGED <<engine, sessions, task, up, home, members>>

ServerRotates(old, new) ==
  /\ members[old] # {} /\ new \in fresh
  /\ Spend({"rotation"})
  /\ fresh' = fresh \ {new}
  /\ members' = [members EXCEPT ![old] = {}]
  /\ down' = [e \in Device |->
       IF e \in members[old]
       THEN Append(down[e], [type |-> "Regenerated", old |-> old, new |-> new])
       ELSE down[e]]
  /\ UNCHANGED <<engine, sessions, task, up, home>>

Server(d) ==
  \/ ServerJoinsIpRoom(d) \/ ServerRegisters(d) \/ ServerDeletes(d) \/ ServerRelays(d)

-----------------------------------------------------------------------------

Next ==
  \/ \E d \in Device :
       \/ HandleSignaling(d) \/ HandleRtc(d) \/ Command(d)
       \/ Connect(d) \/ Retry(d) \/ Drop(d) \/ Server(d) \/ Channel(d)
       \/ \E e \in Others(d) : \E n \in DOMAIN sessions[d][e] : IceFails(d, e, n)
       \/ \E e \in Device : \E secret \in Secret : ServerPairs(d, e, secret)
  \/ \E old, new \in Secret : ServerRotates(old, new)

Spec == Init /\ [][Next]_vars

\* The engine handles what it is told, the task keeps retrying, the server keeps reading,
\* and a channel that can open does.
FairSpec ==
  /\ Spec
  /\ \A d \in Device :
       /\ WF_vars(HandleSignaling(d)) /\ WF_vars(HandleRtc(d)) /\ WF_vars(Server(d))
       /\ WF_vars(Channel(d)) /\ WF_vars(Connect(d)) /\ WF_vars(Retry(d))

-----------------------------------------------------------------------------

TypeOK ==
  /\ peers \in [Device -> [Device -> Peer \union {None}]]
  /\ secretFor \in [Device -> [Device -> Secret \union {None}]]
  /\ held \in [Device -> SUBSET Secret]
  /\ trusted \in [Device -> SUBSET Secret]
  /\ sessions \in [Device -> [Device -> Seq(Session)]]
  /\ link \in [Device -> {"waiting", "connecting", "connected"}] /\ hurried \subseteq Device
  /\ up \in [Device -> Seq(ClientMessage)]
  /\ down \in [Device -> Seq(ServerMessage)]
  /\ home \in Homes
  /\ members \in [Room -> SUBSET Device]
  /\ fresh \subseteq Secret
  /\ budget \in [Kind -> Nat]
  /\ \A d \in Device : \A e \in Known(d) : peers[d][e].session \in DOMAIN sessions[d][e]

\* A session that is not closed is the current one of a peer in the list: nothing keeps
\* a connection open that nobody can reach any more.
NoSessionIsLeaked ==
  \A d, e \in Device : \A n \in DOMAIN sessions[d][e] :
    sessions[d][e][n].state # "closed" => peers[d][e] # None /\ peers[d][e].session = n

Meet(d, e) == \E room \in Room : {d, e} \subseteq members[room]

\* Nothing is on its way and no session is about to change.
Quiet ==
  /\ \A d \in Device : link[d] = "connected" /\ up[d] = <<>> /\ down[d] = <<>>
  /\ \A d, e \in Device : \A n \in DOMAIN sessions[d][e] : sessions[d][e][n].reports = <<>>
  /\ \A d, e \in Device : \A n \in DOMAIN sessions[d][e] :
       ~CanOpen(d, e, n) /\ ~CanClose(d, e, n)

\* "Peers already in the room when we arrive are the ones we call", and "a peer arriving
\* after us calls us": when nothing is on its way, two devices that share a room are
\* connected, and both show it, unless a message has cut a wait to retry short.
QuietMeansConnected ==
  hurried = {} /\ Quiet => \A d \in Device : \A e \in Others(d) :
    Meet(d, e) => e \in Known(d) /\ peers[d][e].connected /\ Current(d, e).state = "open"

\* Devices that can meet end up connected for good, also after one of them lost its
\* connection, if its wait lasts its time and outlasts what is under way (Settles), each
\* handshake is answered and no dial or ICE attempt fails.
EventuallyConnected ==
  <>[](\/ hurried # {}
       \/ \A d \in Device : \A e \in Others(d) : e \in Known(d) /\ peers[d][e].connected)

\* Transfers prompt unless the sender is a paired device marked trusted.
UntrustedIsPrompted ==
  \A d \in Device : \A e \in Known(d) :
    peers[d][e].autoAccept => peers[d][e].secret \in held[d] \intersect trusted[d]
=============================================================================
