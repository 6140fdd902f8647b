--------------------------- MODULE Pairing_proofs ---------------------------
(***************************************************************************)
(* Proofs about Pairing, for any set of devices, any set of secrets and    *)
(* every bound on the environment.                                         *)
(***************************************************************************)
EXTENDS Pairing, SequenceTheorems, TLAPS

\* The failures counted are those of this run, and a device without a keyring has said so.
Counted ==
  /\ budget["loadFailure"] <= MaxLoadFailures
  /\ budget["deleteFailure"] <= MaxDeleteFailures
  /\ \A d \in Device : backend[d] = "memory" => told[d]

\* The elements of a queue.
Elements(queue) == {queue[n] : n \in 1..Len(queue)}

\* A frame that makes a device that handles it pair with secret.
Introduces(frame, secret) ==
  \/ frame.type = "Joined" /\ frame.secret = secret
  \/ frame.type = "Regenerated" /\ frame.new = secret

\* The secrets that a device has, may load, or had.
Known(d) == Secrets(devices[d]) \union Secrets(stored[d]) \union forgotten[d]

Unheard(d, secret) ==
  /\ secret \notin Known(d)
  /\ \A frame \in Elements(down[d]) : ~Introduces(frame, secret)

\* A secret the server still keeps to itself has reached nobody.
KeptByServer ==
  \A s \in Secret :
    /\ s \in fresh => keys[s] = None
    /\ s \in fresh \/ keys[s] # None => \A d \in Device : Unheard(d, s)

Once(queue, secret) ==
  \A m, n \in 1..Len(queue) :
    Introduces(queue[m], secret) /\ Introduces(queue[n], secret) => m = n

\* A secret on its way to a device is new there, and on its way once.
IntroducedOnce ==
  \A d \in Device, s \in Secret :
    /\ \A frame \in Elements(down[d]) : Introduces(frame, s) => s \notin Known(d)
    /\ Once(down[d], s)

\* What is forgotten is neither in memory nor in the keyring.
NowhereKept ==
  NoneUndeleted => \A d \in Device :
    forgotten[d] \cap (Secrets(devices[d]) \union Secrets(stored[d])) = {}

\* Where a connected device is not in a room it belongs to, the message that will get it
\* there, or take the room from it, is on its way.
IpRoomOnItsWay(d) ==
  d \notin ipRoom =>
    \/ [type |-> "Identity"] \in Elements(down[d])
    \/ [type |-> "JoinIpRoom"] \in Elements(up[d])

RoomOnItsWay(d, s) ==
  s \in Secrets(devices[d]) /\ d \notin rooms[s] =>
    \/ [type |-> "Identity"] \in Elements(down[d])
    \/ \E m \in Elements(up[d]) : m.type = "RoomSecrets" /\ s \in m.secrets
    \/ [type |-> "Deleted", secret |-> s] \in Elements(down[d])
    \/ \E m \in Elements(down[d]) : m.type = "Regenerated" /\ m.old = s

RoomsOnTheirWay ==
  \A d \in Device : link[d] = "connected" =>
    IpRoomOnItsWay(d) /\ \A s \in Secret : RoomOnItsWay(d, s)

-----------------------------------------------------------------------------
(* The lists of pairings.                                                  *)

LEMMA ListTypes ==
  ASSUME NEW list \in SUBSET Record, NEW s \in Secret
  PROVE  /\ Secrets(list) \subseteq Secret
         /\ Unpaired(list, s) \subseteq Record
         /\ \A enabled \in BOOLEAN : Trusting(list, s, enabled) \subseteq Record
         /\ Named(list, s) \subseteq Record
         /\ Paired(list, s) \subseteq Record
         /\ \A new \in Secret : Rotated(list, s, new) \subseteq Record
<1>1. Secrets(list) \subseteq Secret
  BY DEF Record, Secrets
<1>2. Unpaired(list, s) \subseteq Record
  BY DEF Unpaired
<1>3. ASSUME NEW enabled \in BOOLEAN
      PROVE  Trusting(list, s, enabled) \subseteq Record
  BY DEF Record, Trusting
<1>4. Named(list, s) \subseteq Record
  BY DEF Record, Named
<1>5. Paired(list, s) \subseteq Record
  <2>1. [secret |-> s, named |-> FALSE, autoAccept |-> FALSE] \in Record
    BY DEF Record
  <2> QED
    BY <2>1 DEF Paired
<1>6. ASSUME NEW new \in Secret
      PROVE  Rotated(list, s, new) \subseteq Record
  BY DEF Record, Rotated
<1> QED
  BY <1>1, <1>2, <1>3, <1>4, <1>5, <1>6

\* Trusting a device and naming it keep the pairings; the other operations change one.
LEMMA ListSecrets ==
  ASSUME NEW list \in SUBSET Record, NEW s \in Secret
  PROVE  /\ Secrets(Unpaired(list, s)) = Secrets(list) \ {s}
         /\ \A enabled \in BOOLEAN : Secrets(Trusting(list, s, enabled)) = Secrets(list)
         /\ Secrets(Named(list, s)) = Secrets(list)
         /\ Secrets(Paired(list, s)) = Secrets(list) \union {s}
         /\ \A new \in Secret : s \in Secrets(list) =>
              Secrets(Rotated(list, s, new)) = (Secrets(list) \ {s}) \union {new}
<1>1. Secrets(Unpaired(list, s)) = Secrets(list) \ {s}
  BY DEF Record, Secrets, Unpaired
<1>2. ASSUME NEW enabled \in BOOLEAN
      PROVE  Secrets(Trusting(list, s, enabled)) = Secrets(list)
  <2> DEFINE Changed(r) == IF r.secret = s THEN [r EXCEPT !.autoAccept = enabled] ELSE r
  <2>1. \A r \in list : Changed(r).secret = r.secret
    BY DEF Record
  <2>2. Trusting(list, s, enabled) = {Changed(r) : r \in list}
    BY DEF Trusting
  <2> HIDE DEF Changed
  <2> QED
    BY <2>1, <2>2 DEF Secrets
<1>3. Secrets(Named(list, s)) = Secrets(list)
  <2> DEFINE Changed(r) == IF r.secret = s THEN [r EXCEPT !.named = TRUE] ELSE r
  <2>1. \A r \in list : Changed(r).secret = r.secret
    BY DEF Record
  <2>2. Named(list, s) = {Changed(r) : r \in list}
    BY DEF Named
  <2> HIDE DEF Changed
  <2> QED
    BY <2>1, <2>2 DEF Secrets
<1>4. Secrets(Paired(list, s)) = Secrets(list) \union {s}
  <2> DEFINE added == [secret |-> s, named |-> FALSE, autoAccept |-> FALSE]
  <2>1. added.secret = s
    OBVIOUS
  <2>2. Paired(list, s) = IF s \in Secrets(list) THEN list ELSE list \union {added}
    BY DEF Paired
  <2> HIDE DEF added
  <2> QED
    BY <2>1, <2>2 DEF Secrets
<1>5. ASSUME NEW new \in Secret, s \in Secrets(list)
      PROVE  Secrets(Rotated(list, s, new)) = (Secrets(list) \ {s}) \union {new}
  <2> DEFINE Changed(r) == IF r.secret = s THEN [r EXCEPT !.secret = new] ELSE r
  <2>1. \A r \in list : Changed(r).secret = IF r.secret = s THEN new ELSE r.secret
    BY DEF Record
  <2>2. Rotated(list, s, new) = {Changed(r) : r \in list}
    BY DEF Rotated
  <2> HIDE DEF Changed
  <2>3. PICK known \in list : known.secret = s
    BY <1>5 DEF Secrets
  <2> QED
    BY <2>1, <2>2, <2>3 DEF Secrets
<1> QED
  BY <1>1, <1>2, <1>3, <1>4, <1>5

-----------------------------------------------------------------------------
(* Type correctness and the count of failures.                             *)

LEMMA SpendType ==
  ASSUME budget \in [Kind -> Nat], NEW kinds, Spend(kinds)
  PROVE  /\ budget' \in [Kind -> Nat]
         /\ \A k \in Kind : budget'[k] <= budget[k]
         /\ \A k \in Kind : k \in kinds => budget'[k] < budget[k]
<1>1. \A k \in Kind : budget'[k] = IF k \in kinds THEN budget[k] - 1 ELSE budget[k]
  BY DEF Spend
<1>2. \A k \in Kind : k \in kinds => budget[k] > 0
  BY DEF Spend
<1>3. budget' \in [Kind -> Nat]
  BY <1>2 DEF Spend
<1>4. \A k \in Kind : budget[k] \in Nat
  OBVIOUS
<1> QED
  BY <1>1, <1>2, <1>3, <1>4

LEMMA PersistType ==
  ASSUME TypeOK, NEW d \in Device, NEW list \in SUBSET Record, NEW spent,
         Persist(d, list, spent)
  PROVE  /\ devices' \in [Device -> SUBSET Record]
         /\ stored' \in [Device -> SUBSET Record]
         /\ told' \in [Device -> BOOLEAN]
         /\ budget' \in [Kind -> Nat]
<1>1. devices' \in [Device -> SUBSET Record]
  BY DEF TypeOK, Persist
<1>2. stored' \in [Device -> SUBSET Record]
  BY DEF TypeOK, Persist
<1>3. told' \in [Device -> BOOLEAN]
  BY DEF TypeOK, Persist
<1>4. \E kinds : Spend(kinds)
  BY DEF Persist
<1>5. budget \in [Kind -> Nat]
  BY DEF TypeOK
<1> QED
  BY <1>1, <1>2, <1>3, <1>4, <1>5, SpendType

-----------------------------------------------------------------------------
(* Queues and messages.                                                    *)

LEMMA HeadAndTail ==
  ASSUME NEW S, NEW q \in Seq(S), q # <<>>
  PROVE  /\ Head(q) \in S /\ Head(q) = q[1] /\ Len(q) \in Nat \ {0}
         /\ Tail(q) \in Seq(S)
         /\ Len(Tail(q)) = Len(q) - 1
         /\ \A n \in 1..Len(Tail(q)) : Tail(q)[n] = q[n + 1]
OBVIOUS

LEMMA ElementsOfTail ==
  ASSUME NEW S, NEW q \in Seq(S), q # <<>>
  PROVE  Elements(q) = {Head(q)} \union Elements(Tail(q))
<1>1. ASSUME NEW n \in 1..Len(q)
      PROVE  q[n] = Head(q) \/ \E m \in 1..Len(Tail(q)) : q[n] = Tail(q)[m]
  <2>1. CASE n = 1
    BY <2>1, HeadAndTail
  <2>2. CASE n # 1
    <3>1. n - 1 \in 1..Len(Tail(q)) /\ (n - 1) + 1 = n
      BY <2>2, HeadAndTail
    <3> QED
      BY <3>1, HeadAndTail
  <2> QED
    BY <2>1, <2>2
<1>2. ASSUME NEW n \in 1..Len(Tail(q))
      PROVE  n + 1 \in 1..Len(q) /\ Tail(q)[n] = q[n + 1]
  BY HeadAndTail
<1>3. 1 \in 1..Len(q) /\ Head(q) = q[1]
  BY HeadAndTail
<1>4. Elements(q) \subseteq {Head(q)} \union Elements(Tail(q))
  BY <1>1, Zenon DEF Elements
<1>5. Head(q) \in Elements(q)
  BY <1>3, Zenon DEF Elements
<1>6. Elements(Tail(q)) \subseteq Elements(q)
  <2>1. ASSUME NEW n \in 1..Len(Tail(q))
        PROVE  Tail(q)[n] \in Elements(q)
    BY <1>2, Zenon DEF Elements
  <2> QED
    BY <2>1, Zenon DEF Elements
<1> QED
  BY <1>4, <1>5, <1>6

LEMMA ElementsOfAppend ==
  ASSUME NEW S, NEW q \in Seq(S), NEW e
  PROVE  Elements(Append(q, e)) = Elements(q) \union {e}
<1>1. /\ Len(Append(q, e)) = Len(q) + 1 /\ Len(q) \in Nat
      /\ \A n \in 1..Len(q) : Append(q, e)[n] = q[n]
      /\ Append(q, e)[Len(q) + 1] = e
  OBVIOUS
<1>2. /\ \A n \in 1..(Len(q) + 1) : n \in 1..Len(q) \/ n = Len(q) + 1
      /\ Len(q) + 1 \in 1..(Len(q) + 1)
      /\ \A n \in 1..Len(q) : n \in 1..(Len(q) + 1)
  BY <1>1
<1> QED
  BY <1>1, <1>2, Zenon DEF Elements

LEMMA ElementsOfConcat ==
  ASSUME NEW S, NEW p \in Seq(S), NEW q \in Seq(S)
  PROVE  Elements(p \o q) = Elements(p) \union Elements(q)
<1>1. /\ Len(p \o q) = Len(p) + Len(q) /\ Len(p) \in Nat /\ Len(q) \in Nat
      /\ \A n \in 1..Len(p) : (p \o q)[n] = p[n]
      /\ \A n \in (Len(p) + 1)..(Len(p) + Len(q)) : (p \o q)[n] = q[n - Len(p)]
  BY ConcatProperties
<1>2. ASSUME NEW n \in 1..Len(p)
      PROVE  n \in 1..Len(p \o q) /\ p[n] = (p \o q)[n]
  BY <1>1
<1>3. ASSUME NEW n \in 1..Len(q)
      PROVE  \E m \in 1..Len(p \o q) : q[n] = (p \o q)[m]
  <2> DEFINE m == n + Len(p)
  <2>1. m \in 1..Len(p \o q) /\ m \in (Len(p) + 1)..(Len(p) + Len(q)) /\ m - Len(p) = n
    BY <1>1
  <2>2. (p \o q)[m] = q[m - Len(p)]
    BY <1>1, <2>1
  <2> QED
    BY <2>1, <2>2
<1>4. ASSUME NEW n \in 1..Len(p \o q)
      PROVE  \/ \E m \in 1..Len(p) : (p \o q)[n] = p[m]
             \/ \E m \in 1..Len(q) : (p \o q)[n] = q[m]
  <2>1. CASE n \in 1..Len(p)
    BY <1>1, <2>1
  <2>2. CASE n \notin 1..Len(p)
    <3>1. n \in (Len(p) + 1)..(Len(p) + Len(q)) /\ n - Len(p) \in 1..Len(q)
      BY <1>1, <2>2
    <3> QED
      BY <1>1, <3>1
  <2> QED
    BY <2>1, <2>2
<1>5. Elements(p) \union Elements(q) \subseteq Elements(p \o q)
  BY <1>2, <1>3, ZenonT(30) DEF Elements
<1>6. Elements(p \o q) \subseteq Elements(p) \union Elements(q)
  BY <1>4, Zenon DEF Elements
<1> QED
  BY <1>5, <1>6

\* What a lost connection leaves of a queue.
LEMMA Truncated ==
  ASSUME NEW S, NEW q \in Seq(S), NEW n \in 0..Len(q)
  PROVE  /\ SubSeq(q, n + 1, Len(q)) \in Seq(S)
         /\ SubSeq(q, 1, n) \in Seq(S)
         /\ Len(SubSeq(q, 1, n)) = n
         /\ \A k \in 1..n : SubSeq(q, 1, n)[k] = q[k]
         /\ Elements(SubSeq(q, 1, n)) \subseteq Elements(q)
<1>1. SubSeq(q, n + 1, Len(q)) \in Seq(S) /\ SubSeq(q, 1, n) \in Seq(S)
  OBVIOUS
<1>2. Len(SubSeq(q, 1, n)) = n /\ \A k \in 1..n : SubSeq(q, 1, n)[k] = q[k]
  OBVIOUS
<1>3. \A k \in 1..n : k \in 1..Len(q)
  OBVIOUS
<1>4. Elements(SubSeq(q, 1, n)) \subseteq Elements(q)
  BY <1>2, <1>3, Zenon DEF Elements
<1> QED
  BY <1>1, <1>2, <1>4

LEMMA Sequences ==
  ASSUME NEW S, NEW x \in S, NEW y \in S
  PROVE  <<x>> \in Seq(S) /\ <<x, y>> \in Seq(S)
OBVIOUS

LEMMA ClientMessages ==
  /\ [type |-> "PairDeviceInitiate"] \in ClientMessage
  /\ [type |-> "PairDeviceCancel"] \in ClientMessage
  /\ \A s \in Secret : /\ [type |-> "PairDeviceJoin", secret |-> s] \in ClientMessage
                        /\ [type |-> "RoomSecretsDeleted", secret |-> s] \in ClientMessage
BY DEF ClientMessage

LEMMA RoomMessages ==
  /\ [type |-> "JoinIpRoom"] \in ClientMessage
  /\ \A list \in SUBSET Record : RoomSecrets(list) \in ClientMessage
  /\ \A s \in Secret : [type |-> "RoomSecrets", secrets |-> {s}] \in ClientMessage
<1>1. [type |-> "JoinIpRoom"] \in ClientMessage
  BY DEF ClientMessage
<1>2. \A known \in SUBSET Secret : [type |-> "RoomSecrets", secrets |-> known] \in ClientMessage
  BY DEF ClientMessage
<1>3. \A list \in SUBSET Record : Secrets(list) \in SUBSET Secret
  BY DEF Record, Secrets
<1>4. \A s \in Secret : {s} \in SUBSET Secret
  OBVIOUS
<1> QED
  BY <1>1, <1>2, <1>3, <1>4, Zenon DEF RoomSecrets

LEMMA ServerMessages ==
  /\ [type |-> "Identity"] \in ServerMessage
  /\ [type |-> "KeyInvalid"] \in ServerMessage
  /\ [type |-> "Canceled"] \in ServerMessage
  /\ \A s \in Secret : /\ [type |-> "Initiated", secret |-> s] \in ServerMessage
                        /\ [type |-> "Joined", secret |-> s] \in ServerMessage
                        /\ [type |-> "Deleted", secret |-> s] \in ServerMessage
  /\ \A old, new \in Secret :
       [type |-> "Regenerated", old |-> old, new |-> new] \in ServerMessage
BY DEF ServerMessage

\* The secrets a frame or a message carries.
LEMMA Carried ==
  /\ \A frame \in ServerMessage :
       /\ frame.type \in {"Initiated", "Joined", "Deleted"} => frame.secret \in Secret
       /\ frame.type = "Regenerated" => frame.old \in Secret /\ frame.new \in Secret
  /\ \A message \in ClientMessage :
       /\ message.type \in {"PairDeviceJoin", "RoomSecretsDeleted"} => message.secret \in Secret
       /\ message.type = "RoomSecrets" => message.secrets \subseteq Secret
BY DEF ServerMessage, ClientMessage

-----------------------------------------------------------------------------
(* Every action keeps the types.                                           *)

LEMMA SendType ==
  ASSUME TypeOK, NEW d \in Device, NEW messages \in Seq(ClientMessage), Send(d, messages)
  PROVE  up' \in [Device -> Seq(ClientMessage)]
<1>1. up[d] \o messages \in Seq(ClientMessage)
  BY DEF TypeOK
<1> QED
  BY <1>1 DEF TypeOK, Send

LEMMA HandledType ==
  ASSUME TypeOK, NEW d \in Device, NEW type, Arrives(d, type), Handled(d)
  PROVE  /\ down' \in [Device -> Seq(ServerMessage)]
         /\ Head(down[d]) \in ServerMessage /\ Head(down[d]).type = type
<1>1. down[d] \in Seq(ServerMessage) /\ down[d] # <<>>
  BY DEF TypeOK, Arrives
<1>2. Tail(down[d]) \in Seq(ServerMessage) /\ Head(down[d]) \in ServerMessage
  BY <1>1, HeadAndTail
<1>3. Head(down[d]).type = type
  BY DEF Arrives
<1> QED
  BY <1>2, <1>3 DEF TypeOK, Handled

LEMMA PushType ==
  ASSUME TypeOK, NEW receivers, NEW frame \in ServerMessage, Push(receivers, frame)
  PROVE  down' \in [Device -> Seq(ServerMessage)]
<1>1. \A d \in Device : Append(down[d], frame) \in Seq(ServerMessage)
  BY DEF TypeOK
<1> QED
  BY <1>1 DEF TypeOK, Push

LEMMA ReadsType ==
  ASSUME TypeOK, NEW d \in Device, NEW type, Reads(d, type)
  PROVE  /\ up' \in [Device -> Seq(ClientMessage)]
         /\ Head(up[d]) \in ClientMessage /\ Head(up[d]).type = type
         /\ UNCHANGED <<devices, active, backend, stored, told, forgotten, link, budget>>
<1>1. up[d] \in Seq(ClientMessage) /\ up[d] # <<>>
  BY DEF TypeOK, Reads
<1>2. Tail(up[d]) \in Seq(ClientMessage) /\ Head(up[d]) \in ClientMessage
  BY <1>1, HeadAndTail
<1>3. Head(up[d]).type = type /\ up' = [up EXCEPT ![d] = Tail(@)]
  BY DEF Reads
<1>4. up' \in [Device -> Seq(ClientMessage)]
  BY <1>2, <1>3 DEF TypeOK
<1> QED
  BY <1>2, <1>3, <1>4 DEF Reads, local

LEMMA LeavesType ==
  ASSUME TypeOK, NEW d \in Device, Leaves(d)
  PROVE  /\ ipRoom' \subseteq Device
         /\ rooms' \in [Secret -> SUBSET Device]
         /\ keys' \in [Secret -> Device \union {None}]
         /\ fresh' \subseteq Secret
BY DEF TypeOK, Leaves

LEMMA CommandTypes ==
  ASSUME TypeOK, NEW d \in Device,
         \/ BeginPairing(d) \/ JoinPairing(d) \/ EngineCommand(d)
  PROVE  TypeOK'
<1>0. budget \in [Kind -> Nat]
  BY DEF TypeOK
<1>1. CASE BeginPairing(d)
  <2>1. up' \in [Device -> Seq(ClientMessage)]
    BY <1>1, SendType, ClientMessages, Sequences, Zenon DEF BeginPairing
  <2>2. budget' \in [Kind -> Nat]
    BY <1>0, <1>1, SpendType DEF BeginPairing
  <2> QED
    BY <1>1, <2>1, <2>2 DEF BeginPairing, TypeOK, local, server
<1>2. CASE JoinPairing(d)
  <2>1. PICK other \in Device : /\ active[other] # None
          /\ Send(d, <<[type |-> "PairDeviceJoin", secret |-> active[other]]>>)
    BY <1>2 DEF JoinPairing
  <2>2. active[other] \in Secret
    BY <2>1 DEF TypeOK
  <2>3. <<[type |-> "PairDeviceJoin", secret |-> active[other]]>> \in Seq(ClientMessage)
    BY <2>2, ClientMessages, Sequences, Zenon
  <2>4. up' \in [Device -> Seq(ClientMessage)]
    BY <2>1, <2>3, SendType
  <2>5. budget' \in [Kind -> Nat]
    BY <1>0, <1>2, SpendType DEF JoinPairing
  <2> QED
    BY <1>2, <2>4, <2>5 DEF JoinPairing, TypeOK, local, server
<1>3. CASE CancelPairing(d)
  <2>1. up' \in [Device -> Seq(ClientMessage)]
    BY <1>3, SendType, ClientMessages, Sequences, Zenon DEF CancelPairing
  <2>2. budget' \in [Kind -> Nat]
    BY <1>0, <1>3, SpendType DEF CancelPairing
  <2> QED
    BY <1>3, <2>1, <2>2 DEF CancelPairing, TypeOK, server
<1>4. ASSUME NEW secret \in Secret, Unpair(d, secret)
      PROVE  TypeOK'
  <2> DEFINE rest == Unpaired(devices[d], secret)
  <2>1. rest \in SUBSET Record
    BY ListTypes DEF TypeOK
  <2>2. <<[type |-> "RoomSecretsDeleted", secret |-> secret], RoomSecrets(rest)>>
          \in Seq(ClientMessage)
    <3>1. RoomSecrets(rest) \in ClientMessage
      BY <2>1, RoomMessages
    <3> QED
      BY <3>1, ClientMessages, Sequences, Zenon
  <2>3. up' \in [Device -> Seq(ClientMessage)]
    BY <1>4, <2>2, SendType DEF Unpair
  <2>4. Persist(d, rest, {"command"})
    BY <1>4 DEF Unpair
  <2> HIDE DEF rest
  <2>5. /\ devices' \in [Device -> SUBSET Record] /\ stored' \in [Device -> SUBSET Record]
        /\ told' \in [Device -> BOOLEAN] /\ budget' \in [Kind -> Nat]
    BY <2>1, <2>4, PersistType
  <2>6. forgotten' \in [Device -> SUBSET Secret]
    BY <1>4 DEF Unpair, TypeOK
  <2> QED
    BY <1>4, <2>3, <2>5, <2>6 DEF Unpair, TypeOK, server
<1>5. ASSUME NEW secret \in Secret, SetDisplayName(d, secret)
      PROVE  TypeOK'
  <2>1. Named(devices[d], secret) \in SUBSET Record
    BY ListTypes DEF TypeOK
  <2>2. /\ devices' \in [Device -> SUBSET Record] /\ stored' \in [Device -> SUBSET Record]
        /\ told' \in [Device -> BOOLEAN] /\ budget' \in [Kind -> Nat]
    BY <1>5, <2>1, PersistType DEF SetDisplayName
  <2> QED
    BY <1>5, <2>2 DEF SetDisplayName, TypeOK, server
<1>6. ASSUME NEW secret \in Secret, NEW enabled \in BOOLEAN,
             SetAutoAccept(d, secret, enabled)
      PROVE  TypeOK'
  <2>1. Trusting(devices[d], secret, enabled) \in SUBSET Record
    BY ListTypes DEF TypeOK
  <2>2. /\ devices' \in [Device -> SUBSET Record] /\ stored' \in [Device -> SUBSET Record]
        /\ told' \in [Device -> BOOLEAN] /\ budget' \in [Kind -> Nat]
    BY <1>6, <2>1, PersistType DEF SetAutoAccept
  <2> QED
    BY <1>6, <2>2 DEF SetAutoAccept, TypeOK, server
<1> QED
  BY <1>1, <1>2, <1>3, <1>4, <1>5, <1>6 DEF EngineCommand

LEMMA HandlerTypes ==
  ASSUME TypeOK, NEW d \in Device, HandleEvent(d)
  PROVE  TypeOK'
<1> DEFINE secret == Head(down[d]).secret
<1>1. CASE HandleIdentity(d)
  <2>1. Replay(d) \in Seq(ClientMessage)
    <3>1. RoomSecrets(devices[d]) \in ClientMessage
      BY RoomMessages DEF TypeOK
    <3> HIDE DEF RoomSecrets
    <3> QED
      BY <3>1, RoomMessages DEF Replay
  <2>2. up' \in [Device -> Seq(ClientMessage)]
    BY <1>1, <2>1, SendType DEF HandleIdentity
  <2>3. down' \in [Device -> Seq(ServerMessage)]
    BY <1>1, HandledType DEF HandleIdentity
  <2> QED
    BY <1>1, <2>2, <2>3 DEF HandleIdentity, TypeOK, local, server
<1>2. CASE HandleInitiated(d)
  <2>1. down' \in [Device -> Seq(ServerMessage)] /\ secret \in Secret
    BY <1>2, HandledType, Carried DEF HandleInitiated
  <2>2. active' \in [Device -> Secret \union {None}]
    BY <1>2, <2>1 DEF HandleInitiated, TypeOK
  <2> QED
    BY <1>2, <2>1, <2>2 DEF HandleInitiated, TypeOK, server
<1>3. CASE HandleJoined(d)
  <2>1. down' \in [Device -> Seq(ServerMessage)] /\ secret \in Secret
    BY <1>3, HandledType, Carried DEF HandleJoined
  <2>2. up' \in [Device -> Seq(ClientMessage)]
    <3>1. <<[type |-> "RoomSecrets", secrets |-> {secret}]>> \in Seq(ClientMessage)
      BY <2>1, RoomMessages, Sequences, Zenon
    <3> QED
      BY <1>3, <3>1, SendType DEF HandleJoined
  <2>3. Paired(devices[d], secret) \in SUBSET Record
    BY <2>1, ListTypes DEF TypeOK
  <2>4. /\ devices' \in [Device -> SUBSET Record] /\ stored' \in [Device -> SUBSET Record]
        /\ told' \in [Device -> BOOLEAN] /\ budget' \in [Kind -> Nat]
    BY <1>3, <2>3, PersistType DEF HandleJoined
  <2>5. active' \in [Device -> Secret \union {None}]
    BY <1>3 DEF HandleJoined, TypeOK
  <2> HIDE DEF secret
  <2> QED
    BY <1>3, <2>1, <2>2, <2>4, <2>5 DEF HandleJoined, TypeOK, server
<1>4. CASE HandleCanceled(d)
  <2>1. down' \in [Device -> Seq(ServerMessage)]
    BY <1>4, HandledType DEF HandleCanceled
  <2>2. active' \in [Device -> Secret \union {None}]
    BY <1>4 DEF HandleCanceled, TypeOK
  <2> QED
    BY <1>4, <2>1, <2>2 DEF HandleCanceled, TypeOK, server
<1>5. CASE HandleDeleted(d)
  <2>1. down' \in [Device -> Seq(ServerMessage)] /\ secret \in Secret
    BY <1>5, HandledType, Carried DEF HandleDeleted
  <2>2. Unpaired(devices[d], secret) \in SUBSET Record
    BY <2>1, ListTypes DEF TypeOK
  <2>3. /\ devices' \in [Device -> SUBSET Record] /\ stored' \in [Device -> SUBSET Record]
        /\ told' \in [Device -> BOOLEAN] /\ budget' \in [Kind -> Nat]
    BY <1>5, <2>2, PersistType DEF HandleDeleted
  <2> QED
    BY <1>5, <2>1, <2>3 DEF HandleDeleted, TypeOK, server
<1>6. CASE HandleRegenerated(d)
  <2> DEFINE old == Head(down[d]).old
             new == Head(down[d]).new
             list == Rotated(devices[d], old, new)
  <2>1. down' \in [Device -> Seq(ServerMessage)] /\ old \in Secret /\ new \in Secret
    BY <1>6, HandledType, Carried DEF HandleRegenerated
  <2>2. list \in SUBSET Record
    BY <2>1, ListTypes DEF TypeOK
  <2>3. \/ Persist(d, list, {}) /\ Send(d, <<RoomSecrets(list)>>)
        \/ UNCHANGED <<devices, stored, told, up, budget>>
    BY <1>6 DEF HandleRegenerated
  <2>4. <<RoomSecrets(list)>> \in Seq(ClientMessage)
    <3>1. RoomSecrets(list) \in ClientMessage
      BY <2>2, RoomMessages
    <3> QED
      BY <3>1
  <2> HIDE DEF list
  <2>5. /\ devices' \in [Device -> SUBSET Record] /\ stored' \in [Device -> SUBSET Record]
        /\ told' \in [Device -> BOOLEAN] /\ budget' \in [Kind -> Nat]
        /\ up' \in [Device -> Seq(ClientMessage)]
    <3>1. CASE Persist(d, list, {}) /\ Send(d, <<RoomSecrets(list)>>)
      BY <3>1, <2>2, <2>4, PersistType, SendType
    <3>2. CASE UNCHANGED <<devices, stored, told, up, budget>>
      BY <3>2 DEF TypeOK
    <3> QED
      BY <2>3, <3>1, <3>2
  <2> QED
    BY <1>6, <2>1, <2>5 DEF HandleRegenerated, TypeOK, server
<1> QED
  BY <1>1, <1>2, <1>3, <1>4, <1>5, <1>6 DEF HandleEvent

LEMMA LinkTypes ==
  ASSUME TypeOK, NEW d \in Device,
         Connect(d) \/ ConnectFails(d) \/ Retry(d) \/ Drop(d) \/ Restart(d)
  PROVE  TypeOK'
<1>0. budget \in [Kind -> Nat]
  BY DEF TypeOK
<1>1. CASE Connect(d)
  <2>1. Append(down[d], [type |-> "Identity"]) \in Seq(ServerMessage)
    BY ServerMessages DEF TypeOK
  <2>2. down' \in [Device -> Seq(ServerMessage)]
    BY <1>1, <2>1 DEF Connect, TypeOK
  <2> QED
    BY <1>1, <2>2 DEF Connect, TypeOK, local, server
<1>2. CASE ConnectFails(d)
  <2>1. budget' \in [Kind -> Nat]
    BY <1>0, <1>2, SpendType DEF ConnectFails
  <2> QED
    BY <1>2, <2>1 DEF ConnectFails, TypeOK, local, server
<1>3. CASE Retry(d)
  <2>1. up[d] # <<>> => Tail(up[d]) \in Seq(ClientMessage)
    BY HeadAndTail DEF TypeOK
  <2>2. up' \in [Device -> Seq(ClientMessage)]
    BY <1>3, <2>1 DEF Retry, TypeOK
  <2> QED
    BY <1>3, <2>2 DEF Retry, TypeOK, local, server
<1>4. CASE Drop(d)
  <2>1. up' \in [Device -> Seq(ClientMessage)]
    <3>1. PICK n \in 0..Len(up[d]) : up' = [up EXCEPT ![d] = SubSeq(up[d], n + 1, Len(up[d]))]
      BY <1>4 DEF Drop
    <3>2. SubSeq(up[d], n + 1, Len(up[d])) \in Seq(ClientMessage)
      BY Truncated DEF TypeOK
    <3> QED
      BY <3>1, <3>2 DEF TypeOK
  <2>2. down' \in [Device -> Seq(ServerMessage)]
    <3>1. PICK n \in 0..Len(down[d]) : down' = [down EXCEPT ![d] = SubSeq(down[d], 1, n)]
      BY <1>4 DEF Drop
    <3>2. SubSeq(down[d], 1, n) \in Seq(ServerMessage)
      BY Truncated DEF TypeOK
    <3> QED
      BY <3>1, <3>2 DEF TypeOK
  <2>3. budget' \in [Kind -> Nat]
    BY <1>0, <1>4, SpendType DEF Drop
  <2>4. /\ ipRoom' \subseteq Device /\ rooms' \in [Secret -> SUBSET Device]
        /\ keys' \in [Secret -> Device \union {None}] /\ fresh' \subseteq Secret
    BY <1>4, LeavesType DEF Drop
  <2>5. link' \in [Device -> {"waiting", "connecting", "connected"}] /\ UNCHANGED local
    BY <1>4 DEF Drop, TypeOK
  <2> QED
    BY <2>1, <2>2, <2>3, <2>4, <2>5 DEF TypeOK, local
<1>5. CASE Restart(d)
  <2>1. /\ up' \in [Device -> Seq(ClientMessage)]
        /\ down' \in [Device -> Seq(ServerMessage)]
    <3>1. /\ up' = [up EXCEPT ![d] = <<>>]
          /\ down' = [down EXCEPT ![d] = <<>>]
      BY <1>5 DEF Restart
    <3> QED
      BY <3>1 DEF TypeOK
  <2>2. budget' \in [Kind -> Nat]
    BY <1>0, <1>5, SpendType DEF Restart
  <2>3. /\ ipRoom' \subseteq Device /\ rooms' \in [Secret -> SUBSET Device]
        /\ keys' \in [Secret -> Device \union {None}] /\ fresh' \subseteq Secret
    BY <1>5, LeavesType DEF Restart
  <2>4. link' \in [Device -> {"waiting", "connecting", "connected"}]
    BY <1>5 DEF Restart, TypeOK
  <2>5. /\ devices' \in [Device -> SUBSET Record]
        /\ backend' \in [Device -> {"keyring", "memory"}]
        /\ told' \in [Device -> BOOLEAN]
        /\ active' \in [Device -> Secret \union {None}]
    <3>1. devices' = [devices EXCEPT ![d] = stored[d]] \/ devices' = [devices EXCEPT ![d] = {}]
      BY <1>5 DEF Restart
    <3>2. \E found \in {"keyring", "memory"} : backend' = [backend EXCEPT ![d] = found]
      BY <1>5 DEF Restart
    <3>3. \E known \in BOOLEAN : told' = [told EXCEPT ![d] = known]
      BY <1>5 DEF Restart
    <3>4. active' = [active EXCEPT ![d] = None]
      BY <1>5 DEF Restart
    <3>5. devices' \in [Device -> SUBSET Record]
      BY <3>1 DEF TypeOK
    <3>6. backend' \in [Device -> {"keyring", "memory"}]
      BY <3>2 DEF TypeOK
    <3>7. told' \in [Device -> BOOLEAN]
      BY <3>3 DEF TypeOK
    <3>8. active' \in [Device -> Secret \union {None}]
      BY <3>4 DEF TypeOK
    <3> QED
      BY <3>5, <3>6, <3>7, <3>8
  <2>6. UNCHANGED <<stored, forgotten>>
    BY <1>5 DEF Restart
  <2> QED
    BY <2>1, <2>2, <2>3, <2>4, <2>5, <2>6 DEF TypeOK
<1> QED
  BY <1>1, <1>2, <1>3, <1>4, <1>5

LEMMA ServerTypes ==
  ASSUME TypeOK, NEW d \in Device, Server(d)
  PROVE  TypeOK'
<1>1. CASE ServerJoinsIpRoom(d)
  <2>1. /\ up' \in [Device -> Seq(ClientMessage)]
        /\ UNCHANGED <<devices, active, backend, stored, told, forgotten, link, budget>>
    BY <1>1, ReadsType DEF ServerJoinsIpRoom
  <2> QED
    BY <1>1, <2>1 DEF ServerJoinsIpRoom, TypeOK
<1>2. CASE ServerRegisters(d)
  <2>1. /\ up' \in [Device -> Seq(ClientMessage)]
        /\ UNCHANGED <<devices, active, backend, stored, told, forgotten, link, budget>>
    BY <1>2, ReadsType DEF ServerRegisters
  <2>2. rooms' \in [Secret -> SUBSET Device]
    BY <1>2 DEF ServerRegisters, TypeOK
  <2> QED
    BY <1>2, <2>1, <2>2 DEF ServerRegisters, TypeOK
<1>3. CASE ServerDeletes(d)
  <2> DEFINE secret == Head(up[d]).secret
  <2>1. /\ up' \in [Device -> Seq(ClientMessage)] /\ secret \in Secret
        /\ UNCHANGED <<devices, active, backend, stored, told, forgotten, link, budget>>
    BY <1>3, ReadsType, Carried DEF ServerDeletes
  <2>2. [type |-> "Deleted", secret |-> secret] \in ServerMessage
    BY <2>1, ServerMessages
  <2>3. down' \in [Device -> Seq(ServerMessage)]
    BY <1>3, <2>2, PushType DEF ServerDeletes
  <2>4. rooms' \in [Secret -> SUBSET Device]
    BY <1>3 DEF ServerDeletes, TypeOK
  <2> QED
    BY <1>3, <2>1, <2>3, <2>4 DEF ServerDeletes, TypeOK
<1>4. CASE ServerInitiates(d)
  <2>1. /\ up' \in [Device -> Seq(ClientMessage)]
        /\ UNCHANGED <<devices, active, backend, stored, told, forgotten, link, budget>>
    BY <1>4, ReadsType DEF ServerInitiates
  <2>2. UNCHANGED <<ipRoom, rooms>>
    BY <1>4 DEF ServerInitiates
  <2>3. /\ down' \in [Device -> Seq(ServerMessage)] /\ fresh' \subseteq Secret
        /\ keys' \in [Secret -> Device \union {None}]
    <3>1. CASE UNCHANGED <<fresh, keys, down>>
      BY <3>1 DEF TypeOK
    <3>2. CASE \E secret \in fresh :
                 /\ fresh' = fresh \ {secret}
                 /\ keys' = [keys EXCEPT ![secret] = d]
                 /\ Push({d}, [type |-> "Initiated", secret |-> secret])
      <4>1. PICK secret \in fresh :
                 /\ fresh' = fresh \ {secret}
                 /\ keys' = [keys EXCEPT ![secret] = d]
                 /\ Push({d}, [type |-> "Initiated", secret |-> secret])
        BY <3>2
      <4>2. [type |-> "Initiated", secret |-> secret] \in ServerMessage
        BY ServerMessages DEF TypeOK
      <4>3. down' \in [Device -> Seq(ServerMessage)]
        BY <4>1, <4>2, PushType
      <4> QED
        BY <4>1, <4>3 DEF TypeOK
    <3> QED
      BY <1>4, <3>1, <3>2 DEF ServerInitiates
  <2> QED
    BY <2>1, <2>2, <2>3 DEF TypeOK
<1>5. CASE ServerPairs(d)
  <2> DEFINE secret == Head(up[d]).secret
  <2>1. /\ up' \in [Device -> Seq(ClientMessage)] /\ secret \in Secret
        /\ UNCHANGED <<devices, active, backend, stored, told, forgotten, link, budget>>
    BY <1>5, ReadsType, Carried DEF ServerPairs
  <2>2. /\ [type |-> "Joined", secret |-> secret] \in ServerMessage
        /\ [type |-> "KeyInvalid"] \in ServerMessage
    BY <2>1, ServerMessages
  <2>3. down' \in [Device -> Seq(ServerMessage)]
    BY <1>5, <2>2, PushType DEF ServerPairs
  <2>4. keys' \in [Secret -> Device \union {None}]
    BY <1>5 DEF ServerPairs, TypeOK
  <2> QED
    BY <1>5, <2>1, <2>3, <2>4 DEF ServerPairs, TypeOK
<1>6. CASE ServerCancels(d)
  <2>1. /\ up' \in [Device -> Seq(ClientMessage)]
        /\ UNCHANGED <<devices, active, backend, stored, told, forgotten, link, budget>>
    BY <1>6, ReadsType DEF ServerCancels
  <2>2. down' \in [Device -> Seq(ServerMessage)]
    BY <1>6, ServerMessages, PushType DEF ServerCancels
  <2>3. keys' \in [Secret -> Device \union {None}]
    BY <1>6 DEF ServerCancels, TypeOK
  <2> QED
    BY <1>6, <2>1, <2>2, <2>3 DEF ServerCancels, TypeOK
<1> QED
  BY <1>1, <1>2, <1>3, <1>4, <1>5, <1>6 DEF Server

LEMMA RotationTypes ==
  ASSUME TypeOK, NEW old \in Secret, NEW new \in Secret, ServerRotates(old, new)
  PROVE  TypeOK'
<1>1. [type |-> "Regenerated", old |-> old, new |-> new] \in ServerMessage
  BY ServerMessages
<1>2. down' \in [Device -> Seq(ServerMessage)]
  BY <1>1, PushType DEF ServerRotates
<1>3. budget \in [Kind -> Nat]
  BY DEF TypeOK
<1>4. budget' \in [Kind -> Nat]
  BY <1>3, SpendType DEF ServerRotates
<1>5. rooms' \in [Secret -> SUBSET Device]
  BY DEF ServerRotates, TypeOK
<1> QED
  BY <1>2, <1>4, <1>5 DEF ServerRotates, TypeOK, local

LEMMA InitTypeOK == Init => TypeOK
<1>1. Limits \subseteq [Kind -> Nat]
  BY BoundAssumption
<1> QED
  BY <1>1 DEF Init, TypeOK

LEMMA NextTypeOK ==
  ASSUME TypeOK, [Next]_vars
  PROVE  TypeOK'
<1>1. CASE Next
  BY <1>1, CommandTypes, HandlerTypes, LinkTypes, ServerTypes, RotationTypes DEF Next
<1>2. CASE UNCHANGED vars
  BY <1>2 DEF TypeOK, vars, local, server
<1> QED
  BY <1>1, <1>2

\* The variables keep their types, whatever the user, the server, the keyring and the
\* network do: a list of pairings holds only secrets the server handed out, and a queue
\* only messages its reader knows.
THEOREM TypeCorrect == Spec => []TypeOK
BY InitTypeOK, NextTypeOK, PTL DEF Spec

-----------------------------------------------------------------------------
(* The user knows when pairings are not saved.                             *)

\* Only the operations on the list and a new process touch the list and the store.
LEMMA StorageSteps ==
  ASSUME [Next]_vars
  PROVE  \/ \E d \in Device : \E list, spent : Persist(d, list, spent) /\ UNCHANGED backend
         \/ \E d \in Device : Restart(d)
         \/ UNCHANGED <<devices, backend, stored, told>>
<1>1. CASE UNCHANGED vars
  BY <1>1 DEF vars, local
<1>2. ASSUME NEW d \in Device, EngineCommand(d)
      PROVE  \/ \E list, spent : Persist(d, list, spent) /\ UNCHANGED backend
             \/ UNCHANGED <<devices, backend, stored, told>>
  <2>1. CASE CancelPairing(d)
    BY <2>1 DEF CancelPairing
  <2>2. ASSUME NEW secret \in Secret,
               \/ Unpair(d, secret) \/ SetDisplayName(d, secret)
               \/ \E enabled \in BOOLEAN : SetAutoAccept(d, secret, enabled)
        PROVE  \E list, spent : Persist(d, list, spent) /\ UNCHANGED backend
    BY <2>2, Zenon DEF Unpair, SetDisplayName, SetAutoAccept
  <2> QED
    BY <1>2, <2>1, <2>2 DEF EngineCommand
<1>3. ASSUME NEW d \in Device, HandleEvent(d)
      PROVE  \/ \E list, spent : Persist(d, list, spent) /\ UNCHANGED backend
             \/ UNCHANGED <<devices, backend, stored, told>>
  <2>1. CASE HandleIdentity(d) \/ HandleInitiated(d) \/ HandleCanceled(d)
    BY <2>1 DEF HandleIdentity, HandleInitiated, HandleCanceled, local
  <2>2. CASE HandleJoined(d)
    BY <2>2, Zenon DEF HandleJoined
  <2>3. CASE HandleDeleted(d)
    BY <2>3, Zenon DEF HandleDeleted
  <2>4. CASE HandleRegenerated(d)
    BY <2>4, Zenon DEF HandleRegenerated
  <2> QED
    BY <1>3, <2>1, <2>2, <2>3, <2>4 DEF HandleEvent
<1>4. ASSUME NEW d \in Device, Server(d)
      PROVE  UNCHANGED <<devices, backend, stored, told>>
  BY <1>4 DEF Server, ServerJoinsIpRoom, ServerRegisters, ServerDeletes, ServerInitiates,
     ServerPairs, ServerCancels, Reads, local
<1>5. ASSUME NEW d \in Device, \/ BeginPairing(d) \/ JoinPairing(d) \/ Connect(d)
                               \/ ConnectFails(d) \/ Retry(d) \/ Drop(d)
      PROVE  UNCHANGED <<devices, backend, stored, told>>
  BY <1>5 DEF BeginPairing, JoinPairing, Connect, ConnectFails, Retry, Drop, local
<1>6. ASSUME NEW old, NEW new, ServerRotates(old, new)
      PROVE  UNCHANGED <<devices, backend, stored, told>>
  BY <1>6 DEF ServerRotates, local
<1> QED
  BY <1>1, <1>2, <1>3, <1>4, <1>5, <1>6 DEF Next

\* What a step takes from the budget of the environment it takes for good.
LEMMA BudgetFalls ==
  ASSUME TypeOK, [Next]_vars
  PROVE  \A k \in Kind : budget'[k] <= budget[k]
<1>0. budget \in [Kind -> Nat]
  BY DEF TypeOK
<1>1. (\E kinds : Spend(kinds)) \/ UNCHANGED budget
  <2>1. CASE UNCHANGED vars
    BY <2>1 DEF vars
  <2>2. ASSUME NEW d, NEW list, NEW spent, Persist(d, list, spent)
        PROVE  \E kinds : Spend(kinds)
    BY <2>2, Zenon DEF Persist
  <2>3. ASSUME NEW d, EngineCommand(d)
        PROVE  \E kinds : Spend(kinds)
    <3>1. CASE CancelPairing(d)
      BY <3>1, Zenon DEF CancelPairing
    <3>2. ASSUME NEW secret \in Secret,
                 \/ Unpair(d, secret) \/ SetDisplayName(d, secret)
                 \/ \E enabled \in BOOLEAN : SetAutoAccept(d, secret, enabled)
          PROVE  \E list, spent : Persist(d, list, spent)
      BY <3>2, Zenon DEF Unpair, SetDisplayName, SetAutoAccept
    <3> QED
      BY <2>2, <2>3, <3>1, <3>2, Zenon DEF EngineCommand
  <2>4. ASSUME NEW d, HandleEvent(d)
        PROVE  (\E list, spent : Persist(d, list, spent)) \/ UNCHANGED budget
    BY <2>4, Zenon DEF HandleEvent, HandleIdentity, HandleInitiated, HandleJoined,
       HandleCanceled, HandleDeleted, HandleRegenerated
  <2>5. ASSUME NEW d, Server(d)
        PROVE  UNCHANGED budget
    BY <2>5 DEF Server, ServerJoinsIpRoom, ServerRegisters, ServerDeletes, ServerInitiates,
       ServerPairs, ServerCancels, Reads
  <2>6. ASSUME NEW d, \/ BeginPairing(d) \/ JoinPairing(d) \/ Connect(d)
                     \/ ConnectFails(d) \/ Retry(d) \/ Drop(d) \/ Restart(d)
        PROVE  (\E kinds : Spend(kinds)) \/ UNCHANGED budget
    BY <2>6, Zenon DEF BeginPairing, JoinPairing, Connect, ConnectFails, Retry, Drop, Restart
  <2>7. ASSUME NEW old, NEW new, ServerRotates(old, new)
        PROVE  \E kinds : Spend(kinds)
    BY <2>7, Zenon DEF ServerRotates
  <2> QED
    BY <2>1, <2>2, <2>3, <2>4, <2>5, <2>6, <2>7 DEF Next
<1>2. CASE UNCHANGED budget
  BY <1>0, <1>2
<1>3. ASSUME NEW kinds, Spend(kinds)
      PROVE  \A k \in Kind : budget'[k] <= budget[k]
  BY <1>0, <1>3, SpendType
<1> QED
  BY <1>1, <1>2, <1>3

LEMMA NoneSoFar ==
  ASSUME TypeOK, Counted, [Next]_vars
  PROVE  /\ budget'["loadFailure"] <= MaxLoadFailures
         /\ budget'["deleteFailure"] <= MaxDeleteFailures
         /\ NoneUnread' => NoneUnread /\ budget'["loadFailure"] = budget["loadFailure"]
         /\ NoneUndeleted' => NoneUndeleted /\ budget'["deleteFailure"] = budget["deleteFailure"]
<1>1. budget \in [Kind -> Nat] /\ budget' \in [Kind -> Nat]
  BY NextTypeOK DEF TypeOK
<1>2. "loadFailure" \in Kind /\ "deleteFailure" \in Kind
  BY DEF Kind
<1>3. /\ budget'["loadFailure"] <= budget["loadFailure"]
      /\ budget'["deleteFailure"] <= budget["deleteFailure"]
  BY <1>2, BudgetFalls
<1>4. MaxLoadFailures \in Nat /\ MaxDeleteFailures \in Nat
  BY BoundAssumption
<1>5. /\ budget["loadFailure"] \in Nat /\ budget["deleteFailure"] \in Nat
      /\ budget'["loadFailure"] \in Nat /\ budget'["deleteFailure"] \in Nat
  BY <1>1, <1>2
<1> QED
  BY <1>3, <1>4, <1>5 DEF Counted, NoneUnread, NoneUndeleted

LEMMA StepCounted ==
  ASSUME TypeOK, Counted, [Next]_vars
  PROVE  Counted'
<1>1. \A d \in Device : backend'[d] = "memory" => told'[d]
  <2>1. CASE UNCHANGED <<devices, backend, stored, told>>
    BY <2>1 DEF Counted
  <2>2. ASSUME NEW d \in Device, NEW list, NEW spent, Persist(d, list, spent), UNCHANGED backend
        PROVE  \A e \in Device : backend'[e] = "memory" => told'[e]
    BY <2>2 DEF Counted, TypeOK, Persist
  <2>3. ASSUME NEW d \in Device, Restart(d)
        PROVE  \A e \in Device : backend'[e] = "memory" => told'[e]
    <3>1. \/ backend' = [backend EXCEPT ![d] = "keyring"] /\ told' = [told EXCEPT ![d] = FALSE]
          \/ backend' = [backend EXCEPT ![d] = "memory"] /\ told' = [told EXCEPT ![d] = TRUE]
      BY <2>3 DEF Restart
    <3> QED
      BY <3>1 DEF Counted, TypeOK
  <2> QED
    BY <2>1, <2>2, <2>3, StorageSteps
<1> QED
  BY <1>1, NoneSoFar DEF Counted

LEMMA StepUnsavedIsReported ==
  ASSUME TypeOK, Counted, UnsavedIsReported, [Next]_vars
  PROVE  UnsavedIsReported'
<1> SUFFICES ASSUME NoneUnread', NoneUndeleted', NEW e \in Device, devices'[e] # stored'[e]
             PROVE  told'[e]
  BY DEF UnsavedIsReported, StorageFailureIsReported
<1>0. budget \in [Kind -> Nat] /\ "loadFailure" \in Kind /\ "deleteFailure" \in Kind
  BY DEF TypeOK, Kind
<1>1. devices[e] # stored[e] => told[e]
  BY NoneSoFar DEF UnsavedIsReported, StorageFailureIsReported
<1>2. budget'["loadFailure"] = budget["loadFailure"] /\ budget'["deleteFailure"] = budget["deleteFailure"]
  BY NoneSoFar
<1>3. ASSUME NEW kinds, Spend(kinds)
      PROVE  "loadFailure" \notin kinds /\ "deleteFailure" \notin kinds
  BY <1>0, <1>2, <1>3, SpendType
<1>4. CASE UNCHANGED <<devices, backend, stored, told>>
  BY <1>1, <1>4
<1>5. ASSUME NEW d \in Device, NEW list, NEW spent, Persist(d, list, spent), UNCHANGED backend
      PROVE  told'[e]
  <2>1. ~Spend(spent \union {"deleteFailure"})
    BY <1>3
  <2>2. CASE e # d
    BY <1>1, <1>5, <2>2 DEF TypeOK, Persist
  <2>3. CASE e = d
    <3>1. CASE backend[d] = "memory" /\ UNCHANGED <<stored, told>>
      BY <2>3, <3>1 DEF Counted
    <3>2. CASE stored' = [stored EXCEPT ![d] = list]
      BY <1>5, <2>3, <3>2 DEF TypeOK, Persist
    <3>3. CASE told' = [told EXCEPT ![d] = TRUE]
      BY <2>3, <3>3 DEF TypeOK
    <3> QED
      BY <1>5, <2>1, <3>1, <3>2, <3>3, Zenon DEF Persist
  <2> QED
    BY <2>2, <2>3
<1>6. ASSUME NEW d \in Device, Restart(d)
      PROVE  told'[e]
  <2>1. ~Spend({"restart", "loadFailure"})
    BY <1>3
  <2>2. UNCHANGED stored
    BY <1>6 DEF Restart
  <2>3. \/ devices' = [devices EXCEPT ![d] = stored[d]] /\ told' = [told EXCEPT ![d] = FALSE]
        \/ devices' = [devices EXCEPT ![d] = {}] /\ told' = [told EXCEPT ![d] = TRUE]
    BY <1>6, <2>1 DEF Restart
  <2> QED
    <3>1. CASE e # d
      BY <1>1, <2>2, <2>3, <3>1 DEF TypeOK
    <3>2. CASE e = d
      <4>1. \/ devices'[d] = stored[d]
            \/ told'[d]
        BY <2>3 DEF TypeOK
      <4> QED
        BY <2>2, <3>2, <4>1
    <3> QED
      BY <3>1, <3>2
<1> QED
  BY <1>4, <1>5, <1>6, StorageSteps

LEMMA InitReported == Init => Counted /\ UnsavedIsReported
<1> SUFFICES ASSUME Init
             PROVE  Counted /\ UnsavedIsReported
  OBVIOUS
<1>1. budget["loadFailure"] = MaxLoadFailures /\ budget["deleteFailure"] = MaxDeleteFailures
  BY BoundAssumption DEF Init
<1>2. MaxLoadFailures <= MaxLoadFailures /\ MaxDeleteFailures <= MaxDeleteFailures
  BY BoundAssumption
<1>3. \A d \in Device : backend[d] # "memory"
  BY DEF Init
<1>4. \A d \in Device : devices[d] = stored[d]
  BY DEF Init
<1> QED
  BY <1>1, <1>2, <1>3, <1>4 DEF Counted, UnsavedIsReported, StorageFailureIsReported

\* As long as every entry of the keyring could be read and deleted, pairings that differ from
\* what the keyring holds are never news to the user: Pairing.persist and Store::open report
\* each of the failures they see, across any saves, rotations, late frames and restarts.
THEOREM UnsavedReported == Spec => []UnsavedIsReported
<1>1. Init => TypeOK /\ Counted /\ UnsavedIsReported
  BY InitTypeOK, InitReported
<1>2. TypeOK /\ Counted /\ UnsavedIsReported /\ [Next]_vars
        => (TypeOK /\ Counted /\ UnsavedIsReported)'
  BY NextTypeOK, StepCounted, StepUnsavedIsReported
<1> QED
  BY <1>1, <1>2, PTL DEF Spec

-----------------------------------------------------------------------------
(* What each kind of step leaves in the queues.                            *)

LEMMA SendKeeps ==
  ASSUME TypeOK, NEW d \in Device, NEW messages \in Seq(ClientMessage), Send(d, messages),
         NEW e \in Device
  PROVE  /\ Elements(up[e]) \subseteq Elements(up'[e])
         /\ Elements(messages) \subseteq Elements(up'[d])
<1>1. up[d] \in Seq(ClientMessage)
  BY DEF TypeOK
<1>2. up'[d] = up[d] \o messages
  BY DEF Send, TypeOK
<1>3. Elements(up'[d]) = Elements(up[d]) \union Elements(messages)
  BY <1>1, <1>2, ElementsOfConcat
<1>4. e # d => up'[e] = up[e]
  BY DEF Send, TypeOK
<1> QED
  BY <1>3, <1>4

LEMMA HandledKeeps ==
  ASSUME TypeOK, NEW d \in Device, NEW type, Arrives(d, type), Handled(d), NEW e \in Device
  PROVE  /\ e # d => down'[e] = down[e]
         /\ down'[d] = Tail(down[d])
         /\ \A m \in Elements(down[e]) : m # Head(down[d]) => m \in Elements(down'[e])
         /\ Elements(down'[e]) \subseteq Elements(down[e])
         /\ Head(down[d]) \in Elements(down[d])
<1>1. down[d] \in Seq(ServerMessage) /\ down[d] # <<>>
  BY DEF TypeOK, Arrives
<1>2. down'[d] = Tail(down[d]) /\ (e # d => down'[e] = down[e])
  BY DEF Handled, TypeOK
<1>3. Elements(down[d]) = {Head(down[d])} \union Elements(down'[d])
  BY <1>1, <1>2, ElementsOfTail
<1> QED
  BY <1>2, <1>3

LEMMA ReadsKeeps ==
  ASSUME TypeOK, NEW d \in Device, NEW type, Reads(d, type), NEW e \in Device
  PROVE  /\ e # d => up'[e] = up[e]
         /\ Head(up[d]).type = type
         /\ \A m \in Elements(up[e]) : m # Head(up[d]) => m \in Elements(up'[e])
<1>1. up[d] \in Seq(ClientMessage) /\ up[d] # <<>> /\ Head(up[d]).type = type
  BY DEF TypeOK, Reads
<1>2. up'[d] = Tail(up[d]) /\ (e # d => up'[e] = up[e])
  BY DEF Reads, TypeOK
<1>3. Elements(up[d]) = {Head(up[d])} \union Elements(up'[d])
  BY <1>1, <1>2, ElementsOfTail
<1> QED
  BY <1>1, <1>2, <1>3

LEMMA PushKeeps ==
  ASSUME TypeOK, NEW receivers, NEW frame \in ServerMessage, Push(receivers, frame),
         NEW e \in Device
  PROVE  /\ Elements(down[e]) \subseteq Elements(down'[e])
         /\ Elements(down'[e]) \subseteq Elements(down[e]) \union {frame}
         /\ e \in receivers => frame \in Elements(down'[e])
         /\ e \notin receivers => down'[e] = down[e]
<1>1. down[e] \in Seq(ServerMessage)
  BY DEF TypeOK
<1>2. down'[e] = IF e \in receivers THEN Append(down[e], frame) ELSE down[e]
  BY DEF Push
<1>3. Elements(Append(down[e], frame)) = Elements(down[e]) \union {frame}
  BY <1>1, ElementsOfAppend
<1> QED
  BY <1>2, <1>3

-----------------------------------------------------------------------------
(* A connected device gets into its rooms.                                 *)

LEMMA IpRoomStill ==
  ASSUME NEW e \in Device, IpRoomOnItsWay(e), e \in ipRoom => e \in ipRoom',
         \A m \in Elements(up[e]) : m.type = "JoinIpRoom" => m \in Elements(up'[e]),
         \A m \in Elements(down[e]) : m.type = "Identity" => m \in Elements(down'[e])
  PROVE  IpRoomOnItsWay(e)'
BY DEF IpRoomOnItsWay

LEMMA RoomStill ==
  ASSUME NEW e \in Device, NEW s \in Secret, RoomOnItsWay(e, s),
         s \in Secrets(devices'[e]) => s \in Secrets(devices[e]),
         e \in rooms[s] => e \in rooms'[s],
         \A m \in Elements(up[e]) :
           m.type = "RoomSecrets" /\ s \in m.secrets => m \in Elements(up'[e]),
         \A m \in Elements(down[e]) :
           (\/ m.type = "Identity"
            \/ m.type = "Deleted" /\ m.secret = s
            \/ m.type = "Regenerated" /\ m.old = s) => m \in Elements(down'[e])
  PROVE  RoomOnItsWay(e, s)'
<1> SUFFICES ASSUME s \in Secrets(devices'[e]), e \notin rooms'[s]
             PROVE  \/ [type |-> "Identity"] \in Elements(down'[e])
                    \/ \E m \in Elements(up'[e]) : m.type = "RoomSecrets" /\ s \in m.secrets
                    \/ [type |-> "Deleted", secret |-> s] \in Elements(down'[e])
                    \/ \E m \in Elements(down'[e]) : m.type = "Regenerated" /\ m.old = s
  BY DEF RoomOnItsWay
<1>1. s \in Secrets(devices[e]) /\ e \notin rooms[s]
  OBVIOUS
<1>2. CASE [type |-> "Identity"] \in Elements(down[e])
  <2> DEFINE m == [type |-> "Identity"]
  <2>1. m \in Elements(down[e]) /\ m.type = "Identity"
    BY <1>2
  <2> HIDE DEF m
  <2>2. m \in Elements(down'[e])
    BY <2>1
  <2> QED
    BY <2>2 DEF m
<1>3. CASE \E m \in Elements(up[e]) : m.type = "RoomSecrets" /\ s \in m.secrets
  BY <1>3
<1>4. CASE [type |-> "Deleted", secret |-> s] \in Elements(down[e])
  <2> DEFINE m == [type |-> "Deleted", secret |-> s]
  <2>1. m \in Elements(down[e]) /\ m.type = "Deleted" /\ m.secret = s
    BY <1>4
  <2> HIDE DEF m
  <2>2. m \in Elements(down'[e])
    BY <2>1
  <2> QED
    BY <2>2 DEF m
<1>5. CASE \E m \in Elements(down[e]) : m.type = "Regenerated" /\ m.old = s
  BY <1>5
<1> QED
  BY <1>1, <1>2, <1>3, <1>4, <1>5 DEF RoomOnItsWay

\* A step that leaves a device alone, or only gives it more to say and to hear.
LEMMA RoomsStill ==
  ASSUME RoomsOnTheirWay, NEW e \in Device, link[e] = "connected",
         e \in ipRoom => e \in ipRoom',
         \A s \in Secret : e \in rooms[s] => e \in rooms'[s],
         Elements(up[e]) \subseteq Elements(up'[e]),
         Elements(down[e]) \subseteq Elements(down'[e]),
         Secrets(devices'[e]) \subseteq Secrets(devices[e])
  PROVE  IpRoomOnItsWay(e)' /\ \A s \in Secret : RoomOnItsWay(e, s)'
<1>1. IpRoomOnItsWay(e) /\ \A s \in Secret : RoomOnItsWay(e, s)
  BY DEF RoomsOnTheirWay
<1>2. IpRoomOnItsWay(e)'
  BY <1>1, IpRoomStill
<1>3. ASSUME NEW s \in Secret
      PROVE  RoomOnItsWay(e, s)'
  BY <1>1, RoomStill
<1> QED
  BY <1>2, <1>3

LEMMA PersistList ==
  ASSUME TypeOK, NEW d \in Device, NEW list, NEW spent, Persist(d, list, spent),
         NEW e \in Device
  PROVE  devices'[d] = list /\ (e # d => devices'[e] = devices[e])
BY DEF TypeOK, Persist

LEMMA CommandRooms ==
  ASSUME TypeOK, RoomsOnTheirWay, NEW d \in Device,
         \/ BeginPairing(d) \/ JoinPairing(d) \/ EngineCommand(d)
  PROVE  RoomsOnTheirWay'
<1> SUFFICES ASSUME NEW e \in Device, link'[e] = "connected"
             PROVE  IpRoomOnItsWay(e)' /\ \A s \in Secret : RoomOnItsWay(e, s)'
  BY DEF RoomsOnTheirWay
<1>1. CASE BeginPairing(d)
  <2>1. <<[type |-> "PairDeviceInitiate"]>> \in Seq(ClientMessage)
    BY ClientMessages, Sequences, Zenon
  <2>2. Elements(up[e]) \subseteq Elements(up'[e])
    BY <1>1, <2>1, SendKeeps DEF BeginPairing
  <2>3. UNCHANGED <<devices, link, down, ipRoom, rooms>>
    BY <1>1 DEF BeginPairing, local, server
  <2> QED
    BY <2>2, <2>3, RoomsStill
<1>2. CASE JoinPairing(d)
  <2>1. PICK other \in Device : /\ active[other] # None
          /\ Send(d, <<[type |-> "PairDeviceJoin", secret |-> active[other]]>>)
    BY <1>2 DEF JoinPairing
  <2>2. active[other] \in Secret
    BY <2>1 DEF TypeOK
  <2>3. <<[type |-> "PairDeviceJoin", secret |-> active[other]]>> \in Seq(ClientMessage)
    BY <2>2, ClientMessages, Sequences, Zenon
  <2>4. Elements(up[e]) \subseteq Elements(up'[e])
    BY <2>1, <2>3, SendKeeps
  <2>5. UNCHANGED <<devices, link, down, ipRoom, rooms>>
    BY <1>2 DEF JoinPairing, local, server
  <2> QED
    BY <2>4, <2>5, RoomsStill
<1>3. CASE CancelPairing(d)
  <2>1. <<[type |-> "PairDeviceCancel"]>> \in Seq(ClientMessage)
    BY ClientMessages, Sequences, Zenon
  <2>2. Elements(up[e]) \subseteq Elements(up'[e])
    BY <1>3, <2>1, SendKeeps DEF CancelPairing
  <2>3. UNCHANGED <<devices, link, down, ipRoom, rooms>>
    BY <1>3 DEF CancelPairing, server
  <2> QED
    BY <2>2, <2>3, RoomsStill
<1>4. ASSUME NEW secret \in Secret, Unpair(d, secret)
      PROVE  IpRoomOnItsWay(e)' /\ \A s \in Secret : RoomOnItsWay(e, s)'
  <2> DEFINE rest == Unpaired(devices[d], secret)
  <2>1. rest \in SUBSET Record /\ Secrets(rest) \subseteq Secrets(devices[d])
    <3>1. devices[d] \in SUBSET Record
      BY DEF TypeOK
    <3>2. rest \in SUBSET Record
      BY <3>1, ListTypes
    <3>3. Secrets(rest) = Secrets(devices[d]) \ {secret}
      BY <3>1, ListSecrets
    <3> QED
      BY <3>2, <3>3
  <2>2. <<[type |-> "RoomSecretsDeleted", secret |-> secret], RoomSecrets(rest)>>
          \in Seq(ClientMessage)
    <3>1. RoomSecrets(rest) \in ClientMessage
      BY <2>1, RoomMessages
    <3> QED
      BY <3>1, ClientMessages, Sequences, Zenon
  <2>3. Elements(up[e]) \subseteq Elements(up'[e])
    BY <1>4, <2>2, SendKeeps DEF Unpair
  <2>4. Persist(d, rest, {"command"})
    BY <1>4 DEF Unpair
  <2>5. UNCHANGED <<link, down, ipRoom, rooms>>
    BY <1>4 DEF Unpair, server
  <2> HIDE DEF rest
  <2>6. Secrets(devices'[e]) \subseteq Secrets(devices[e])
    BY <2>1, <2>4, PersistList
  <2> QED
    BY <2>3, <2>5, <2>6, RoomsStill
<1>5. ASSUME NEW secret \in Secret, SetDisplayName(d, secret)
      PROVE  IpRoomOnItsWay(e)' /\ \A s \in Secret : RoomOnItsWay(e, s)'
  <2>1. Secrets(Named(devices[d], secret)) = Secrets(devices[d])
    BY ListSecrets DEF TypeOK
  <2>2. Secrets(devices'[e]) = Secrets(devices[e])
    BY <1>5, <2>1, PersistList DEF SetDisplayName
  <2>3. UNCHANGED <<link, up, down, ipRoom, rooms>>
    BY <1>5 DEF SetDisplayName, server
  <2> QED
    BY <2>2, <2>3, RoomsStill
<1>6. ASSUME NEW secret \in Secret, NEW enabled \in BOOLEAN,
             SetAutoAccept(d, secret, enabled)
      PROVE  IpRoomOnItsWay(e)' /\ \A s \in Secret : RoomOnItsWay(e, s)'
  <2>1. Secrets(Trusting(devices[d], secret, enabled)) = Secrets(devices[d])
    BY ListSecrets, ZenonT(40) DEF TypeOK
  <2>2. Secrets(devices'[e]) = Secrets(devices[e])
    BY <1>6, <2>1, PersistList DEF SetAutoAccept
  <2>3. UNCHANGED <<link, up, down, ipRoom, rooms>>
    BY <1>6 DEF SetAutoAccept, server
  <2> QED
    BY <2>2, <2>3, RoomsStill
<1> QED
  BY <1>1, <1>2, <1>3, <1>4, <1>5, <1>6 DEF EngineCommand

LEMMA LinkRooms ==
  ASSUME TypeOK, RoomsOnTheirWay, NEW d \in Device,
         Connect(d) \/ ConnectFails(d) \/ Retry(d) \/ Drop(d) \/ Restart(d)
  PROVE  RoomsOnTheirWay'
<1> SUFFICES ASSUME NEW e \in Device, link'[e] = "connected"
             PROVE  IpRoomOnItsWay(e)' /\ \A s \in Secret : RoomOnItsWay(e, s)'
  BY DEF RoomsOnTheirWay
<1>1. CASE Connect(d)
  <2>1. UNCHANGED <<devices, up, ipRoom, rooms>>
    BY <1>1 DEF Connect, local, server
  <2>2. down'[e] = IF e = d THEN Append(down[d], [type |-> "Identity"]) ELSE down[e]
    BY <1>1 DEF Connect, TypeOK
  <2>3. CASE e = d
    <3>1. down[d] \in Seq(ServerMessage)
      BY DEF TypeOK
    <3>2. [type |-> "Identity"] \in Elements(down'[e])
      BY <2>2, <2>3, <3>1, ElementsOfAppend
    <3> QED
      BY <3>2 DEF IpRoomOnItsWay, RoomOnItsWay
  <2>4. CASE e # d
    <3>1. link[e] = "connected"
      BY <1>1, <2>4 DEF Connect, TypeOK
    <3> QED
      BY <2>1, <2>2, <2>4, <3>1, RoomsStill
  <2> QED
    BY <2>3, <2>4
<1>2. CASE ConnectFails(d) \/ Retry(d)
  <2>1. link[e] = "connected" /\ e # d
    BY <1>2 DEF ConnectFails, Retry, TypeOK
  <2>2. UNCHANGED <<devices, down, ipRoom, rooms>> /\ up'[e] = up[e]
    BY <1>2, <2>1 DEF ConnectFails, Retry, TypeOK, local, server
  <2> QED
    BY <2>1, <2>2, RoomsStill
<1>3. CASE Drop(d) \/ Restart(d)
  <2>1. \E state \in {"waiting", "connecting"} : link' = [link EXCEPT ![d] = state]
    BY <1>3 DEF Drop, Restart
  <2>2. link[e] = "connected" /\ e # d
    BY <2>1 DEF TypeOK
  <2>3. \E left : up' = [up EXCEPT ![d] = left]
    BY <1>3, Zenon DEF Drop, Restart
  <2>4. \E left : down' = [down EXCEPT ![d] = left]
    BY <1>3, Zenon DEF Drop, Restart
  <2>5. \E left : devices' = [devices EXCEPT ![d] = left] \/ devices' = devices
    BY <1>3, Zenon DEF Drop, Restart, local
  <2>6. up'[e] = up[e]
    BY <2>2, <2>3 DEF TypeOK
  <2>7. down'[e] = down[e]
    BY <2>2, <2>4 DEF TypeOK
  <2>8. devices'[e] = devices[e]
    BY <2>2, <2>5 DEF TypeOK
  <2>9. Leaves(d)
    BY <1>3 DEF Drop, Restart
  <2>10. /\ e \in ipRoom => e \in ipRoom'
         /\ \A s \in Secret : e \in rooms[s] => e \in rooms'[s]
    BY <2>2, <2>9 DEF Leaves
  <2> QED
    BY <2>2, <2>6, <2>7, <2>8, <2>10, RoomsStill
<1> QED
  BY <1>1, <1>2, <1>3

LEMMA HandlerRooms ==
  ASSUME TypeOK, RoomsOnTheirWay, NEW d \in Device, HandleEvent(d)
  PROVE  RoomsOnTheirWay'
<1> SUFFICES ASSUME NEW e \in Device, link'[e] = "connected"
             PROVE  IpRoomOnItsWay(e)' /\ \A s \in Secret : RoomOnItsWay(e, s)'
  BY DEF RoomsOnTheirWay
<1> DEFINE frame == Head(down[d])
<1>0. UNCHANGED <<link, ipRoom, rooms>>
  BY DEF HandleEvent, HandleIdentity, HandleInitiated, HandleJoined, HandleCanceled,
     HandleDeleted, HandleRegenerated, server
<1>a. link[e] = "connected" /\ IpRoomOnItsWay(e) /\ \A s \in Secret : RoomOnItsWay(e, s)
  BY <1>0 DEF RoomsOnTheirWay
<1>b. ASSUME NEW type, Arrives(d, type), Handled(d)
      PROVE  /\ frame.type = type /\ frame \in ServerMessage
             /\ \A m \in Elements(down[e]) : m # frame => m \in Elements(down'[e])
             /\ e # d => down'[e] = down[e]
  BY <1>b, HandledType, HandledKeeps
<1>c. ASSUME Elements(up[e]) \subseteq Elements(up'[e]),
             \A m \in Elements(down[e]) : m.type = "Identity" => m \in Elements(down'[e])
      PROVE  IpRoomOnItsWay(e)'
  BY <1>0, <1>a, <1>c, IpRoomStill
<1>d. ASSUME e # d, devices'[e] = devices[e], down'[e] = down[e],
             Elements(up[e]) \subseteq Elements(up'[e])
      PROVE  IpRoomOnItsWay(e)' /\ \A s \in Secret : RoomOnItsWay(e, s)'
  BY <1>0, <1>a, <1>d, RoomsStill
<1>1. CASE HandleIdentity(d)
  <2>1. RoomSecrets(devices[d]) \in ClientMessage /\ [type |-> "JoinIpRoom"] \in ClientMessage
    BY RoomMessages DEF TypeOK
  <2>2. Replay(d) \in Seq(ClientMessage)
    <3> HIDE DEF RoomSecrets
    <3> QED
      BY <2>1 DEF Replay
  <2>3. Elements(up[e]) \subseteq Elements(up'[e]) /\ Elements(Replay(d)) \subseteq Elements(up'[d])
    BY <1>1, <2>2, SendKeeps DEF HandleIdentity
  <2>4. UNCHANGED devices
    BY <1>1 DEF HandleIdentity, local
  <2>5. CASE e # d
    BY <1>1, <1>b, <1>d, <2>3, <2>4, <2>5 DEF HandleIdentity
  <2>6. CASE e = d
    <3>1. [type |-> "JoinIpRoom"] \in Elements(Replay(d))
      <4>1. 1 \in 1..Len(Replay(d)) /\ Replay(d)[1] = [type |-> "JoinIpRoom"]
        BY DEF Replay
      <4> QED
        BY <4>1, Zenon DEF Elements
    <3>2. devices[d] # {} => RoomSecrets(devices[d]) \in Elements(Replay(d))
      <4> SUFFICES ASSUME devices[d] # {}
                   PROVE  RoomSecrets(devices[d]) \in Elements(Replay(d))
        OBVIOUS
      <4>1. 2 \in 1..Len(Replay(d)) /\ Replay(d)[2] = RoomSecrets(devices[d])
        <5> HIDE DEF RoomSecrets
        <5> QED
          BY DEF Replay
      <4> QED
        BY <4>1, Zenon DEF Elements
    <3>3. ASSUME NEW s \in Secret, s \in Secrets(devices'[e])
          PROVE  \E m \in Elements(up'[e]) : m.type = "RoomSecrets" /\ s \in m.secrets
      <4>1. devices[d] # {} /\ s \in Secrets(devices[d])
        BY <2>4, <2>6, <3>3 DEF Secrets
      <4> DEFINE m == RoomSecrets(devices[d])
      <4>2. m.type = "RoomSecrets" /\ s \in m.secrets
        BY <4>1 DEF RoomSecrets
      <4>3. m \in Elements(up'[e])
        BY <2>3, <2>6, <3>2, <4>1
      <4> HIDE DEF m
      <4> QED
        BY <4>2, <4>3
    <3> QED
      BY <2>3, <2>6, <3>1, <3>3 DEF IpRoomOnItsWay, RoomOnItsWay
  <2> QED
    BY <2>5, <2>6
<1>2. CASE HandleInitiated(d) \/ HandleCanceled(d)
  <2>1. \E type \in {"Initiated", "Canceled", "KeyInvalid"} : Arrives(d, type) /\ Handled(d)
    BY <1>2 DEF HandleInitiated, HandleCanceled
  <2>2. \A m \in Elements(down[e]) :
          m.type \in {"Identity", "Deleted", "Regenerated"} => m \in Elements(down'[e])
    BY <1>b, <2>1
  <2>3. UNCHANGED <<devices, up>>
    BY <1>2 DEF HandleInitiated, HandleCanceled
  <2>4. ASSUME NEW s \in Secret
        PROVE  RoomOnItsWay(e, s)'
    BY <1>0, <1>a, <2>2, <2>3, RoomStill
  <2> QED
    BY <1>c, <2>2, <2>3, <2>4
<1>3. CASE HandleJoined(d)
  <2> DEFINE secret == frame.secret
  <2>1. Arrives(d, "Joined") /\ Handled(d)
    BY <1>3 DEF HandleJoined
  <2>2. secret \in Secret
    BY <1>b, <2>1, Carried
  <2>3. <<[type |-> "RoomSecrets", secrets |-> {secret}]>> \in Seq(ClientMessage)
    BY <2>2, RoomMessages, Sequences, Zenon
  <2>4. /\ Elements(up[e]) \subseteq Elements(up'[e])
        /\ Elements(<<[type |-> "RoomSecrets", secrets |-> {secret}]>>) \subseteq Elements(up'[d])
    BY <1>3, <2>3, SendKeeps DEF HandleJoined
  <2>5. Persist(d, Paired(devices[d], secret), {})
    BY <1>3 DEF HandleJoined
  <2>6. Secrets(Paired(devices[d], secret)) = Secrets(devices[d]) \union {secret}
    BY <2>2, ListSecrets DEF TypeOK
  <2>7. CASE e # d
    BY <1>b, <1>d, <2>1, <2>4, <2>5, <2>7, PersistList
  <2>8. CASE e = d
    <3>1. \A m \in Elements(down[e]) :
            m.type \in {"Identity", "Deleted", "Regenerated"} => m \in Elements(down'[e])
      BY <1>b, <2>1
    <3>2. Secrets(devices'[e]) = Secrets(devices[e]) \union {secret}
      BY <2>5, <2>6, <2>8, PersistList
    <3>3. ASSUME NEW s \in Secret, s # secret
          PROVE  RoomOnItsWay(e, s)'
      BY <1>0, <1>a, <2>4, <3>1, <3>2, <3>3, RoomStill
    <3>4. ASSUME NEW s \in Secret, s = secret
          PROVE  RoomOnItsWay(e, s)'
      <4> DEFINE m == [type |-> "RoomSecrets", secrets |-> {secret}]
      <4>1. m \in Elements(<<m>>)
        BY DEF Elements
      <4>2. m \in Elements(up'[e])
        BY <2>4, <2>8, <4>1
      <4>3. m.type = "RoomSecrets" /\ s \in m.secrets
        BY <3>4
      <4> HIDE DEF m
      <4> QED
        BY <4>2, <4>3 DEF RoomOnItsWay
    <3> HIDE DEF secret
    <3> QED
      BY <1>c, <2>4, <3>1, <3>3, <3>4
  <2> QED
    BY <2>7, <2>8
<1>4. CASE HandleDeleted(d)
  <2> DEFINE secret == frame.secret
  <2>1. Arrives(d, "Deleted") /\ Handled(d)
    BY <1>4 DEF HandleDeleted
  <2>2. secret \in Secret
    BY <1>b, <2>1, Carried
  <2>3. Persist(d, Unpaired(devices[d], secret), {}) /\ UNCHANGED up
    BY <1>4 DEF HandleDeleted
  <2>4. Secrets(Unpaired(devices[d], secret)) = Secrets(devices[d]) \ {secret}
    <3>1. devices[d] \in SUBSET Record
      BY DEF TypeOK
    <3> QED
      BY <2>2, <3>1, ListSecrets
  <2>5. CASE e # d
    BY <1>b, <1>d, <2>1, <2>3, <2>5, PersistList
  <2>6. CASE e = d
    <3>1. Secrets(devices'[e]) = Secrets(devices[e]) \ {secret}
      BY <2>3, <2>4, <2>6, PersistList
    <3>2. \A m \in Elements(down[e]) : m # frame => m \in Elements(down'[e])
      BY <1>b, <2>1
    <3>3. frame.type = "Deleted"
      BY <1>b, <2>1
    <3>4. ASSUME NEW s \in Secret, s # secret
          PROVE  RoomOnItsWay(e, s)'
      <4>1. \A m \in Elements(down[e]) :
              (\/ m.type = "Identity"
               \/ m.type = "Deleted" /\ m.secret = s
               \/ m.type = "Regenerated" /\ m.old = s) => m \in Elements(down'[e])
        BY <3>2, <3>3, <3>4
      <4>2. s \in Secrets(devices'[e]) => s \in Secrets(devices[e])
        BY <3>1
      <4> QED
        BY <1>0, <1>a, <2>3, <4>1, <4>2, RoomStill
    <3>5. ASSUME NEW s \in Secret, s = secret
          PROVE  RoomOnItsWay(e, s)'
      BY <3>1, <3>5 DEF RoomOnItsWay
    <3>6. IpRoomOnItsWay(e)'
      BY <1>c, <2>3, <3>2, <3>3
    <3> HIDE DEF secret
    <3> QED
      BY <3>4, <3>5, <3>6
  <2> QED
    BY <2>5, <2>6
<1>5. CASE HandleRegenerated(d)
  <2> DEFINE old == frame.old
             new == frame.new
             list == Rotated(devices[d], old, new)
  <2>1. Arrives(d, "Regenerated") /\ Handled(d)
    BY <1>5 DEF HandleRegenerated
  <2>2. old \in Secret /\ new \in Secret /\ frame.type = "Regenerated"
    BY <1>b, <2>1, Carried
  <2>3. list \in SUBSET Record
    <3>1. devices[d] \in SUBSET Record
      BY DEF TypeOK
    <3> QED
      BY <2>2, <3>1, ListTypes
  <2>4. RoomSecrets(list) \in ClientMessage /\ <<RoomSecrets(list)>> \in Seq(ClientMessage)
    BY <2>3, RoomMessages, Sequences, Zenon
  <2>5. \A m \in Elements(down[e]) : m.type = "Identity" => m \in Elements(down'[e])
    BY <1>b, <2>1, <2>2
  <2>6. CASE Persist(d, list, {}) /\ Send(d, <<RoomSecrets(list)>>)
    <3>1. /\ Elements(up[e]) \subseteq Elements(up'[e])
          /\ Elements(<<RoomSecrets(list)>>) \subseteq Elements(up'[d])
      BY <2>4, <2>6, SendKeeps
    <3>2. CASE e # d
      BY <1>b, <1>d, <2>1, <2>6, <3>1, <3>2, PersistList
    <3>3. CASE e = d
      <4> DEFINE m == RoomSecrets(list)
      <4>1. m \in Elements(<<m>>)
        BY DEF Elements
      <4>2. m \in Elements(up'[e]) /\ m.type = "RoomSecrets" /\ m.secrets = Secrets(list)
        BY <3>1, <3>3, <4>1 DEF RoomSecrets
      <4>3. devices'[e] = list
        BY <2>6, <3>3, PersistList
      <4> HIDE DEF m, list
      <4>4. \A s \in Secret : RoomOnItsWay(e, s)'
        BY <4>2, <4>3 DEF RoomOnItsWay
      <4> QED
        BY <1>c, <2>5, <3>1, <4>4
    <3> QED
      BY <3>2, <3>3
  <2>7. CASE old \notin Secrets(devices[d]) /\ UNCHANGED <<devices, stored, told, up, budget>>
    <3>1. CASE e # d
      BY <1>b, <1>d, <2>1, <2>7, <3>1
    <3>2. CASE e = d
      <4>1. ASSUME NEW s \in Secret, s # old
            PROVE  RoomOnItsWay(e, s)'
        <5>1. \A m \in Elements(down[e]) :
                (\/ m.type = "Identity"
                 \/ m.type = "Deleted" /\ m.secret = s
                 \/ m.type = "Regenerated" /\ m.old = s) => m \in Elements(down'[e])
          BY <1>b, <2>1, <2>2, <4>1
        <5> QED
          BY <1>0, <1>a, <2>7, <5>1, RoomStill
      <4>2. ASSUME NEW s \in Secret, s = old
            PROVE  RoomOnItsWay(e, s)'
        BY <2>7, <3>2, <4>2 DEF RoomOnItsWay
      <4>3. IpRoomOnItsWay(e)'
        BY <1>c, <2>5, <2>7
      <4> HIDE DEF old
      <4> QED
        BY <4>1, <4>2, <4>3
    <3> QED
      BY <3>1, <3>2
  <2> QED
    BY <1>5, <2>6, <2>7 DEF HandleRegenerated
<1> QED
  BY <1>1, <1>2, <1>3, <1>4, <1>5 DEF HandleEvent

LEMMA ServerRooms ==
  ASSUME TypeOK, RoomsOnTheirWay, NEW d \in Device, Server(d)
  PROVE  RoomsOnTheirWay'
<1> SUFFICES ASSUME NEW e \in Device, link'[e] = "connected"
             PROVE  IpRoomOnItsWay(e)' /\ \A s \in Secret : RoomOnItsWay(e, s)'
  BY DEF RoomsOnTheirWay
<1>0. UNCHANGED <<link, devices>>
  BY DEF Server, ServerJoinsIpRoom, ServerRegisters, ServerDeletes, ServerInitiates,
     ServerPairs, ServerCancels, Reads, local
<1>a. link[e] = "connected" /\ IpRoomOnItsWay(e) /\ \A s \in Secret : RoomOnItsWay(e, s)
  BY <1>0 DEF RoomsOnTheirWay
<1>b. ASSUME NEW type, Reads(d, type)
      PROVE  /\ Head(up[d]).type = type
             /\ \A m \in Elements(up[e]) : m # Head(up[d]) => m \in Elements(up'[e])
             /\ e # d => up'[e] = up[e]
  BY <1>b, ReadsKeeps
\* The frames a device has left only grow in number, and other messages stay.
<1>c. ASSUME UNCHANGED ipRoom, Elements(down[e]) \subseteq Elements(down'[e]),
             \A m \in Elements(up[e]) :
               m.type \in {"JoinIpRoom", "RoomSecrets"} => m \in Elements(up'[e]),
             NEW s \in Secret, e \in rooms[s] => e \in rooms'[s]
      PROVE  IpRoomOnItsWay(e)' /\ RoomOnItsWay(e, s)'
  BY <1>0, <1>a, <1>c, IpRoomStill, RoomStill
<1>1. CASE ServerJoinsIpRoom(d)
  <2>1. /\ Reads(d, "JoinIpRoom") /\ ipRoom' = ipRoom \union {d}
        /\ UNCHANGED <<rooms, down>>
    BY <1>1 DEF ServerJoinsIpRoom
  <2>2. \A s \in Secret : RoomOnItsWay(e, s)'
    BY <1>0, <1>a, <1>b, <2>1, RoomStill
  <2>3. IpRoomOnItsWay(e)'
    <3>1. CASE e = d
      BY <2>1, <3>1 DEF IpRoomOnItsWay
    <3>2. CASE e # d
      BY <1>a, <1>b, <2>1, <3>2, IpRoomStill
    <3> QED
      BY <3>1, <3>2
  <2> QED
    BY <2>2, <2>3
<1>2. CASE ServerRegisters(d)
  <2>1. /\ Reads(d, "RoomSecrets") /\ UNCHANGED <<ipRoom, down>>
        /\ \A s \in Secret : rooms'[s] = IF s \in Head(up[d]).secrets THEN rooms[s] \union {d}
                                        ELSE rooms[s]
    BY <1>2 DEF ServerRegisters
  <2>2. IpRoomOnItsWay(e)'
    BY <1>a, <1>b, <2>1, IpRoomStill
  <2>3. ASSUME NEW s \in Secret
        PROVE  RoomOnItsWay(e, s)'
    <3>1. CASE e = d /\ s \in Head(up[d]).secrets
      <4>1. e \in rooms'[s]
        BY <2>1, <3>1
      <4> QED
        BY <4>1 DEF RoomOnItsWay
    <3>2. CASE ~(e = d /\ s \in Head(up[d]).secrets)
      <4>1. \A m \in Elements(up[e]) :
              m.type = "RoomSecrets" /\ s \in m.secrets => m \in Elements(up'[e])
        BY <1>b, <2>1, <3>2
      <4>2. e \in rooms[s] => e \in rooms'[s]
        BY <2>1
      <4> QED
        BY <1>0, <1>a, <2>1, <4>1, <4>2, RoomStill
    <3> QED
      BY <3>1, <3>2
  <2> QED
    BY <2>2, <2>3
<1>3. CASE ServerDeletes(d)
  <2> DEFINE secret == Head(up[d]).secret
             frame == [type |-> "Deleted", secret |-> secret]
  <2>1. /\ Reads(d, "RoomSecretsDeleted") /\ Push(rooms[secret], frame)
        /\ rooms' = [rooms EXCEPT ![secret] = {}] /\ UNCHANGED ipRoom
    BY <1>3 DEF ServerDeletes
  <2>2. secret \in Secret /\ frame \in ServerMessage
    BY <2>1, ReadsType, Carried, ServerMessages
  <2>3. /\ Elements(down[e]) \subseteq Elements(down'[e])
        /\ e \in rooms[secret] => frame \in Elements(down'[e])
    <3> HIDE DEF frame
    <3> QED
      BY <2>1, <2>2, PushKeeps
  <2>4. \A m \in Elements(up[e]) :
          m.type \in {"JoinIpRoom", "RoomSecrets"} => m \in Elements(up'[e])
    BY <1>b, <2>1
  <2>5. ASSUME NEW s \in Secret, ~(s = secret /\ e \in rooms[s])
        PROVE  IpRoomOnItsWay(e)' /\ RoomOnItsWay(e, s)'
    <3>1. e \in rooms[s] => e \in rooms'[s]
      BY <2>1, <2>5 DEF TypeOK
    <3> QED
      BY <1>c, <2>1, <2>3, <2>4, <3>1
  <2>6. ASSUME NEW s \in Secret, s = secret, e \in rooms[s]
        PROVE  RoomOnItsWay(e, s)'
    <3>1. [type |-> "Deleted", secret |-> s] \in Elements(down'[e])
      BY <2>3, <2>6
    <3> QED
      BY <3>1 DEF RoomOnItsWay
  <2>7. IpRoomOnItsWay(e)'
    BY <1>a, <2>1, <2>3, <2>4, IpRoomStill
  <2> QED
    BY <2>5, <2>6, <2>7
<1>4. CASE ServerInitiates(d) \/ ServerPairs(d) \/ ServerCancels(d)
  <2>1. \E type \in {"PairDeviceInitiate", "PairDeviceJoin", "PairDeviceCancel"} : Reads(d, type)
    BY <1>4 DEF ServerInitiates, ServerPairs, ServerCancels
  <2>2. UNCHANGED <<ipRoom, rooms>>
    BY <1>4 DEF ServerInitiates, ServerPairs, ServerCancels
  <2>3. \A m \in Elements(up[e]) :
          m.type \in {"JoinIpRoom", "RoomSecrets"} => m \in Elements(up'[e])
    BY <1>b, <2>1
  <2>4. Elements(down[e]) \subseteq Elements(down'[e])
    <3>1. CASE ServerInitiates(d)
      <4>1. UNCHANGED down \/ \E secret \in fresh :
              Push({d}, [type |-> "Initiated", secret |-> secret])
        BY <3>1 DEF ServerInitiates
      <4>2. ASSUME NEW secret \in fresh, Push({d}, [type |-> "Initiated", secret |-> secret])
            PROVE  Elements(down[e]) \subseteq Elements(down'[e])
        <5>1. [type |-> "Initiated", secret |-> secret] \in ServerMessage
          BY ServerMessages DEF TypeOK
        <5> QED
          BY <4>2, <5>1, PushKeeps
      <4> QED
        BY <4>1, <4>2
    <3>2. CASE ServerPairs(d)
      <4> DEFINE secret == Head(up[d]).secret
      <4>1. \E receivers : \/ Push(receivers, [type |-> "Joined", secret |-> secret])
                           \/ Push(receivers, [type |-> "KeyInvalid"])
        BY <3>2, Zenon DEF ServerPairs
      <4>2. secret \in Secret
        <5>1. Reads(d, "PairDeviceJoin")
          BY <3>2 DEF ServerPairs
        <5> QED
          BY <5>1, ReadsType, Carried
      <4>3. /\ [type |-> "Joined", secret |-> secret] \in ServerMessage
            /\ [type |-> "KeyInvalid"] \in ServerMessage
        BY <4>2, ServerMessages
      <4> QED
        BY <4>1, <4>3, PushKeeps
    <3>3. CASE ServerCancels(d)
      <4>1. Push({d}, [type |-> "Canceled"])
        BY <3>3 DEF ServerCancels
      <4> QED
        BY <4>1, ServerMessages, PushKeeps
    <3> QED
      BY <1>4, <3>1, <3>2, <3>3
  <2>5. \A s \in Secret : e \in rooms[s] => e \in rooms'[s]
    BY <2>2
  <2>6. IpRoomOnItsWay(e)'
    BY <1>a, <2>2, <2>3, <2>4, IpRoomStill
  <2> QED
    BY <1>c, <2>2, <2>3, <2>4, <2>5, <2>6
<1> QED
  BY <1>1, <1>2, <1>3, <1>4 DEF Server

LEMMA RotationRooms ==
  ASSUME TypeOK, RoomsOnTheirWay, NEW old \in Secret, NEW new \in Secret, ServerRotates(old, new)
  PROVE  RoomsOnTheirWay'
<1> SUFFICES ASSUME NEW e \in Device, link'[e] = "connected"
             PROVE  IpRoomOnItsWay(e)' /\ \A s \in Secret : RoomOnItsWay(e, s)'
  BY DEF RoomsOnTheirWay
<1> DEFINE frame == [type |-> "Regenerated", old |-> old, new |-> new]
<1>1. /\ UNCHANGED <<devices, link, up, ipRoom>> /\ rooms' = [rooms EXCEPT ![old] = {}]
      /\ Push(rooms[old], frame)
  BY DEF ServerRotates, local
<1>2. frame \in ServerMessage /\ frame.type = "Regenerated" /\ frame.old = old
  BY ServerMessages
<1> HIDE DEF frame
<1>3. link[e] = "connected" /\ IpRoomOnItsWay(e) /\ \A s \in Secret : RoomOnItsWay(e, s)
  BY <1>1 DEF RoomsOnTheirWay
<1>4. /\ Elements(down[e]) \subseteq Elements(down'[e])
      /\ e \in rooms[old] => frame \in Elements(down'[e])
  BY <1>1, <1>2, PushKeeps
<1>5. IpRoomOnItsWay(e)'
  BY <1>1, <1>3, <1>4, IpRoomStill
<1>6. ASSUME NEW s \in Secret, ~(s = old /\ e \in rooms[s])
      PROVE  RoomOnItsWay(e, s)'
  <2>1. e \in rooms[s] => e \in rooms'[s]
    BY <1>1, <1>6 DEF TypeOK
  <2> QED
    BY <1>1, <1>3, <1>4, <2>1, RoomStill
<1>7. ASSUME NEW s \in Secret, s = old, e \in rooms[s]
      PROVE  RoomOnItsWay(e, s)'
  BY <1>2, <1>4, <1>7 DEF RoomOnItsWay
<1> QED
  BY <1>5, <1>6, <1>7

LEMMA StepRooms ==
  ASSUME TypeOK, RoomsOnTheirWay, [Next]_vars
  PROVE  RoomsOnTheirWay'
<1>1. CASE Next
  BY <1>1, CommandRooms, HandlerRooms, LinkRooms, ServerRooms, RotationRooms DEF Next
<1>2. CASE UNCHANGED vars
  <2>1. UNCHANGED <<devices, link, up, down, ipRoom, rooms>>
    BY <1>2 DEF vars, local, server
  <2> QED
    BY <2>1 DEF RoomsOnTheirWay, IpRoomOnItsWay, RoomOnItsWay
<1> QED
  BY <1>1, <1>2

LEMMA RoomsReached == TypeOK /\ RoomsOnTheirWay => RegisteredWherePaired
<1> SUFFICES ASSUME TypeOK, RoomsOnTheirWay, NEW d \in Device,
                    link[d] = "connected", up[d] = <<>>, down[d] = <<>>
             PROVE  InRooms(d)
  BY DEF RegisteredWherePaired
<1>1. Elements(up[d]) = {} /\ Elements(down[d]) = {}
  BY DEF Elements
<1>2. IpRoomOnItsWay(d) /\ \A s \in Secret : RoomOnItsWay(d, s)
  BY DEF RoomsOnTheirWay
<1>3. Secrets(devices[d]) \subseteq Secret
  <2>1. devices[d] \in SUBSET Record
    BY DEF TypeOK
  <2> QED
    BY <2>1 DEF Record, Secrets
<1>4. d \in ipRoom
  BY <1>1, <1>2 DEF IpRoomOnItsWay
<1>5. \A s \in Secret : s \in Secrets(devices[d]) => d \in rooms[s]
  BY <1>1, <1>2 DEF RoomOnItsWay
<1> QED
  BY <1>3, <1>4, <1>5 DEF InRooms

\* A connected device with nothing left to say or to hear is in the room of its address and
\* in every room it is paired into: the rooms are replayed on every identity, asked for on
\* every pairing and again on every rotation, so neither a drop nor a frame that crosses
\* another leaves a pairing without its room.
THEOREM Registered == Spec => []RegisteredWherePaired
<1>1. Init => RoomsOnTheirWay
  BY DEF Init, RoomsOnTheirWay
<1>2. TypeOK /\ RoomsOnTheirWay /\ [Next]_vars => RoomsOnTheirWay'
  BY StepRooms
<1> QED
  BY <1>1, <1>2, TypeCorrect, RoomsReached, PTL DEF Spec

-----------------------------------------------------------------------------
(* A pairing reaches a device once.                                        *)

LEMMA OnceInTail ==
  ASSUME NEW S, NEW q \in Seq(S), q # <<>>, NEW s, Once(q, s)
  PROVE  /\ Once(Tail(q), s)
         /\ Introduces(Head(q), s) => \A f \in Elements(Tail(q)) : ~Introduces(f, s)
<1>1. /\ Head(q) = q[1] /\ Len(q) \in Nat \ {0} /\ Len(Tail(q)) = Len(q) - 1
      /\ \A n \in 1..Len(Tail(q)) : Tail(q)[n] = q[n + 1]
  BY HeadAndTail
<1>2. \A n \in 1..Len(Tail(q)) : n \in Nat /\ n # 0 /\ n + 1 \in 1..Len(q)
  BY <1>1
<1>3. Once(Tail(q), s)
  <2> SUFFICES ASSUME NEW m \in 1..Len(Tail(q)), NEW n \in 1..Len(Tail(q)),
                      Introduces(Tail(q)[m], s), Introduces(Tail(q)[n], s)
               PROVE  m = n
    BY DEF Once
  <2>1. Introduces(q[m + 1], s) /\ Introduces(q[n + 1], s)
    BY <1>1
  <2>2. m + 1 = n + 1
    BY <1>2, <2>1 DEF Once
  <2> QED
    BY <1>2, <2>2
<1>4. ASSUME Introduces(Head(q), s), NEW n \in 1..Len(Tail(q)), Introduces(Tail(q)[n], s)
      PROVE  FALSE
  <2>1. 1 \in 1..Len(q) /\ n + 1 \in 1..Len(q) /\ Introduces(q[1], s) /\ Introduces(q[n + 1], s)
    BY <1>1, <1>2, <1>4
  <2>2. 1 = n + 1
    BY <2>1, Zenon DEF Once
  <2> QED
    BY <1>2, <2>2
<1> QED
  BY <1>3, <1>4, Zenon DEF Elements

LEMMA OnceInPrefix ==
  ASSUME NEW S, NEW q \in Seq(S), NEW n \in 0..Len(q), NEW s, Once(q, s)
  PROVE  Once(SubSeq(q, 1, n), s)
<1> DEFINE p == SubSeq(q, 1, n)
<1>1. Len(p) = n /\ \A k \in 1..n : p[k] = q[k]
  BY Truncated
<1>2. \A k \in 1..n : k \in 1..Len(q)
  OBVIOUS
<1> HIDE DEF p
<1>3. Once(p, s)
  BY <1>1, <1>2 DEF Once
<1> QED
  BY <1>3 DEF p

LEMMA OnceInAppend ==
  ASSUME NEW S, NEW q \in Seq(S), NEW frame, NEW s, Once(q, s),
         Introduces(frame, s) => \A f \in Elements(q) : ~Introduces(f, s)
  PROVE  Once(Append(q, frame), s)
<1> DEFINE p == Append(q, frame)
<1>1. /\ Len(p) = Len(q) + 1 /\ Len(q) \in Nat
      /\ \A n \in 1..Len(q) : p[n] = q[n]
      /\ p[Len(q) + 1] = frame
  OBVIOUS
<1>2. \A n \in 1..Len(p) : n \in 1..Len(q) \/ n = Len(q) + 1
  BY <1>1
<1>3. ASSUME Introduces(frame, s), NEW n \in 1..Len(q)
      PROVE  ~Introduces(q[n], s)
  BY <1>3, Zenon DEF Elements
<1> HIDE DEF p
<1> SUFFICES ASSUME NEW m \in 1..Len(p), NEW n \in 1..Len(p),
                    Introduces(p[m], s), Introduces(p[n], s)
             PROVE  m = n
  BY DEF Once, p
<1>4. CASE m \in 1..Len(q) /\ n \in 1..Len(q)
  BY <1>1, <1>4 DEF Once
<1>5. CASE m \in 1..Len(q) /\ n = Len(q) + 1
  BY <1>1, <1>3, <1>5
<1>6. CASE m = Len(q) + 1 /\ n \in 1..Len(q)
  BY <1>1, <1>3, <1>6
<1> QED
  BY <1>2, <1>4, <1>5, <1>6

\* The frames that pair nobody.
LEMMA Silent ==
  ASSUME NEW s, NEW t
  PROVE  /\ ~Introduces([type |-> "Identity"], t)
         /\ ~Introduces([type |-> "KeyInvalid"], t)
         /\ ~Introduces([type |-> "Canceled"], t)
         /\ ~Introduces([type |-> "Initiated", secret |-> s], t)
         /\ ~Introduces([type |-> "Deleted", secret |-> s], t)
BY DEF Introduces

\* What a step without a new pairing does to the queue of a device.
Quieter(e) ==
  \/ down'[e] = down[e]
  \/ down[e] # <<>> /\ down'[e] = Tail(down[e])
  \/ \E n \in 0..Len(down[e]) : down'[e] = SubSeq(down[e], 1, n)
  \/ \E f \in ServerMessage : (\A s : ~Introduces(f, s)) /\ down'[e] = Append(down[e], f)

LEMMA QuieterOnce ==
  ASSUME TypeOK, NEW e \in Device, Quieter(e), NEW s, Once(down[e], s)
  PROVE  /\ Once(down'[e], s)
         /\ \A f \in Elements(down'[e]) : Introduces(f, s) => f \in Elements(down[e])
<1>0. down[e] \in Seq(ServerMessage)
  BY DEF TypeOK
<1>1. CASE down'[e] = down[e]
  BY <1>1
<1>2. CASE down[e] # <<>> /\ down'[e] = Tail(down[e])
  BY <1>0, <1>2, OnceInTail, ElementsOfTail
<1>3. ASSUME NEW n \in 0..Len(down[e]), down'[e] = SubSeq(down[e], 1, n)
      PROVE  /\ Once(down'[e], s)
             /\ \A f \in Elements(down'[e]) : Introduces(f, s) => f \in Elements(down[e])
  BY <1>0, <1>3, OnceInPrefix, Truncated
<1>4. ASSUME NEW f \in ServerMessage, ~Introduces(f, s), down'[e] = Append(down[e], f)
      PROVE  /\ Once(down'[e], s)
             /\ \A g \in Elements(down'[e]) : Introduces(g, s) => g \in Elements(down[e])
  BY <1>0, <1>4, OnceInAppend, ElementsOfAppend
<1> QED
  BY <1>1, <1>2, <1>3, <1>4 DEF Quieter

\* No device hears of a pairing it has not heard of.
LEMMA NothingNew ==
  ASSUME TypeOK, KeptByServer, IntroducedOnce,
         \A e \in Device : Quieter(e) /\ Known(e)' \subseteq Known(e),
         fresh' \subseteq fresh,
         \A s \in Secret : keys'[s] # None => keys[s] # None \/ s \in fresh,
         \A s \in Secret : s \in fresh' => keys'[s] = None
  PROVE  KeptByServer' /\ IntroducedOnce'
<1>1. ASSUME NEW e \in Device, NEW s \in Secret
      PROVE  /\ Once(down'[e], s)
             /\ \A f \in Elements(down'[e]) : Introduces(f, s) => f \in Elements(down[e])
  BY QuieterOnce DEF IntroducedOnce
<1>2. ASSUME NEW s \in Secret, s \in fresh' \/ keys'[s] # None, NEW e \in Device
      PROVE  Unheard(e, s)'
  <2>1. Unheard(e, s)
    BY <1>2 DEF KeptByServer
  <2> QED
    BY <1>1, <2>1 DEF Unheard
<1>3. KeptByServer'
  BY <1>2 DEF KeptByServer
<1>4. IntroducedOnce'
  BY <1>1 DEF IntroducedOnce
<1> QED
  BY <1>3, <1>4

\* The server tells devices of a pairing for the first time.
LEMMA FirstPushed ==
  ASSUME TypeOK, KeptByServer, IntroducedOnce,
         NEW receivers, NEW frame \in ServerMessage, NEW new \in Secret, Push(receivers, frame),
         \A s : Introduces(frame, s) => s = new,
         new \in fresh \/ keys[new] # None,
         new \notin fresh' /\ keys'[new] = None,
         fresh' \subseteq fresh,
         \A s \in Secret : keys'[s] # None => keys[s] # None,
         UNCHANGED <<devices, stored, forgotten>>
  PROVE  KeptByServer' /\ IntroducedOnce'
<1>1. \A e \in Device : Unheard(e, new)
  BY DEF KeptByServer
<1>2. \A e \in Device : Known(e)' = Known(e)
  BY DEF Known
<1>3. ASSUME NEW e \in Device
      PROVE  /\ down[e] \in Seq(ServerMessage)
             /\ down'[e] = IF e \in receivers THEN Append(down[e], frame) ELSE down[e]
             /\ Elements(down'[e]) \subseteq Elements(down[e]) \union {frame}
  BY PushKeeps DEF TypeOK, Push
<1>4. ASSUME NEW s \in Secret, s \in fresh' \/ keys'[s] # None, NEW e \in Device
      PROVE  Unheard(e, s)'
  <2>1. Unheard(e, s) /\ s # new
    BY <1>4 DEF KeptByServer
  <2> QED
    BY <1>2, <1>3, <2>1 DEF Unheard
<1>5. KeptByServer'
  BY <1>4 DEF KeptByServer
<1>6. ASSUME NEW e \in Device, NEW s \in Secret
      PROVE  /\ \A f \in Elements(down'[e]) : Introduces(f, s) => s \notin Known(e)'
             /\ Once(down'[e], s)
  <2>1. \A f \in Elements(down'[e]) : Introduces(f, s) => s \notin Known(e)
    BY <1>1, <1>3 DEF IntroducedOnce, Unheard
  <2>2. Introduces(frame, s) => \A f \in Elements(down[e]) : ~Introduces(f, s)
    BY <1>1 DEF Unheard
  <2>3. Once(down'[e], s)
    BY <1>3, <2>2, OnceInAppend DEF IntroducedOnce
  <2> QED
    BY <1>2, <2>1, <2>3
<1>7. IntroducedOnce'
  BY <1>6 DEF IntroducedOnce
<1> QED
  BY <1>5, <1>7

\* A device handles the frame that pairs it.
LEMMA FirstHandled ==
  ASSUME TypeOK, KeptByServer, IntroducedOnce, NEW d \in Device, NEW new \in Secret,
         down[d] # <<>>, Introduces(Head(down[d]), new), Handled(d),
         Known(d)' \subseteq Known(d) \union {new},
         \A e \in Device \ {d} : Known(e)' \subseteq Known(e),
         UNCHANGED <<keys, fresh>>
  PROVE  KeptByServer' /\ IntroducedOnce'
<1>1. down[d] \in Seq(ServerMessage) /\ down'[d] = Tail(down[d])
  BY DEF TypeOK, Handled
<1>2. \A e \in Device \ {d} : down'[e] = down[e]
  BY DEF TypeOK, Handled
<1>3. Elements(down[d]) = {Head(down[d])} \union Elements(down'[d])
  BY <1>1, ElementsOfTail
<1>4. ASSUME NEW s \in Secret
      PROVE  /\ Once(down'[d], s)
             /\ s = new => \A f \in Elements(down'[d]) : ~Introduces(f, s)
  BY <1>1, OnceInTail DEF IntroducedOnce
<1>5. ASSUME NEW s \in Secret, s \in fresh' \/ keys'[s] # None, NEW e \in Device
      PROVE  Unheard(e, s)'
  <2>1. Unheard(e, s) /\ Unheard(d, s)
    BY <1>5 DEF KeptByServer
  <2>2. s # new
    BY <1>3, <2>1 DEF Unheard
  <2>3. CASE e = d
    BY <1>3, <2>1, <2>2, <2>3 DEF Unheard
  <2>4. CASE e # d
    BY <1>2, <2>1, <2>4 DEF Unheard
  <2> QED
    BY <2>3, <2>4
<1>6. KeptByServer'
  BY <1>5 DEF KeptByServer
<1>7. ASSUME NEW e \in Device, NEW s \in Secret
      PROVE  /\ \A f \in Elements(down'[e]) : Introduces(f, s) => s \notin Known(e)'
             /\ Once(down'[e], s)
  <2>1. CASE e = d
    BY <1>3, <1>4, <2>1 DEF IntroducedOnce
  <2>2. CASE e # d
    BY <1>2, <2>2 DEF IntroducedOnce
  <2> QED
    BY <2>1, <2>2
<1>8. IntroducedOnce'
  BY <1>7 DEF IntroducedOnce
<1> QED
  BY <1>6, <1>8

GivenOnce == KeptByServer /\ IntroducedOnce /\ NowhereKept

LEMMA PersistKnown ==
  ASSUME TypeOK, NEW d \in Device, NEW list, NEW spent, Persist(d, list, spent)
  PROVE  /\ devices'[d] = list /\ stored'[d] \in {list, stored[d]}
         /\ \A e \in Device : e # d => devices'[e] = devices[e] /\ stored'[e] = stored[e]
BY DEF TypeOK, Persist

\* Saving a list without forgetting anything.
LEMMA PersistKeeps ==
  ASSUME TypeOK, Counted, NowhereKept, [Next]_vars, NEW d \in Device, NEW list, NEW spent,
         Persist(d, list, spent), UNCHANGED forgotten,
         NoneUndeleted => Secrets(list) \cap forgotten[d] = {}
  PROVE  NowhereKept'
<1> SUFFICES ASSUME NoneUndeleted', NEW e \in Device
             PROVE  forgotten'[e] \cap (Secrets(devices'[e]) \union Secrets(stored'[e])) = {}
  BY DEF NowhereKept
<1>1. NoneUndeleted
  BY NoneSoFar
<1>2. forgotten[e] \cap (Secrets(devices[e]) \union Secrets(stored[e])) = {}
  BY <1>1 DEF NowhereKept
<1>3. CASE e = d
  BY <1>1, <1>2, <1>3, PersistKnown
<1>4. CASE e # d
  BY <1>2, <1>4, PersistKnown
<1> QED
  BY <1>3, <1>4

LEMMA UnpairKeeps ==
  ASSUME TypeOK, Counted, NowhereKept, [Next]_vars,
         NEW d \in Device, NEW secret \in Secret, Unpair(d, secret)
  PROVE  NowhereKept'
<1> DEFINE rest == Unpaired(devices[d], secret)
<1>0. Secrets(rest) = Secrets(devices[d]) \ {secret}
  <2>1. devices[d] \in SUBSET Record
    BY DEF TypeOK
  <2> QED
    BY <2>1, ListSecrets
<1>1. Persist(d, rest, {"command"})
  BY DEF Unpair
<1> HIDE DEF rest
<1>2. \A e \in Device : forgotten'[e] =
        IF e = d /\ ~told'[d] THEN forgotten[e] \union {secret} ELSE forgotten[e]
  BY DEF Unpair, TypeOK
<1> SUFFICES ASSUME NoneUndeleted', NEW e \in Device
             PROVE  forgotten'[e] \cap (Secrets(devices'[e]) \union Secrets(stored'[e])) = {}
  BY DEF NowhereKept
<1>3. NoneUndeleted /\ budget'["deleteFailure"] = budget["deleteFailure"]
  BY NoneSoFar
<1>4. forgotten[e] \cap (Secrets(devices[e]) \union Secrets(stored[e])) = {}
  BY <1>3 DEF NowhereKept
<1>5. CASE e # d
  BY <1>1, <1>2, <1>4, <1>5, PersistKnown
<1>6. CASE e = d
  <2>1. devices'[d] = rest /\ stored'[d] \in {rest, stored[d]}
    BY <1>1, PersistKnown
  <2>2. CASE told'[d]
    BY <1>0, <1>2, <1>4, <1>6, <2>1, <2>2
  <2>3. CASE ~told'[d]
    <3>1. ~Spend({"command"} \union {"deleteFailure"})
      <4>1. budget \in [Kind -> Nat] /\ "deleteFailure" \in Kind
        BY DEF TypeOK, Kind
      <4> QED
        BY <1>3, <4>1, SpendType
    <3>2. told' # [told EXCEPT ![d] = TRUE]
      BY <2>3 DEF TypeOK
    <3>3. ~(backend[d] = "memory" /\ UNCHANGED <<stored, told>>)
      BY <2>3 DEF Counted
    <3>4. stored' = [stored EXCEPT ![d] = rest]
      BY <1>1, <3>1, <3>2, <3>3, Zenon DEF Persist
    <3>5. stored'[d] = rest
      BY <3>4 DEF TypeOK
    <3> QED
      BY <1>0, <1>2, <1>4, <1>6, <2>1, <3>5
  <2> QED
    BY <2>2, <2>3
<1> QED
  BY <1>5, <1>6

\* A step that leaves the lists alone.
LEMMA ListsUntouched ==
  ASSUME TypeOK, Counted, NowhereKept, [Next]_vars, UNCHANGED <<devices, stored, forgotten>>
  PROVE  NowhereKept' /\ \A e \in Device : Known(e)' = Known(e)
<1>1. NoneUndeleted' => NoneUndeleted
  BY NoneSoFar
<1> QED
  BY <1>1 DEF NowhereKept, Known

LEMMA CommandGivenOnce ==
  ASSUME TypeOK, Counted, GivenOnce, [Next]_vars, NEW d \in Device,
         \/ BeginPairing(d) \/ JoinPairing(d) \/ EngineCommand(d)
  PROVE  GivenOnce'
<1>0. KeptByServer /\ IntroducedOnce /\ NowhereKept
  BY DEF GivenOnce
<1>1. UNCHANGED <<down, keys, fresh>>
  BY DEF BeginPairing, JoinPairing, EngineCommand, CancelPairing, Unpair, SetDisplayName,
     SetAutoAccept, server
<1>2. \A e \in Device : Quieter(e)
  BY <1>1 DEF Quieter
<1>3. /\ \A s \in Secret : keys'[s] # None => keys[s] # None \/ s \in fresh
      /\ \A s \in Secret : s \in fresh' => keys'[s] = None
      /\ fresh' \subseteq fresh
  BY <1>0, <1>1 DEF KeptByServer
<1>4. ASSUME NowhereKept', \A e \in Device : Known(e)' \subseteq Known(e)
      PROVE  GivenOnce'
  BY <1>0, <1>2, <1>3, <1>4, NothingNew DEF GivenOnce
<1>5. CASE BeginPairing(d) \/ JoinPairing(d) \/ CancelPairing(d)
  <2>1. UNCHANGED <<devices, stored, forgotten>>
    BY <1>5 DEF BeginPairing, JoinPairing, CancelPairing, local
  <2> QED
    BY <1>0, <1>4, <2>1, ListsUntouched
<1>6. ASSUME NEW secret \in Secret, Unpair(d, secret)
      PROVE  GivenOnce'
  <2>1. Secrets(Unpaired(devices[d], secret)) = Secrets(devices[d]) \ {secret}
    <3>1. devices[d] \in SUBSET Record
      BY DEF TypeOK
    <3> QED
      BY <3>1, ListSecrets
  <2>2. Persist(d, Unpaired(devices[d], secret), {"command"}) /\ secret \in Secrets(devices[d])
    BY <1>6 DEF Unpair
  <2>3. \A e \in Device : forgotten'[e] \subseteq forgotten[e] \union (IF e = d THEN {secret} ELSE {})
    BY <1>6 DEF Unpair, TypeOK
  <2>4. \A e \in Device : Known(e)' \subseteq Known(e)
    BY <2>1, <2>2, <2>3, PersistKnown DEF Known
  <2> QED
    BY <1>0, <1>4, <1>6, <2>4, UnpairKeeps
<1>7. ASSUME NEW list, NEW spent, Persist(d, list, spent), UNCHANGED forgotten,
             Secrets(list) = Secrets(devices[d])
      PROVE  GivenOnce'
  <2>1. NoneUndeleted => Secrets(list) \cap forgotten[d] = {}
    BY <1>0, <1>7 DEF NowhereKept
  <2>2. NowhereKept'
    BY <1>0, <1>7, <2>1, PersistKeeps
  <2>3. \A e \in Device : Known(e)' \subseteq Known(e)
    BY <1>7, PersistKnown DEF Known
  <2> QED
    BY <1>4, <2>2, <2>3
<1>8. ASSUME NEW secret \in Secret, SetDisplayName(d, secret)
      PROVE  GivenOnce'
  <2>1. Secrets(Named(devices[d], secret)) = Secrets(devices[d])
    BY ListSecrets DEF TypeOK
  <2> QED
    BY <1>7, <1>8, <2>1 DEF SetDisplayName
<1>9. ASSUME NEW secret \in Secret, NEW enabled \in BOOLEAN, SetAutoAccept(d, secret, enabled)
      PROVE  GivenOnce'
  <2>1. Secrets(Trusting(devices[d], secret, enabled)) = Secrets(devices[d])
    BY ListSecrets, ZenonT(40) DEF TypeOK
  <2> QED
    BY <1>7, <1>9, <2>1 DEF SetAutoAccept
<1> QED
  BY <1>5, <1>6, <1>8, <1>9 DEF EngineCommand

LEMMA HandlerGivenOnce ==
  ASSUME TypeOK, Counted, GivenOnce, [Next]_vars, NEW d \in Device, HandleEvent(d)
  PROVE  GivenOnce'
<1> DEFINE frame == Head(down[d])
<1>0. KeptByServer /\ IntroducedOnce /\ NowhereKept
  BY DEF GivenOnce
<1>1. UNCHANGED <<keys, fresh, forgotten>>
  BY DEF HandleEvent, HandleIdentity, HandleInitiated, HandleJoined, HandleCanceled,
     HandleDeleted, HandleRegenerated, server, local
<1>2. Handled(d) /\ down[d] # <<>>
  BY DEF HandleEvent, HandleIdentity, HandleInitiated, HandleJoined, HandleCanceled,
     HandleDeleted, HandleRegenerated, Arrives
<1>3. \A e \in Device : Quieter(e)
  <2>1. \A e \in Device : down'[e] = IF e = d THEN Tail(down[d]) ELSE down[e]
    BY <1>2 DEF Handled, TypeOK
  <2> QED
    BY <1>2, <2>1 DEF Quieter
<1>4. ASSUME NowhereKept', \A e \in Device : Known(e)' \subseteq Known(e)
      PROVE  GivenOnce'
  <2>1. \A s \in Secret : s \in fresh' => keys'[s] = None
    BY <1>0, <1>1 DEF KeptByServer
  <2> QED
    BY <1>0, <1>1, <1>3, <1>4, <2>1, NothingNew DEF GivenOnce
\* The list gets the secret the frame introduces, which the user cannot have removed.
<1>5. ASSUME NEW new \in Secret, Introduces(frame, new), NEW list, NEW spent,
             Persist(d, list, spent), Secrets(list) \subseteq Secrets(devices[d]) \union {new}
      PROVE  GivenOnce'
  <2>1. new \notin Known(d)
    <3>1. frame \in Elements(down[d])
      BY <1>2, ElementsOfTail DEF TypeOK
    <3> QED
      BY <1>0, <1>5, <3>1 DEF IntroducedOnce
  <2>2. NoneUndeleted => Secrets(list) \cap forgotten[d] = {}
    BY <1>0, <1>5, <2>1 DEF NowhereKept, Known
  <2>3. NowhereKept'
    BY <1>0, <1>1, <1>5, <2>2, PersistKeeps
  <2>4. Known(d)' \subseteq Known(d) \union {new}
    BY <1>1, <1>5, PersistKnown DEF Known
  <2>5. \A e \in Device \ {d} : Known(e)' \subseteq Known(e)
    BY <1>1, <1>5, PersistKnown DEF Known
  <2>6. KeptByServer' /\ IntroducedOnce'
    BY <1>0, <1>1, <1>2, <1>5, <2>4, <2>5, FirstHandled
  <2> QED
    BY <2>3, <2>6 DEF GivenOnce
<1>6. CASE HandleIdentity(d) \/ HandleInitiated(d) \/ HandleCanceled(d)
  <2>1. UNCHANGED <<devices, stored, forgotten>>
    BY <1>6 DEF HandleIdentity, HandleInitiated, HandleCanceled, local
  <2> QED
    BY <1>0, <1>4, <2>1, ListsUntouched
<1>7. CASE HandleJoined(d)
  <2>1. Arrives(d, "Joined") /\ Persist(d, Paired(devices[d], frame.secret), {})
    BY <1>7 DEF HandleJoined
  <2>2. frame.type = "Joined" /\ frame.secret \in Secret
    BY <1>2, <2>1, HandledType, Carried
  <2>3. PICK new \in Secret : new = frame.secret
    BY <2>2
  <2>4. Secrets(Paired(devices[d], new)) = Secrets(devices[d]) \union {new}
    BY ListSecrets DEF TypeOK
  <2>5. Introduces(frame, new)
    BY <2>2, <2>3 DEF Introduces
  <2> QED
    BY <1>5, <2>1, <2>3, <2>4, <2>5
<1>8. CASE HandleDeleted(d)
  <2>1. Arrives(d, "Deleted") /\ Persist(d, Unpaired(devices[d], frame.secret), {})
    BY <1>8 DEF HandleDeleted
  <2>2. frame.secret \in Secret
    BY <1>2, <2>1, HandledType, Carried
  <2>3. Secrets(Unpaired(devices[d], frame.secret)) \subseteq Secrets(devices[d])
    <3>1. devices[d] \in SUBSET Record
      BY DEF TypeOK
    <3> QED
      BY <2>2, <3>1, ListSecrets
  <2>4. NoneUndeleted => Secrets(Unpaired(devices[d], frame.secret)) \cap forgotten[d] = {}
    BY <1>0, <2>3 DEF NowhereKept
  <2>5. NowhereKept'
    BY <1>0, <1>1, <2>1, <2>4, PersistKeeps
  <2>6. \A e \in Device : Known(e)' \subseteq Known(e)
    BY <1>1, <2>1, <2>3, PersistKnown DEF Known
  <2> QED
    BY <1>4, <2>5, <2>6
<1>9. CASE HandleRegenerated(d)
  <2>1. Arrives(d, "Regenerated")
    BY <1>9 DEF HandleRegenerated
  <2>2. frame.type = "Regenerated" /\ frame.old \in Secret /\ frame.new \in Secret
    BY <1>2, <2>1, HandledType, Carried
  <2>3. PICK new \in Secret : new = frame.new
    BY <2>2
  <2>4. Introduces(frame, new)
    BY <2>2, <2>3 DEF Introduces
  <2>5. CASE /\ frame.old \in Secrets(devices[d])
             /\ Persist(d, Rotated(devices[d], frame.old, frame.new), {})
    <3>1. Secrets(Rotated(devices[d], frame.old, new)) = (Secrets(devices[d]) \ {frame.old}) \union {new}
      <4>1. devices[d] \in SUBSET Record
        BY DEF TypeOK
      <4> QED
        BY <2>2, <2>5, <4>1, ListSecrets
    <3> QED
      BY <1>5, <2>3, <2>4, <2>5, <3>1
  <2>6. CASE UNCHANGED <<devices, stored, told, up, budget>>
    BY <1>0, <1>1, <1>4, <2>6, ListsUntouched
  <2> QED
    BY <1>9, <2>5, <2>6 DEF HandleRegenerated
<1> QED
  BY <1>6, <1>7, <1>8, <1>9 DEF HandleEvent

LEMMA LinkGivenOnce ==
  ASSUME TypeOK, Counted, GivenOnce, [Next]_vars, NEW d \in Device,
         Connect(d) \/ ConnectFails(d) \/ Retry(d) \/ Drop(d) \/ Restart(d)
  PROVE  GivenOnce'
<1>0. KeptByServer /\ IntroducedOnce /\ NowhereKept
  BY DEF GivenOnce
<1>1. /\ fresh' = fresh
      /\ \A s \in Secret : keys'[s] # None => keys[s] # None
      /\ \A s \in Secret : s \in fresh' => keys'[s] = None
  <2>1. UNCHANGED <<keys, fresh>> \/ Leaves(d)
    BY DEF Connect, ConnectFails, Retry, Drop, Restart, server
  <2>2. CASE UNCHANGED <<keys, fresh>>
    BY <1>0, <2>2 DEF KeptByServer
  <2>3. CASE Leaves(d)
    BY <1>0, <2>3 DEF KeptByServer, Leaves
  <2> QED
    BY <2>1, <2>2, <2>3
<1>2. ASSUME NEW e \in Device
      PROVE  Quieter(e)
  <2>1. CASE Connect(d)
    <3> DEFINE f == [type |-> "Identity"]
    <3>1. f \in ServerMessage /\ \A s : ~Introduces(f, s)
      BY ServerMessages, Silent
    <3>2. down'[e] = down[e] \/ down'[e] = Append(down[e], f)
      BY <2>1 DEF Connect, TypeOK
    <3> HIDE DEF f
    <3> QED
      BY <3>1, <3>2 DEF Quieter
  <2>2. CASE ConnectFails(d) \/ Retry(d)
    BY <2>2 DEF ConnectFails, Retry, Quieter
  <2>3. CASE Drop(d)
    <3>1. PICK n \in 0..Len(down[d]) : down' = [down EXCEPT ![d] = SubSeq(down[d], 1, n)]
      BY <2>3 DEF Drop
    <3>2. down'[e] = IF e = d THEN SubSeq(down[d], 1, n) ELSE down[e]
      BY <3>1 DEF TypeOK
    <3> QED
      BY <3>2 DEF Quieter
  <2>4. CASE Restart(d)
    <3>1. down[e] \in Seq(ServerMessage)
      BY DEF TypeOK
    <3>2. 0 \in 0..Len(down[e]) /\ SubSeq(down[e], 1, 0) = <<>>
      BY <3>1
    <3>3. down'[e] = IF e = d THEN <<>> ELSE down[e]
      BY <2>4 DEF Restart, TypeOK
    <3> QED
      BY <3>2, <3>3 DEF Quieter
  <2> QED
    BY <2>1, <2>2, <2>3, <2>4
<1>3. ASSUME NowhereKept', \A e \in Device : Known(e)' \subseteq Known(e)
      PROVE  GivenOnce'
  BY <1>0, <1>1, <1>2, <1>3, NothingNew DEF GivenOnce
<1>4. CASE Connect(d) \/ ConnectFails(d) \/ Retry(d) \/ Drop(d)
  <2>1. UNCHANGED <<devices, stored, forgotten>>
    BY <1>4 DEF Connect, ConnectFails, Retry, Drop, local
  <2> QED
    BY <1>0, <1>3, <2>1, ListsUntouched
<1>5. CASE Restart(d)
  <2>1. UNCHANGED <<stored, forgotten>>
    BY <1>5 DEF Restart
  <2>2. devices' = [devices EXCEPT ![d] = stored[d]] \/ devices' = [devices EXCEPT ![d] = {}]
    BY <1>5 DEF Restart
  <2>3. ASSUME NEW e \in Device
        PROVE  Secrets(devices'[e]) \subseteq Secrets(devices[e]) \union Secrets(stored[e])
    <3>1. devices'[e] = devices[e] \/ devices'[e] = stored[e] \/ devices'[e] = {}
      BY <2>2 DEF TypeOK
    <3> QED
      BY <3>1 DEF Secrets
  <2>4. NoneUndeleted' => NoneUndeleted
    BY NoneSoFar
  <2>5. NowhereKept'
    BY <1>0, <2>1, <2>3, <2>4 DEF NowhereKept
  <2>6. \A e \in Device : Known(e)' \subseteq Known(e)
    BY <2>1, <2>3 DEF Known
  <2> QED
    BY <1>3, <2>5, <2>6
<1> QED
  BY <1>4, <1>5

\* Pushing a frame that pairs nobody.
LEMMA PushQuieter ==
  ASSUME NEW receivers, NEW f \in ServerMessage, Push(receivers, f), \A s : ~Introduces(f, s)
  PROVE  \A e \in Device : Quieter(e)
BY DEF Push, Quieter

LEMMA ServerGivenOnce ==
  ASSUME TypeOK, Counted, GivenOnce, [Next]_vars, NEW d \in Device, Server(d)
  PROVE  GivenOnce'
<1>0. KeptByServer /\ IntroducedOnce /\ NowhereKept
  BY DEF GivenOnce
<1>1. UNCHANGED <<devices, stored, forgotten>>
  BY DEF Server, ServerJoinsIpRoom, ServerRegisters, ServerDeletes, ServerInitiates,
     ServerPairs, ServerCancels, Reads, local
<1>2. NowhereKept' /\ \A e \in Device : Known(e)' = Known(e)
  BY <1>0, <1>1, ListsUntouched
<1>3. ASSUME \A e \in Device : Quieter(e),
             fresh' \subseteq fresh,
             \A s \in Secret : keys'[s] # None => keys[s] # None \/ s \in fresh,
             \A s \in Secret : s \in fresh' => keys'[s] = None
      PROVE  GivenOnce'
  <2>1. \A e \in Device : Known(e)' \subseteq Known(e)
    BY <1>2
  <2> QED
    BY <1>0, <1>2, <1>3, <2>1, NothingNew DEF GivenOnce
<1>4. \A s \in Secret : s \in fresh => keys[s] = None
  BY <1>0 DEF KeptByServer
<1>5. CASE ServerJoinsIpRoom(d) \/ ServerRegisters(d)
  <2>1. UNCHANGED <<down, keys, fresh>>
    BY <1>5 DEF ServerJoinsIpRoom, ServerRegisters
  <2>2. \A e \in Device : Quieter(e)
    BY <2>1 DEF Quieter
  <2> QED
    BY <1>3, <1>4, <2>1, <2>2
<1>6. CASE ServerDeletes(d)
  <2> DEFINE secret == Head(up[d]).secret
             f == [type |-> "Deleted", secret |-> secret]
  <2>1. /\ Reads(d, "RoomSecretsDeleted") /\ Push(rooms[secret], f)
        /\ UNCHANGED <<keys, fresh>>
    BY <1>6 DEF ServerDeletes
  <2>2. f \in ServerMessage
    BY <2>1, ReadsType, Carried, ServerMessages
  <2>3. \A s : ~Introduces(f, s)
    BY Silent
  <2> HIDE DEF f
  <2>4. \A e \in Device : Quieter(e)
    BY <2>1, <2>2, <2>3, PushQuieter
  <2> QED
    BY <1>3, <1>4, <2>1, <2>4
<1>7. CASE ServerInitiates(d)
  <2>1. CASE UNCHANGED <<fresh, keys, down>>
    <3>1. \A e \in Device : Quieter(e)
      BY <2>1 DEF Quieter
    <3> QED
      BY <1>3, <1>4, <2>1, <3>1
  <2>2. ASSUME NEW secret \in fresh, fresh' = fresh \ {secret},
               keys' = [keys EXCEPT ![secret] = d],
               Push({d}, [type |-> "Initiated", secret |-> secret])
        PROVE  GivenOnce'
    <3> DEFINE f == [type |-> "Initiated", secret |-> secret]
    <3>1. f \in ServerMessage /\ \A s : ~Introduces(f, s)
      BY ServerMessages, Silent DEF TypeOK
    <3>2. \A e \in Device : Quieter(e)
      BY <2>2, <3>1, PushQuieter
    <3>3. \A s \in Secret : keys'[s] = IF s = secret THEN d ELSE keys[s]
      BY <2>2 DEF TypeOK
    <3> QED
      BY <1>3, <1>4, <2>2, <3>2, <3>3
  <2> QED
    BY <1>7, <2>1, <2>2 DEF ServerInitiates
<1>8. CASE ServerPairs(d)
  <2>1. Reads(d, "PairDeviceJoin") /\ UNCHANGED fresh
    BY <1>8 DEF ServerPairs
  <2>2. Head(up[d]).secret \in Secret
    BY <2>1, ReadsType, Carried
  <2>3. PICK new \in Secret : new = Head(up[d]).secret
    BY <2>2
  <2>4. CASE /\ keys[new] # None
             /\ keys' = [keys EXCEPT ![new] = None]
             /\ Push({keys[new], d}, [type |-> "Joined", secret |-> new])
    <3> DEFINE f == [type |-> "Joined", secret |-> new]
    <3>1. f \in ServerMessage /\ \A s : Introduces(f, s) => s = new
      BY ServerMessages DEF Introduces
    <3>2. \A s \in Secret : keys'[s] = IF s = new THEN None ELSE keys[s]
      BY <2>4 DEF TypeOK
    <3>3. new \notin fresh'
      BY <1>4, <2>1, <2>4
    <3> HIDE DEF f
    <3>4. KeptByServer' /\ IntroducedOnce'
      <4>1. Push({keys[new], d}, f)
        BY <2>4 DEF f
      <4>2. /\ keys'[new] = None /\ fresh' \subseteq fresh
            /\ \A s \in Secret : keys'[s] # None => keys[s] # None
        BY <2>1, <3>2
      <4> QED
        BY <1>0, <1>1, <2>4, <3>1, <3>3, <4>1, <4>2, FirstPushed
    <3> QED
      BY <1>2, <3>4 DEF GivenOnce
  <2>5. CASE Push({d}, [type |-> "KeyInvalid"]) /\ UNCHANGED keys
    <3>1. [type |-> "KeyInvalid"] \in ServerMessage /\ \A s : ~Introduces([type |-> "KeyInvalid"], s)
      BY ServerMessages, Silent
    <3>2. \A e \in Device : Quieter(e)
      BY <2>5, <3>1, PushQuieter
    <3> QED
      BY <1>3, <1>4, <2>1, <2>5, <3>2
  <2> QED
    BY <1>8, <2>3, <2>4, <2>5 DEF ServerPairs
<1>9. CASE ServerCancels(d)
  <2>1. /\ Push({d}, [type |-> "Canceled"]) /\ UNCHANGED fresh
        /\ \A s \in Secret : keys'[s] = IF keys[s] = d THEN None ELSE keys[s]
    BY <1>9 DEF ServerCancels
  <2>2. [type |-> "Canceled"] \in ServerMessage /\ \A s : ~Introduces([type |-> "Canceled"], s)
    BY ServerMessages, Silent
  <2>3. \A e \in Device : Quieter(e)
    BY <2>1, <2>2, PushQuieter
  <2> QED
    BY <1>3, <1>4, <2>1, <2>3
<1> QED
  BY <1>5, <1>6, <1>7, <1>8, <1>9 DEF Server

LEMMA RotationGivenOnce ==
  ASSUME TypeOK, Counted, GivenOnce, [Next]_vars,
         NEW old \in Secret, NEW new \in Secret, ServerRotates(old, new)
  PROVE  GivenOnce'
<1> DEFINE f == [type |-> "Regenerated", old |-> old, new |-> new]
<1>0. KeptByServer /\ IntroducedOnce /\ NowhereKept
  BY DEF GivenOnce
<1>1. /\ new \in fresh /\ fresh' = fresh \ {new} /\ Push(rooms[old], f)
      /\ UNCHANGED <<devices, stored, forgotten, keys>>
  BY DEF ServerRotates, local
<1>2. f \in ServerMessage /\ \A s : Introduces(f, s) => s = new
  BY ServerMessages DEF Introduces
<1> HIDE DEF f
<1>3. keys'[new] = None
  BY <1>0, <1>1 DEF KeptByServer
<1>4. KeptByServer' /\ IntroducedOnce'
  BY <1>0, <1>1, <1>2, <1>3, FirstPushed
<1>5. NowhereKept'
  BY <1>0, <1>1, ListsUntouched
<1> QED
  BY <1>4, <1>5 DEF GivenOnce

LEMMA StepGivenOnce ==
  ASSUME TypeOK, Counted, GivenOnce, [Next]_vars
  PROVE  GivenOnce'
<1>1. CASE Next
  BY <1>1, CommandGivenOnce, HandlerGivenOnce, LinkGivenOnce, ServerGivenOnce, RotationGivenOnce
     DEF Next
<1>2. CASE UNCHANGED vars
  <2>1. UNCHANGED <<devices, stored, forgotten, down, keys, fresh, budget>>
    BY <1>2 DEF vars, local, server
  <2> QED
    BY <2>1 DEF GivenOnce, KeptByServer, IntroducedOnce, NowhereKept, NoneUndeleted, Known, Unheard
<1> QED
  BY <1>1, <1>2

LEMMA InitGivenOnce == Init => GivenOnce
<1> SUFFICES ASSUME Init
             PROVE  GivenOnce
  OBVIOUS
<1>1. ASSUME NEW e \in Device
      PROVE  /\ Known(e) = {} /\ Elements(down[e]) = {}
             /\ \A s : Once(down[e], s)
             /\ forgotten[e] = {}
  BY DEF Init, Known, Secrets, Elements, Once
<1>2. \A s \in Secret : keys[s] = None
  BY DEF Init
<1> QED
  BY <1>1, <1>2 DEF GivenOnce, KeptByServer, IntroducedOnce, NowhereKept, Unheard

\* As long as the keyring deleted what it was asked to, a pairing the user removed without
\* complaint never comes back: each secret reaches a device at most once, so that neither a
\* rotation, a late frame nor another process can bring back what was forgotten.
THEOREM ForgottenForGood == Spec => []ForgottenStaysForgotten
<1>1. Init => Counted /\ GivenOnce
  BY InitReported, InitGivenOnce
<1>2. TypeOK /\ Counted /\ GivenOnce /\ [Next]_vars => (Counted /\ GivenOnce)'
  BY StepCounted, StepGivenOnce
<1>3. GivenOnce => ForgottenStaysForgotten
  BY DEF GivenOnce, NowhereKept, ForgottenStaysForgotten
<1> QED
  BY <1>1, <1>2, <1>3, TypeCorrect, PTL DEF Spec
=============================================================================
