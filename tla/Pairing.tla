------------------------------- MODULE Pairing -------------------------------
(***************************************************************************)
(* Devices that pair through the signaling server (crate pairdrop-pairing  *)
(* and the parts of pairdrop-client that drive it).  A device keeps its    *)
(* pairings in memory and in the platform credential store, its process    *)
(* may be restarted, its connection may drop, and the server knows it only *)
(* by the rooms it has registered in since it connected.                   *)
(*                                                                         *)
(* The server is not part of the repository: what it does is what the      *)
(* frames that the code sends and handles say of it.                       *)
(***************************************************************************)
EXTENDS Naturals, Sequences

CONSTANTS
  Device,       \* the devices, each running the engine
  Secret,       \* room secrets the server may hand out; a key stands for its secret
  None,         \* no pairing in progress
  MaxLoadFailures, MaxDeleteFailures,  \* how often an entry cannot be read, or deleted
  Limits        \* how often each thing outside the engines' control may happen: one of these

Kind == {"command", "cancel", "drop", "rotation", "restart", "saveFailure",
         "deleteFailure", "loadFailure", "probeFailure"}

ASSUME NoneAssumption == None \notin Device /\ None \notin Secret
ASSUME BoundAssumption ==
  /\ MaxLoadFailures \in Nat /\ MaxDeleteFailures \in Nat
  /\ Limits \subseteq {limit \in [Kind -> Nat] : /\ limit["loadFailure"] = MaxLoadFailures
                                              /\ limit["deleteFailure"] = MaxDeleteFailures}

VARIABLES
  devices,   \* Pairing.devices of each running process
  active,    \* Pairing.active, the secret of a pairing in progress
  backend,   \* the store the process found: the keyring, or memory
  stored,    \* the entry in the keyring, which outlives the process
  told,      \* the user knows that the pairings are not in the keyring
  forgotten, \* the pairings the user removed, without being told of a problem
  link,      \* the signaling task: waiting to retry, connecting or connected
  up,        \* messages handed to the signaling task that the server has not read
  down,      \* signaling events the device has not handled
  ipRoom,    \* server: the devices in the room of their public address
  rooms,     \* server: the devices in each secret room
  keys,      \* server: which device holds the key of a secret open
  fresh,     \* server: the secrets not handed out yet
  budget     \* what the environment may still do

local == <<devices, active, backend, stored, told, forgotten>>
server == <<ipRoom, rooms, keys, fresh>>
vars == <<local, server, link, up, down, budget>>

-----------------------------------------------------------------------------
(* Data.                                                                   *)

\* PairedDevice; display_name is the peer id until the device announces its name.
Record == [secret : Secret, named : BOOLEAN, autoAccept : BOOLEAN]

ClientMessage ==
  [type : {"JoinIpRoom", "PairDeviceInitiate", "PairDeviceCancel"}]
    \union [type : {"PairDeviceJoin", "RoomSecretsDeleted"}, secret : Secret]
    \union [type : {"RoomSecrets"}, secrets : SUBSET Secret]

ServerMessage ==
  [type : {"Identity", "KeyInvalid", "Canceled"}]
    \union [type : {"Initiated", "Joined", "Deleted"}, secret : Secret]
    \union [type : {"Regenerated"}, old : Secret, new : Secret]

Secrets(list) == {record.secret : record \in list}

\* The list after each operation.
Unpaired(list, secret) == {record \in list : record.secret # secret}

Trusting(list, secret, enabled) ==
  {IF record.secret = secret THEN [record EXCEPT !.autoAccept = enabled] ELSE record
     : record \in list}

Named(list, secret) ==
  {IF record.secret = secret THEN [record EXCEPT !.named = TRUE] ELSE record
     : record \in list}

Paired(list, secret) ==
  IF secret \in Secrets(list) THEN list
  ELSE list \union {[secret |-> secret, named |-> FALSE, autoAccept |-> FALSE]}

Rotated(list, old, new) ==
  {IF record.secret = old THEN [record EXCEPT !.secret = new] ELSE record
     : record \in list}

\* Mutant of RoomSecrets: the records are sent, not their secrets.
RoomRecords(list) == [type |-> "RoomSecrets", secrets |-> list]

RoomSecrets(list) == [type |-> "RoomSecrets", secrets |-> Secrets(list)]

-----------------------------------------------------------------------------
(* What every step does besides its own updates.                           *)

\* Takes one of each of these kinds from the budget of the environment.
Spend(kinds) ==
  /\ \A kind \in kinds : budget[kind] > 0
  /\ budget' = [kind \in DOMAIN budget |->
       IF kind \in kinds THEN budget[kind] - 1 ELSE budget[kind]]

Send(d, messages) == up' = [up EXCEPT ![d] = @ \o messages]

Arrives(d, type) == down[d] # <<>> /\ Head(down[d]).type = type
Handled(d) == down' = [down EXCEPT ![d] = Tail(@)]

\* persist: the whole list replaces the entry of the keyring, and a failure is
\* reported.  For an empty list the entry is deleted, and a failure of that is not.
Persist(d, list, spent) ==
  /\ devices' = [devices EXCEPT ![d] = list]
  /\ \/ /\ backend[d] = "memory"
        /\ Spend(spent)
        /\ UNCHANGED <<stored, told>>
     \/ /\ backend[d] = "keyring"
        /\ Spend(spent)
        /\ stored' = [stored EXCEPT ![d] = list]
        /\ told' = [told EXCEPT ![d] = FALSE]
     \/ /\ backend[d] = "keyring"
        /\ Spend(spent \union {"saveFailure"})
        /\ told' = [told EXCEPT ![d] = TRUE]
        /\ UNCHANGED stored
     \/ /\ backend[d] = "keyring" /\ list = {}
        /\ Spend(spent \union {"deleteFailure"})
        /\ UNCHANGED <<stored, told>>

-----------------------------------------------------------------------------

Init ==
  /\ devices = [d \in Device |-> {}]
  /\ active = [d \in Device |-> None]
  /\ backend = [d \in Device |-> "keyring"]
  /\ stored = [d \in Device |-> {}]
  /\ told = [d \in Device |-> FALSE]
  /\ forgotten = [d \in Device |-> {}]
  /\ link = [d \in Device |-> "connecting"]
  /\ up = [d \in Device |-> <<>>]
  /\ down = [d \in Device |-> <<>>]
  /\ ipRoom = {}
  /\ rooms = [s \in Secret |-> {}]
  /\ keys = [s \in Secret |-> None]
  /\ fresh = Secret
  /\ budget \in Limits

(* Commands of the user.                                                   *)

BeginPairing(d) ==
  /\ Spend({"command"})
  /\ Send(d, <<[type |-> "PairDeviceInitiate"]>>)
  /\ UNCHANGED <<local, server, link, down>>

CancelPairing(d) ==
  /\ Spend({"cancel"})
  /\ active' = [active EXCEPT ![d] = None]
  /\ Send(d, <<[type |-> "PairDeviceCancel"]>>)
  /\ UNCHANGED <<devices, backend, stored, told, forgotten, server, link, down>>

\* The user types the key another device shows.
JoinPairing(d) ==
  /\ Spend({"command"})
  /\ \E other \in Device \ {d} :
       /\ active[other] # None
       /\ Send(d, <<[type |-> "PairDeviceJoin", secret |-> active[other]]>>)
  /\ UNCHANGED <<local, server, link, down>>

\* Mutant of Unpair: the list is only changed in memory.
UnpairInMemory(d, secret) ==
  LET rest == Unpaired(devices[d], secret) IN
  /\ secret \in Secrets(devices[d])
  /\ Spend({"command"})
  /\ devices' = [devices EXCEPT ![d] = rest]
  /\ forgotten' = [forgotten EXCEPT ![d] = IF told[d] THEN @ ELSE @ \union {secret}]
  /\ Send(d, <<[type |-> "RoomSecretsDeleted", secret |-> secret], RoomSecrets(rest)>>)
  /\ UNCHANGED <<active, backend, stored, told, server, link, down>>

Unpair(d, secret) ==
  LET rest == Unpaired(devices[d], secret) IN
  /\ secret \in Secrets(devices[d])
  /\ Persist(d, rest, {"command"})
  /\ forgotten' = [forgotten EXCEPT ![d] = IF told'[d] THEN @ ELSE @ \union {secret}]
  /\ Send(d, <<[type |-> "RoomSecretsDeleted", secret |-> secret], RoomSecrets(rest)>>)
  /\ UNCHANGED <<active, backend, server, link, down>>

SetAutoAccept(d, secret, enabled) ==
  /\ secret \in Secrets(devices[d])
  /\ Persist(d, Trusting(devices[d], secret, enabled), {"command"})
  /\ UNCHANGED <<active, backend, forgotten, server, link, up, down>>

\* Mutant of SetDisplayName: the name is not saved.
NameInMemory(d, secret) ==
  /\ \E record \in devices[d] : record.secret = secret /\ ~record.named
  /\ devices' = [devices EXCEPT ![d] = Named(@, secret)]
  /\ UNCHANGED <<active, backend, stored, told, forgotten, budget>>
  /\ UNCHANGED <<server, link, up, down>>

\* PeerNameChanged: a paired device announces its name; a name already known is not
\* saved again.
SetDisplayName(d, secret) ==
  /\ \E record \in devices[d] : record.secret = secret /\ ~record.named
  /\ Persist(d, Named(devices[d], secret), {})
  /\ UNCHANGED <<active, backend, forgotten, server, link, up, down>>

\* The commands about a pairing there is, or one in progress.
EngineCommand(d) ==
  \/ CancelPairing(d)
  \/ \E secret \in Secret :
       \/ Unpair(d, secret) \/ SetDisplayName(d, secret)
       \/ \E enabled \in BOOLEAN : SetAutoAccept(d, secret, enabled)

-----------------------------------------------------------------------------
(* Signaling events.                                                       *)

\* Mutant of Replay: the paired rooms are not asked for again.
ReplayIpRoom(d) == <<[type |-> "JoinIpRoom"]>>

\* The rooms a device asks for once it has an identity.
Replay(d) ==
  <<[type |-> "JoinIpRoom"]>>
    \o (IF devices[d] = {} THEN <<>> ELSE <<RoomSecrets(devices[d])>>)

HandleIdentity(d) ==
  /\ Arrives(d, "Identity")
  /\ Handled(d)
  /\ Send(d, Replay(d))
  /\ UNCHANGED <<local, server, link, budget>>

HandleInitiated(d) ==
  /\ Arrives(d, "Initiated")
  /\ Handled(d)
  /\ active' = [active EXCEPT ![d] = Head(down[d]).secret]
  /\ UNCHANGED <<devices, backend, stored, told, forgotten>>
  /\ UNCHANGED <<server, link, up, budget>>

\* Mutant of HandleJoined: the room is not registered.
HandleJoinedSilently(d) ==
  /\ Arrives(d, "Joined")
  /\ Handled(d)
  /\ active' = [active EXCEPT ![d] = None]
  /\ Persist(d, Paired(devices[d], Head(down[d]).secret), {})
  /\ UNCHANGED <<backend, forgotten, server, link, up>>

HandleJoined(d) ==
  LET secret == Head(down[d]).secret IN
  /\ Arrives(d, "Joined")
  /\ Handled(d)
  /\ active' = [active EXCEPT ![d] = None]
  /\ Persist(d, Paired(devices[d], secret), {})
  /\ Send(d, <<[type |-> "RoomSecrets", secrets |-> {secret}]>>)
  /\ UNCHANGED <<backend, forgotten, server, link>>

\* pair-device-canceled ends the pairing; a refused key changes nothing.
HandleCanceled(d) ==
  /\ Arrives(d, "Canceled") \/ Arrives(d, "KeyInvalid")
  /\ Handled(d)
  /\ active' = [active EXCEPT ![d] = IF Arrives(d, "Canceled") THEN None ELSE @]
  /\ UNCHANGED <<devices, backend, stored, told, forgotten>>
  /\ UNCHANGED <<server, link, up, budget>>

\* secret-room-deleted: the other device removed the pairing.
HandleDeleted(d) ==
  /\ Arrives(d, "Deleted")
  /\ Handled(d)
  /\ Persist(d, Unpaired(devices[d], Head(down[d]).secret), {})
  /\ UNCHANGED <<active, backend, forgotten, server, link, up>>

\* room-secret-regenerated, which is ignored when the old secret is not known.
HandleRegenerated(d) ==
  LET frame == Head(down[d])
      list == Rotated(devices[d], frame.old, frame.new)
  IN
  /\ Arrives(d, "Regenerated")
  /\ Handled(d)
  /\ \/ /\ frame.old \in Secrets(devices[d])
        /\ Persist(d, list, {})
        /\ Send(d, <<RoomSecrets(list)>>)
     \/ /\ frame.old \notin Secrets(devices[d])
        /\ UNCHANGED <<devices, stored, told, up, budget>>
  /\ UNCHANGED <<active, backend, forgotten, server, link>>

HandleEvent(d) ==
  \/ HandleIdentity(d) \/ HandleInitiated(d) \/ HandleJoined(d)
  \/ HandleCanceled(d) \/ HandleDeleted(d) \/ HandleRegenerated(d)

-----------------------------------------------------------------------------
(* The signaling task and the process.                                     *)

\* A connection that is accepted gets an identity first.
Connect(d) ==
  /\ link[d] = "connecting"
  /\ link' = [link EXCEPT ![d] = "connected"]
  /\ down' = [down EXCEPT ![d] = Append(@, [type |-> "Identity"])]
  /\ UNCHANGED <<local, server, up, budget>>

ConnectFails(d) ==
  /\ link[d] = "connecting"
  /\ Spend({"drop"})
  /\ link' = [link EXCEPT ![d] = "waiting"]
  /\ UNCHANGED <<local, server, up, down>>

\* The wait ends with its time, or with the next message handed over, which is lost.
Retry(d) ==
  /\ link[d] = "waiting"
  /\ link' = [link EXCEPT ![d] = "connecting"]
  /\ \/ UNCHANGED up
     \/ up[d] # <<>> /\ up' = [up EXCEPT ![d] = Tail(@)]
  /\ UNCHANGED <<local, server, down, budget>>

\* The server forgets a device whose connection ends.
Leaves(d) ==
  /\ ipRoom' = ipRoom \ {d}
  /\ rooms' = [s \in Secret |-> rooms[s] \ {d}]
  /\ keys' = [s \in Secret |-> IF keys[s] = d THEN None ELSE keys[s]]
  /\ UNCHANGED fresh

\* Messages already on the socket and events not yet read from it are lost.
Drop(d) ==
  /\ link[d] = "connected"
  /\ Spend({"drop"})
  /\ link' = [link EXCEPT ![d] = "waiting"]
  /\ \E n \in 0..Len(up[d]) : up' = [up EXCEPT ![d] = SubSeq(@, n + 1, Len(@))]
  /\ \E n \in 0..Len(down[d]) : down' = [down EXCEPT ![d] = SubSeq(@, 1, n)]
  /\ Leaves(d)
  /\ UNCHANGED local

\* The process ends and another one starts, which loads what the keyring gives it.
\* An entry that cannot be read counts as none; a keyring that does not answer the
\* probe is replaced by memory, and the user is told.
Restart(d) ==
  /\ \/ /\ Spend({"restart"})
        /\ backend' = [backend EXCEPT ![d] = "keyring"]
        /\ devices' = [devices EXCEPT ![d] = stored[d]]
        /\ told' = [told EXCEPT ![d] = FALSE]
     \/ /\ Spend({"restart", "loadFailure"})
        /\ backend' = [backend EXCEPT ![d] = "keyring"]
        /\ devices' = [devices EXCEPT ![d] = {}]
        /\ told' = [told EXCEPT ![d] = FALSE]
     \/ /\ Spend({"restart", "probeFailure"})
        /\ backend' = [backend EXCEPT ![d] = "memory"]
        /\ devices' = [devices EXCEPT ![d] = {}]
        /\ told' = [told EXCEPT ![d] = TRUE]
  /\ active' = [active EXCEPT ![d] = None]
  /\ link' = [link EXCEPT ![d] = "connecting"]
  /\ up' = [up EXCEPT ![d] = <<>>]
  /\ down' = [down EXCEPT ![d] = <<>>]
  /\ Leaves(d)
  /\ UNCHANGED <<stored, forgotten>>

-----------------------------------------------------------------------------
(* The server.                                                             *)

Push(receivers, frame) ==
  down' = [d \in Device |->
    IF d \in receivers THEN Append(down[d], frame) ELSE down[d]]

Reads(d, type) ==
  /\ link[d] = "connected" /\ up[d] # <<>> /\ Head(up[d]).type = type
  /\ up' = [up EXCEPT ![d] = Tail(@)]
  /\ UNCHANGED <<local, link, budget>>

ServerJoinsIpRoom(d) ==
  /\ Reads(d, "JoinIpRoom")
  /\ ipRoom' = ipRoom \union {d}
  /\ UNCHANGED <<rooms, keys, fresh, down>>

\* Registering is additive: the rooms joined before stay joined.
ServerRegisters(d) ==
  /\ Reads(d, "RoomSecrets")
  /\ rooms' = [s \in Secret |->
       IF s \in Head(up[d]).secrets THEN rooms[s] \union {d} ELSE rooms[s]]
  /\ UNCHANGED <<ipRoom, keys, fresh, down>>

ServerDeletes(d) ==
  /\ Reads(d, "RoomSecretsDeleted")
  /\ LET secret == Head(up[d]).secret IN
     /\ Push(rooms[secret], [type |-> "Deleted", secret |-> secret])
     /\ rooms' = [rooms EXCEPT ![secret] = {}]
  /\ UNCHANGED <<ipRoom, keys, fresh>>

\* There are as many keys and secrets as the instance has in Secret.
ServerInitiates(d) ==
  /\ Reads(d, "PairDeviceInitiate")
  /\ \/ \E secret \in fresh :
          /\ fresh' = fresh \ {secret}
          /\ keys' = [keys EXCEPT ![secret] = d]
          /\ Push({d}, [type |-> "Initiated", secret |-> secret])
     \/ fresh = {} /\ UNCHANGED <<fresh, keys, down>>
  /\ UNCHANGED <<ipRoom, rooms>>

\* Both ends get pair-device-joined.
ServerPairs(d) ==
  /\ Reads(d, "PairDeviceJoin")
  /\ LET secret == Head(up[d]).secret
         initiator == keys[secret]
     IN \/ /\ initiator \notin {None, d}
           /\ keys' = [keys EXCEPT ![secret] = None]
           /\ Push({initiator, d}, [type |-> "Joined", secret |-> secret])
        \/ /\ initiator \in {None, d}
           /\ Push({d}, [type |-> "KeyInvalid"])
           /\ UNCHANGED keys
  /\ UNCHANGED <<ipRoom, rooms, fresh>>

ServerCancels(d) ==
  /\ Reads(d, "PairDeviceCancel")
  /\ keys' = [s \in Secret |-> IF keys[s] = d THEN None ELSE keys[s]]
  /\ Push({d}, [type |-> "Canceled"])
  /\ UNCHANGED <<ipRoom, rooms, fresh>>

\* The server replaces the secret of a room; whoever is in it is told and must
\* register again.
ServerRotates(old, new) ==
  /\ rooms[old] # {} /\ new \in fresh
  /\ Spend({"rotation"})
  /\ Push(rooms[old], [type |-> "Regenerated", old |-> old, new |-> new])
  /\ rooms' = [rooms EXCEPT ![old] = {}]
  /\ fresh' = fresh \ {new}
  /\ UNCHANGED <<local, link, up, ipRoom, keys>>

Server(d) ==
  \/ ServerJoinsIpRoom(d) \/ ServerRegisters(d) \/ ServerDeletes(d)
  \/ ServerInitiates(d) \/ ServerPairs(d) \/ ServerCancels(d)

-----------------------------------------------------------------------------

Next ==
  \/ \E d \in Device :
       \/ BeginPairing(d) \/ JoinPairing(d) \/ EngineCommand(d)
       \/ HandleEvent(d) \/ Server(d)
       \/ Connect(d) \/ ConnectFails(d) \/ Retry(d) \/ Drop(d) \/ Restart(d)
  \/ \E old, new \in Secret : ServerRotates(old, new)

Spec == Init /\ [][Next]_vars

\* The engine handles every event, the task keeps retrying, the server keeps reading,
\* and a connection attempt ends one way or the other.
FairSpec ==
  /\ Spec
  /\ \A d \in Device : /\ WF_vars(HandleEvent(d)) /\ WF_vars(Server(d))
                       /\ WF_vars(Connect(d)) /\ WF_vars(Retry(d))

-----------------------------------------------------------------------------

TypeOK ==
  /\ devices \in [Device -> SUBSET Record]
  /\ active \in [Device -> Secret \union {None}]
  /\ backend \in [Device -> {"keyring", "memory"}]
  /\ stored \in [Device -> SUBSET Record]
  /\ told \in [Device -> BOOLEAN]
  /\ forgotten \in [Device -> SUBSET Secret]
  /\ link \in [Device -> {"waiting", "connecting", "connected"}]
  /\ up \in [Device -> Seq(ClientMessage)]
  /\ down \in [Device -> Seq(ServerMessage)]
  /\ ipRoom \subseteq Device
  /\ rooms \in [Secret -> SUBSET Device]
  /\ keys \in [Secret -> Device \union {None}]
  /\ fresh \subseteq Secret
  /\ budget \in [Kind -> Nat]

InRooms(d) == d \in ipRoom /\ \A s \in Secrets(devices[d]) : d \in rooms[s]

\* "Secrets are replayed as room-secrets on every reconnect; without that a paired device
\* stays invisible": a connected device with nothing left to say or to hear is in every
\* room it is paired into.
RegisteredWherePaired ==
  \A d \in Device :
    link[d] = "connected" /\ up[d] = <<>> /\ down[d] = <<>> => InRooms(d)

\* "Turning a storage failure into an event rather than losing it": pairings that differ
\* from what the keyring holds, and would not survive a restart, are never news to the user.
StorageFailureIsReported == \A d \in Device : devices[d] # stored[d] => told[d]

\* The failures of the keyring that the code takes for something else: an entry that could
\* not be read for no entry, and one that could not be deleted for a deleted one.
NoneUnread == budget.loadFailure = MaxLoadFailures
NoneUndeleted == budget.deleteFailure = MaxDeleteFailures

\* Where those two stay away, the user knows whenever pairings are not saved, whatever saves
\* fail, frames arrive and processes end in between.
UnsavedIsReported == NoneUnread /\ NoneUndeleted => StorageFailureIsReported

\* A pairing the user removed without complaint from the store never comes back: not
\* with a rotation, not with a late frame, not with another process.
ForgottenStaysForgotten ==
  NoneUndeleted => \A d \in Device : forgotten[d] \cap Secrets(devices[d]) = {}

\* However often connections drop, every device ends up in every room it is paired into.
EventuallyRegistered ==
  \A d \in Device : <>[](link[d] = "connected" /\ InRooms(d))
=============================================================================
