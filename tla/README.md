# A TLA+ model of PairDrop

PairDrop sends files between devices: a signaling server introduces them, a
WebRTC data channel carries the files. The repository holds the Linux client (a
Rust workspace under `linux/crates`), the Swift library of the macOS client
(`shared/PairDropKit`) and the macOS application. The server is not in the
repository.

This directory models the Linux client in six modules (transfers, pairing, the engine,
the connection to the server, the command line, the desktop application) and the macOS
client's hold on the server in a seventh, states in an eighth what sending files
promises, checks them with TLC on small instances, and proves theorems about all of them
with TLAPS, among them that transfers implement that promise.
Paths below are relative to the repository; `client` stands for
`linux/crates/pairdrop-client/src/lib.rs`, `transfer` for
`linux/crates/pairdrop-transfer/src/lib.rs`, and so on, and the Swift files are in
`shared/PairDropKit/Sources/PairDropKit`.

## Inventory

| part | state it keeps | operations | talks to |
|---|---|---|---|
| transfer machine (`pairdrop-transfer/src/lib.rs`) | activity, outgoing queue and chunker, pending and accepted request, staged file, counters | send files, respond, one handler per frame, reset | the engine (events), the peer's machine (frames on the data channel) |
| chunker and staging (`pairdrop-transfer/src/files.rs`) | offset and read size of the file being sent, the `.part` file being received | open, next partition, append, is complete, finish, `sanitize`, `unique_path` | the file system |
| wire protocol (`pairdrop-proto`) | none | encode and parse signaling and transfer frames, endpoint URLs, `cyrb53` | everyone |
| pairing and credential store (`pairdrop-pairing`) | list of paired devices, pairing in progress, backend found at start | initiate, join, cancel, unpair, rename, trust, five server frames, load and save | the engine, the keyring |
| engine (`pairdrop-client/src/lib.rs`) | peers with session, transfer and view; secret of each peer; ip room; pending requests | one `select!` loop over commands, signaling events and WebRTC events | all of the above, the application |
| WebRTC session (`pairdrop-rtc`) | role, peer connection, data channel | accept description or candidate, send, close, reports | the engine, the WebRTC library |
| signaling connection (`pairdrop-net`) | state, identity to replay, attempt count | fetch the configuration, dial, read, write, ping, wait and retry, give up, shut down | the server, its owner (the engine or the command line) |
| command line (`pairdrop-cli`) | the peers of one run with their `sent` flags, one `room`, `joined` flag | join rooms, call or answer, send or receive, stop when interrupted | signaling, sessions, transfers, the store |
| GTK application, settings (`pairdrop-gtk`) | rows, banner, request dialogs, settings and their file | commands to and events from the engine, preferences | the engine |
| `SignalingClient` (Swift) | socket, state, generation, scheduled retry, `intentionallyClosed` | connect, disconnect, reconnect now; tasks for what was fetched, received or is due | the server, `PairDropClient` |
| `PairDropClient` (Swift) | the current `SignalingClient`, the peers with their rooms | start, stop, restart, network changed, one handler per frame | `SignalingClient`, `PairDropPeer`, the macOS application |
| `PairDropPeer`, `RTCSession`, `FileTransfer`, `RoomSecretStore` (Swift) | the counterparts of the above, with their own queues and work items | as above | `PairDropClient` |

What is hard about each, and what has to be true of it:

* **Transfer.** Two machines exchange frames over an ordered channel while their
  users act at any time, files change under the sender, the disk fails under the
  receiver and the channel goes away with frames in flight. A saved file must be
  the file that was announced; the accepted manifest is a contract; "finished"
  must not be said before the other end has saved everything; the partition
  handshake must bound what is in flight; nobody may wait for good.
* **Pairing.** The list lives in memory and in a keyring that may be away, refuse
  to save or to delete, and the process may end in between. The server knows a
  device only by the rooms it registered in since it connected, messages handed
  over while the connection waits are thrown away, and secrets rotate while
  others are removed. A connected device must be in every room it is paired into;
  a storage failure must reach the user; a removed pairing must not come back.
* **Engine.** Two devices learn of each other through two kinds of room, at the
  same time, and one has to call and the other to wait. Sessions are replaced
  while reports of the old ones are still queued. They must end up connected,
  no open session may be forgotten, and trust must follow the pairing.
* **Signaling connection.** One task that waits in one place at a time: what its owner
  asks for while it fetches, dials or sleeps is read only afterwards, or swallowed. It
  must keep one identity, give up exactly when it is told to, end when it is asked
  to, and otherwise always try again.
* **Command line.** Its own loop over the same parts: devices come, announce their name
  after the channel is open, go and come back while reports of earlier calls are queued. The
  files must go to those `--to` names, to nobody else and not twice, and an interrupt must
  end the program wherever the connection is.
* **Application.** A window and an engine on two threads that see each other only
  through queues: the window lags, dialogs outlive the connections they were raised on,
  settings change while frames of the old server are queued. Rows and banner must come to
  tell the truth, and nothing may be received that the user did not accept.
* **Swift client.** All on the main actor, but in pieces: what was fetched, received
  or scheduled comes back as a task of its own, when the socket it belongs to may be
  gone; a generation number tells. There must never be two connections, the
  peers must be those of the present one, and a started client must not be left waiting.
* **Swift peer.** File I/O on a queue of its own that hops back to the main actor,
  and reconnects scheduled for sessions that no longer exist.

`PROJECT.json` lists these hazards at their lines, each with the property that
would notice it going wrong or the reason why none does.

## Modules

| module | small instances | proofs |
|---|---|---|
| `FileDelivery`, an abstraction of `Transfer` | | |
| `Transfer` | `MCTransfer` | `Transfer_proofs`, used by `OneSender_proofs` |
| `Pairing` | `MCPairing` | `Pairing_proofs` |
| `Engine` | `MCEngine` | `Engine_proofs` |
| `Signaling` | `MCSignaling` | `Signaling_proofs` |
| `CommandLine` | `MCCommandLine` | `CommandLine_proofs` |
| `Application` | `MCApplication` | `Application_proofs` |
| `PairDropClient` | `MCPairDropClient` | `PairDropClient_proofs` |

The modules cut the Linux client at the seams the crates have. `Signaling` is the task
that holds a connection, `Pairing` every frame that leads to a pairing and what is kept
of it, `Engine` says when a channel opens and closes and for whom, `Transfer` what two
machines do on one. `CommandLine` and `Application` are the two programs on top. Each
module has of its neighbours what it depends on, as a smaller machine with the same
steps: the connection of `Pairing`, `Engine`, `CommandLine` and `Application` waits,
swallows a message and retries as `Signaling` does; a session of `CommandLine` opens,
fails and reports as in `Engine`; a request in `Application` is asked for, answered and
received as in `Transfer`. `Transfer` implements `FileDelivery`, an abstract
specification of one promise to two users.

### Transfer

Two `Transfer` machines and the channel between them. `snd[p]` and `rcv[p]` are
the outgoing and the incoming fields of one struct, `activity[p]` its
`Activity`, `net[p]` the frames on their way to `p`, `saved[p]` its download
directory, `busy[p]` the flag `apply_transfer_events` keeps of the row, and
`events[p]` what the last step pushed.

* Commands: `SendFiles`, `SendNothing` (a list with nothing readable), `Respond`.
  Handlers: one `Rcv...` action per frame and outcome, `RcvClosed` for the loss of
  the channel, `LinkDrop` and `Redial` (`dial` builds a new `Transfer`).
* A handler is one step: the engine polls one event at a time and runs it to its
  end (`client:215-250`). What a handler writes before an error stays written
  (`WriteOutcomes`, `Fail`): the code does not take frames back.
* Files are counted in chunks. A file that is missing, empty or a folder has size
  0. `PartitionSize` is `CHUNKS_PER_PARTITION` (16 in the code), `ProgressSteps`
  the 200 steps of half a percent at which the receiver reports.
* A file that changes shows as a `Fault`, and so does one that cannot be staged or saved.
  Before its turn a file may take another size or disappear (`NextFile`); while it is read it
  may shrink (`Reading` stops early), fail, or grow: `next_chunk` fills its last chunk whatever
  the size in the header (`files.rs:45-68`), so that chunk runs over (`over`), is sent, and
  is appended at the other end, which asks for no exact size either (`files.rs:111-122`).
  Bytes past that chunk are not read, since `next_chunk` is then past the size.
* Text, names and acknowledgements change no state of the machine and are left
  out, as are MIME types and thumbnails. Names of saved files (`sanitize`,
  `unique_path`) are left out: `saved` is a sequence of what was moved, not a map.

### FileDelivery

What two users are promised, without chunks, frames or machines: `offers` on their way
to an end, the manifest its user is `asked` about, the `contract` it accepted and still
expects, and the files `delivered`. Offers may be refused or lost; an end is asked about
one at a time and never during a batch; what is accepted is what was asked, or an offer
where nobody is asked; a file is delivered when its turn comes. `Transfer` maps `offers`
to the requests in `net`, `asked` to `pending`, `contract` to `remaining`, and
`delivered` to the headers of `saved`. The one thing the abstract system had to concede
to the code: after the channel is lost, a file whose completion cannot be written is in
place and stays on the list until the batch is given up (`transfer:345-384`).

### Pairing

Devices, each with its list (`devices`), its keyring entry (`stored`, which a
restart keeps), the backend the process found, and a connection with two queues;
and the server (`ipRoom`, `rooms`, `keys`, `fresh`) as far as the frames that the
code sends and handles tell. A key stands for the secret it leads to. `told` and
`forgotten` record what the user was told and asked for; nothing reads them but
the properties.

* Commands of the engine.
* `Persist` is `persist` with every way the store can fail. `Restart` probes the
  keyring again (`best_available`) and loads, which may find it away or unreadable.
* `Retry` ends the wait by time or by the next message, which is lost
  (`pairdrop-net/src/lib.rs:181-190`).
* Left out: pings, the fetch of the configuration, the order of the list, which
  nothing depends on, and the text of names.

### Engine

Devices with the peers they list, every session they ever built with each other
(so that a forgotten one can be seen), and the same connection and server as in
`Pairing`. `Peer.session` is the index of the current session.

* One action per signaling event and per report of a session; `Unpair` and
  `SetAutoAccept` are the commands that touch peers.
* Descriptions are relayed by the server to a peer that is in the room they name.
  Candidates are abstracted: a channel opens when a caller and a callee hold each
  other's description. Closing a session always reports `Closed`.
* `home` is the room of a device's public address and is chosen once, from
  `Homes`: behind one address, or behind two, where only a pairing brings devices
  together.
* `Settles` says what the wait between two connections, two seconds at least, is
  good for if it lasts its time: the next connection starts when nothing about the device is
  under way. A message, left over when the connection was lost or handed over later, cuts the
  wait short; the next connection then starts at any time, and the device is `hurried`
  from then on. Without `Settles` anything may arrive late always.
* Left out: the `Connect` command (the new connection has a new identity, so it
  is another device), the list of pending requests, views, and a second failure
  to connect (in `Pairing`).

### Signaling

The task of `pairdrop-net`, with the handle and the receiver of its owner. `phase` is the
`.await` the task is in: `Fetching` the configuration and `Dialling` read no command, the
`Session` reads commands and frames, the wait reads one command, whatever it is
(`Waiting` before its `select!` was first polled, `Sleeping` once the timer runs).

* `HandOver` and `Leave` are what an owner may do: send, and ask for the end while it
  keeps or drops its handle and its receiver, as the command line and the engine do.
* One action per outcome of the task: `Fetch`, `Connects`, `ConnectFails`, the branches
  of the session loop, `Sleep`, `Wake` and `StopWaiting`. The reports fail when nobody
  listens, which ends the task where the code does.
* `streak` and `asked` count what the network and the owner did, for the properties; the
  task reads neither.
* A handshake ends well (`Connects`), badly (`ConnectFails`) or not at all: unlike the fetch
  of the configuration it has no timeout (`pairdrop-net/src/lib.rs:216-222`).
* Left out: the length of the delays, TLS, pings that the client times. A connection
  whose receiver the engine has replaced may end without sending `disconnect`, as in the
  code: the first report it cannot deliver ends it.

### CommandLine

`pairdrop --dial --send --to`: `peers` with their `sent` flags, `sessions` with every
session ever built with each device, the signaling task (`link`, `up`, `down`) and the
server as far as its rooms. A device comes and goes; each stay is a `life`, so that a
report of an earlier call can be told from one of the present.

* One action per branch of the `select!` and per event: `Handle...` for the signaling
  events, `HandleOpen`, `HandleName` and `HandleGone` for the reports of the sessions,
  which name the device and not the session; `Interrupt`.
* A dial may fail: no session, no peer (`Dial`, `HandleSignal`).
* `late` says that two calls with a device overlapped, which no property survives (see
  below); the environment then stops, and so it does while the program stops or has
  `MaxBacklog` events to handle.
* Left out: `--pair`, `--join`, `--unpair-all`, a run without `--dial`, answering
  requests, what is printed.

### Application

The window (`rows`, `banner`, `dialogs`, `uiSettings`, the settings file `disk`), the
queues `commands` and `events`, and the engine (`settings`, `peers`, `signaling`, and the
`receiver` whose events it reads, which stays when the handle goes). A connection has an
inbox and the room; a data channel is there or not.

* The window: `ShowConnection`, `UpdatePeers`, `AskAboutRequest` draw one event each;
  `Answer` and `ClosePreferences` are the user. A settings file that cannot be written
  only makes the window complain.
* The engine: `HandleConnect`, `HandleRespondToRequest`, one action per signaling event
  and per report of a session. Each publishes the snapshot the code publishes.
* `answers` and `overlapped` remember which dialog the user answered how and which requests
  came while an earlier one of the device was still open or on its way; only properties
  read them.
* The reports of the sessions with one device share a queue, as in the code, where they
  share one for all devices. Each session has a task of its own that puts them there
  (`client:528-536`), and the library reports an end when it likes: `leaving` counts the closed
  sessions that may still report (`ClosesLate`, and requests that come late). `crossed` are the
  devices whose next session was open by then, which only `Settles` reads.
* The task of a connection retries for ever, hangs in its handshake, or fails for good, when
  TLS cannot be set up or the address is no URL (`TaskFails`).
* Left out: choosing files and sending them, text, the pairing page, notifications.

### PairDropClient

The macOS client: `clients` is every `SignalingClient` it ever made (a replaced one
may still have tasks under way), `signaling` the current one, `sockets` every
socket ever opened with what the server keeps for it, `rooms` the rooms of each
listed peer (`PairDropPeer.rooms`, empty for a peer that is not listed), `there` the
devices the server has in each room. `met` records the socket a peer was listed
under; only a property reads it.

* One action per method the user or the network calls (`Start`, `Stop`, `Restart`,
  `NetworkChanged`) and one per task that comes back on the main actor:
  `ConfigFetched` (the end of the `Task` in `connect`), `RetryIsDue` and `Retry` (the
  work item, and the task it starts, which can no longer be cancelled), and the reports
  of a socket (`IgnoreStale`, `HandleDrop`, `Handle...`).
* A socket that is cancelled closes at once at the server, but what it handed over
  before is still in its `inbox` and arrives whenever it likes.
* The server is external: it greets, admits a socket to the rooms it asks for,
  and tells of devices that enter or leave.
* Left out: the frames of pairing and the trust that follows from it, what is shown,
  the length of the delays, peers without WebRTC, and the sessions with peers.

## Runs

| run | instance | what it shows |
|---|---|---|
| `transfer_one_way` | one sender, batches with a skipped file and one with nothing to send, partitions of 2, 3 requests, 2 faults, 1 lost channel; 23 774 states | "finished" is said only of what the peer kept; at most one partition is in flight even when files fail; a disabled row belongs to a busy machine; while no local fault strikes, both ends agree whenever the channel is quiet, every request concludes and every accepted batch ends |
| `transfer_both_ways` | both send, one of them accepts without asking, 3 requests, 1 fault, 1 lost channel; 427 647 states | types; saved files are whole, and longer than announced only after a local fault such as a file that grew; an end keeps to the manifest it accepted; every step is one of `FileDelivery` |
| `transfer_crossed` | both send, files of one and of two chunks in partitions of 1, 7 requests, 2 faults, no lost channel | violated: see below |
| `pairing` | 2 devices, 2 secrets; the entry may fail to be read and to be deleted, and with 3 commands a drop and a rotation, a restart and a rotation, or a restart with a failed save and a failed probe happen; or with 2 commands a drop and a cancelled pairing, or 2 drops and a rotation; 678 249 states | types; whoever is connected and has caught up is in all of its rooms; unsaved pairings are known to the user; a removed pairing never returns; every device ends up connected and in all of its rooms |
| `engine_rooms` | 2 paired devices behind one address or two, 1 drop and 1 change of trust, or 2 changes of trust, `Settles`; 186 860 states | when quiet, devices that share a room are connected and show it, and in the end all are, unless a message cut a wait short; only a trusted pairing is accepted without asking |
| `engine_faults` | behind two addresses, any pair of a failed dial, an ICE failure, an unpairing, a pairing, a rotation, and a drop with either of the first two, not `Settles`; 539 772 states | types, and every listed peer has a session; every session that is not closed is the current one of a listed peer |
| `kit_session` | 2 rooms, 1 other device, a start and a stop or a restart, 1 each of a change of network, a bad address, a drop and a move of the device; 262 268 states | types; never a second connection; the listed peers were met under the present one, and once it has caught up are those it shares a room with; a started client ends up caught up |
| `signaling` | a limit of 3 attempts, 2 messages, 2 frames, 4 failures, the owner leaving in every way; 105 799 states | one identity for life; the task gives up exactly in time and else gets back on a socket; who asks for the end gets it, after no more dials than were bound to come, both unless a handshake never ends |
| `command_line` | 1 device behind the same address that can be paired and comes twice, the second time under the name `--to` asks for; 1 drop or end of the task; 282 853 states | types; the files go to the named stays, not more often than there are connections, and to no other; an open channel is that of a listed peer; an interrupt ends the program unless a handshake never ends |
| `command_line_twice` | the same device keeps its name; no drop, no pairing | violated: see below |
| `application` | 1 device, 2 folders, the window up to 1 event behind; 2 requests and 1 drop; 1 request, 1 arrival or departure and 1 drop; or 1 change of settings with one of the three; 1 211 391 states | rows catch up with the engine; a request that waits can be answered; only what was accepted is received; every transfer works with the settings that are shown, though the file may fail to be written; the banner is true; left alone, everything settles |
| `application_lingers` | 1 change of settings, 1 arrival or departure, 1 drop, no requests | violated: see below |

**Bounds.** A file of five chunks in partitions of two has a first, a middle and a
short last partition, one of one chunk ends inside the first; three requests are
a transfer, a second one that meets its leftovers, and a third that crosses it.
Two devices are what every protocol here is between; a second secret is
enough for a rotation or another pairing. Each failure happens once at any point;
`Limits` names the combinations `pairing` goes through, and `engine_faults` combines them by two, because a state of three failures is
already out of the range of a run of minutes. In `kit_session` two rooms are what it
takes to leave one and stay in the other, and one drop, one change of network and one
restart leave three generations with tasks of their own. In `signaling` a limit of three
attempts has a first, a middle and a last failure, four failures reach it and leave one
to happen before or after a connection, and two messages are one the wait swallows and
one that is sent or swallowed by the next wait. In `command_line` a device that comes
twice under two names is the one `--to` must tell apart, the pairing is what changes its
rooms and its trust, and the environment rests while the program lags `MaxBacklog` events
behind or stops, since any backlog of one device comes to the same handlers one by one.
In
`application` the changes of settings are to another folder, to no address and to an unusable
one; `Limits` (`Few`) names the combinations, two incidents each, because three are out of
the range of a run of minutes; the user and the world act while the window is at most
`MaxBacklog` events behind, and the engine's own queues are as long as they get. A session
that was closed may report its end, or bring a request, at any later time.

**Stopping.** Users may stop and budgets run out, so the runs do not check for
deadlock; that the system goes on where it must is what the liveness properties say.

**Fairness.** Weak fairness of what a loop does by itself: the engine handles
events (`client:215-250`), the signaling task retries for ever (the engine
sets no `max_attempts`), the server reads, and a channel that can open does. No
user is obliged to do anything: a request that nobody answers may wait, which
`RequestConcludes` allows. `PairDropClient` has weak fairness of its tasks together
and of the admissions: the main actor gets to every task, a fetch ends with an answer or
its timeout, a delay ends. `Signaling` has weak fairness of the task alone: the runtime
polls it while anything is ready, the fetch has a timeout, a timer fires. The handshake has
none (`pairdrop-net/src/lib.rs:216-222`), so it is fair in none of `Signaling`, `CommandLine`
and `Application`, and what waits for it excepts a handshake that never ends
(`HandshakeHangs`, the `connecting` of `Settles`).
`CommandLine` has it of the two branches of the `select!` (which polls them in random
order), of the rest of the task and of the server; `Application` of the window's loop, of the
three branches of the engine's `select!`, of the task but its handshake, and of two devices
that hold each other's description. `Pairing` and `Engine` do assume that the server answers
each handshake: their liveness is about what it makes of the connection. No message of the user, no arrival and no failure has to happen.

**Conditions in the properties.** `QuietMeansAgreed`, `RequestConcludes` and
`ReceivingConcludes` speak of behaviours without a local fault (`Faultless`):
`fail` resets one machine and tells the peer nothing (`transfer:565-568`), so
after one the peer waits until the channel closes. `UnsavedIsReported` and
`ForgottenStaysForgotten` except an entry that could not be read or deleted, which
the store reports as success. Without `Settles`, `QuietMeansConnected` does not
hold: a report of an old session marks its successor closed (reports name the peer
only, `client:572-626`). `Settles` is about a wait that lasts its time; the code does not
guarantee that one does, since any message cuts it short (`pairdrop-net/src/lib.rs:181-190`), and
after that neither `QuietMeansConnected` nor `EventuallyConnected` holds, see below: both
except it (`hurried`). Neither speaks of failed dials and ICE attempts, after which
nobody tries again. `QuietMeansConnected` is proved for devices without pairings, whatever
number of connections is lost; for paired ones it is checked with the one drop of `engine_rooms`, and
was with two outside of the runs, which take too long with them.
`SavedIntact` lets a file be longer than its header says once a local fault, such as a file that
changed, has struck.
`PeersAreOfThisSession` and `ListedWhereShared` hold for as long
as the network stays the same (`SameNetwork`), see `reconnectNow` below.
`FinishedMeansSaved`, `QuietMeansAgreed`, `BusyRowIsBusy` and `OnePartitionInFlight` are checked
while one end sends, see below for what happens when both do.
`FilesGoWhereWanted` and `QuietMeansListed` hold until two calls with a device overlap
(`late`), and the latter as long as the program is in its rooms;
`ReceivesWhatWasAccepted` excepts requests made while a dialog of an earlier call was
still open (`overlapped`). `Settles` of `Application` excepts a handshake that is never answered, a
task that failed for good, and a session that had opened before an earlier one reported
its end (`crossed`), see below.

Every property of a passing run has a mutant in `PROJECT.json`: a definition of
the model changed the way a bug in the code would change it (`IsCompleteEarly`,
`HandlePeerLeftOpen`, ...), which makes the run fail.

## What the models showed

Three disagreements between the code and what it says of itself have a run.

`transfer_crossed`: a response and a `file-transfer-complete` carry nothing that ties them to
a request or a file, and a batch that is abandoned at one end is not at the other
(`transfer:467-475, 510-524`). When both users send, the acceptance of an abandoned request
is taken for the answer to a newer one, and the completion of the abandoned file, which the
peer did keep, finishes the newer batch: its user is told that sending finished and the peer
kept nothing of it, against `pairdrop-transfer/tests/roundtrip.rs:114`, "Waits for the sender to
finish, which for a file transfer happens strictly after the receiver has saved everything."
It takes seven requests and two files that fail to be read, 36 steps in all; while one end
sends, `FinishedMeansSaved` holds (`transfer_one_way`).

`application_lingers`: a `Connect` with an empty or unusable address takes the handle and
clears the list, but the loop goes on reading the receiver of the old connection
(`client:233-235, 297-301`). A list of devices that was already queued is dialled after the
teardown, and the `Closed` that follows clears nothing, against `client:284`, "Tear the
old connection down first, or peers linger under stale sessions."

`command_line_twice`: the flag that says the files were sent is a field of `Peer`, and `dial`
makes a new one whenever a device is met again (`pairdrop-cli/src/main.rs:405`), so that a device
that leaves and comes back, or is met again after a lost connection, gets everything twice,
against line 101, "Set once we've sent to this peer, so a reconnect doesn't send everything
twice", and line 538, "at most once". What the code does see to is checked
by `command_line`: not more often than there are connections.

Others were found on the way and are recorded as hazards. Where a property would fail,
it has the condition named above.

Transfers:

* `partition-received` is obeyed whatever the machine is doing (`transfer:500-502`). After a
  local failure an acknowledgement of the old batch makes the sender put a second
  partition of the next one on the wire, when both ends send.
* Two users who send to each other at once: each request overwrites
  `AwaitingResponse`, the decline of the first is then ignored (`transfer:449-468`)
  and its sender does not become idle.
* A file that grows after it was opened is sent with bytes past the size in its header and
  saved with them (`files.rs:45-68, 111-122`), though `transfer:408-412` means to accept what
  was agreed and no more.
* `RtcEvent::Closed` resets the transfer and leaves the `busy` flag of the row
  (`client:610-624`).

Pairing:

* A failed deletion of the keyring entry is taken for success (`store.rs:90-93`); the
  removed pairing is back after a restart and the user was never told, against
  `pairdrop-pairing/src/lib.rs:231`, "turning a storage failure into an event".
* An unpairing leaves `auto_accept` of a connected peer on (`client:359-366`), and
  `secret_for_peer` is never removed from (`client:548, 734`), so an unpaired peer
  is still addressed through the room of the old pairing.

Engine:

* Nothing rebuilds a session whose ICE failed (`client:609-617`), against
  `pairdrop-rtc/src/lib.rs:47`, "The caller should rebuild the session and offer again."
* A trusted device on the same network is met in the room of the address first and
  keeps that label, so it goes on prompting (`client:463, 546`), against
  `linux/README.md:184`.
* A pairing that completes between a call and its offer sends the offer through a
  room the other end has not entered (`client:733-735`), and the two stay unconnected.
* One lost connection may leave two paired devices unconnected for good if a message cuts the
  wait short (`pairdrop-net/src/lib.rs:181-190`), behind one address or two: the `JoinIpRoom`
  or `RoomSecrets` that would have brought them together is what the wait swallows; or an offer of
  a session that is closed by then goes out over the next connection, the other end answers
  that one, and not the next; or the next connection is there before the reports of
  the old sessions, which are then taken for those of the new (`client:572-626`). A
  `secret_for_peer` that outlives the connection (`client:155, 548, 631-636`) adds calls through a
  room the other has not entered yet. Nobody offers twice.

Signaling connection:

* A command handed over during the wait cuts it short and is thrown away
  (`pairdrop-net/src/lib.rs:181-190`): a burst of commands replaces the delays. What was
  asked for before the connection was lost, and not sent, is sent over the next one.
* The handshake has no timeout and no command is read meanwhile (`pairdrop-net/src/lib.rs:216-222`;
  the configuration has ten seconds, 306): against a server that accepts a connection and
  says nothing the task neither retries nor ends when it is asked to.
* When the engine replaces a connection it drops the receiver too; the old task may then end
  at its next report, without the `disconnect` a shutdown sends.

Command line (`pairdrop-cli/src/main.rs`):

* It joins its rooms once per process (187-195), so after a reconnect it is in none,
  against `linux/README.md:220`.
* An interrupt while the server does not answer the handshake never ends the program: the arm
  is not polled again (268).
* `maybe_send` sets the flag before a send that may fail; the name then finds it set.
* A `Closed` or `Failed` of an old session removes, and `Failed` closes, the peer of a newer one.
* All signals go to the one `room` last seen (304), whatever room a device was met in.
* A device paired in the same run is looked up for trust once it has a name, and from
  then on is not accepted without asking, against line 6, "incoming transfers are always accepted".

Application:

* The answer to a request names the device and not the request: the dialog of a lost call
  answers the next request of that device if that comes while it is open (`overlapped`).
* A session that was closed may report its end after the next one with the same device has opened
  (`client:528-536`, `pairdrop-rtc/src/lib.rs:225-237, 275-277`); reports name the device only, so the
  new one is shown as not connected, and stays so (`crossed`).
* The banner of an unusable address, `Failed`, is overwritten by the `NotConfigured` of
  the connection that ended.
* Preferences are applied even if the file cannot be written; one that is cut short in the
  middle of a write is read as the defaults at the next start.

macOS client:

* After a change of network the client keeps the peers of the connection it
  drops (`SignalingClient.swift:101`): only `waitingToRetry` clears the list, and
  `reconnectNow` does not pass through it, against `PairDropClient.swift:257`, "Peers
  only exist while we share a signalling session with them". Devices of the old network stay
  listed, and those met again are taken for known and not called.

## Proofs

`Transfer_proofs` proves, for every set of files and sizes, every partition size
and every bound on the environment (the assumptions of `Transfer` are all it uses):

* `TypeCorrect`: `Spec => []TypeOK`. `TypeOK` alone is not inductive: the answer to a
  request opens the first file asked for, so there must be one. The inductive
  invariant is `TypeInv`, `TypeOK` with `AwaitsWithFiles` (who awaits a response has
  files queued). The lemmas take the helpers one by one (`PartitionEndType`,
  `PutPartitionType`, `NextFileType`, ...), then each handler, and
  `StepTypeInv` puts them together.
* `ManifestIsHonoured`: `Spec => []ManifestHonoured`. On an open channel, what was
  received and what remains make up the accepted manifest, the staged file is the
  next one of it, and no other request is pending. It is inductive relative to
  `TypeInv`: every handler either leaves an incoming half alone, resets it, or
  moves one header from `remaining` to `received` (`ReceivedHonours`, where the
  associativity of concatenation is needed).

It also proves the refinement, and what it takes to keep saved files whole:

* `TransferImplementsFileDelivery`: `Spec => ImplementsFileDelivery`. Every step of the two
  machines maps to a step of `FileDelivery` or to a stutter. It needs `TypeInv` and one more
  invariant, `AllTidy`: files are expected only under an accepted manifest, only the next
  of them is staged, and no request waits meanwhile. Unlike `ManifestHonoured` it holds
  without the channel too, where the code may leave a delivered file on the list; what was received
  is not part of it. The lemmas go by what a step does to the abstract state: frames that
  are no requests offer nothing new (`AppendedShrinks`, `TailShrinks`, `ExchangeShrinks`),
  a step that leaves the incoming halves alone (`IdleStep`, `KeepStep`), one that resets
  one (`ResetStep`, `FailResets`), and the delivery of a file (`DeliverStep`); then each handler
  is one of these, and asking and accepting have their own (`RcvRequestStep`, `RespondStep`).

* `SavedFilesAreIntact`: `Spec => []SavedIntact`. That a saved file has every chunk its header
  promises, once and in order, depends on frames that are still on their way. The invariant `InStep` reads
  them: a `Position` is the file begun last and how many of its chunks have gone by, and the frames
  to an end lead from the position of the file staged there to that of the file open
  at the other end. The lemmas about sequences (`AppendLeads`, `ConcatLeads`, `TailLeads`,
  `PrefixLeads`) say how positions follow frames that are written, taken or lost;
  `ExchangeInStep` and `WriteInStep` say it once for all handlers and commands;
  `PartitionLeads` is the partition a sender reads, also of a file that shrank;
  `CompleteIsWhole`, which needs that the sender begins no chunk past the size in the header, ends
  the argument. That a chunk runs over only after a local fault is a second invariant,
  carried from the reading of a partition over the channel to the file staged.
  `AllTidy` is needed for a header that is ignored: nothing is staged then.

`OneSender_proofs` proves, under the same assumptions:

* `FinishedIsSaved`: `OneSender => (Spec => []FinishedMeansSaved)`, where `OneSender` says that
  `Senders` has at most one member, so that one user answers only. Without it the property is
  false (`transfer_crossed`); other than that it is about every behaviour, with resets, requests
  that overtake a running transfer and lost channels. A completion is not tied to the file it
  completes, so the invariant `TakeTurns` has to say that it cannot be about another one: the two
  ends keep their roles (`Roles`: nothing the answering end does makes it send files), there is
  never more than one answer on its way, and while there is one nothing else is, and the
  sender waits for it (`Answered`, `Asking`). An answer that comes late, after its transfer was
  given up, meets a machine that is not `Engaged` with it. The last chunk is whole by
  `InStep`, and what the receiver completes it has saved under the manifest it accepted
  (`CompletionSaved`).
* `RowsAreFreed`: `OneSender => (Spec => []BusyRowIsBusy)`. The property is about connected
  ends whose machines have stopped and says that no row is left busy; the invariant `Rows` says
  it of the rest too: the row of the end that sends is busy only while that end is sending, that
  of the other only once a request was accepted, and then the machine receives. A row is set by a
  command or a frame and freed by frames and faults of the same machine, so each handler owes
  one lemma (`SenderRow`, `ReceiverRow`); that an accepted request of no file cannot leave a busy
  row behind rests on `AllTidy` and on requests having files (`RequestsHaveFiles`).
* `OnePartitionHolds`: `OneSender => (Spec => []OnePartitionInFlight)`. The invariant `Windows`
  says where the chunks are: those on their way to an end lie within `PartitionSize`
  consecutive places of its channel, which a cardinality bounds. The sender puts a partition
  only when it takes an answer, and by `TakeTurns` the answer is then the only frame anywhere
  (`AnswerArrives`), so a partition always starts on an empty channel; every other step
  adds frames that are no chunks, takes the first frame or loses the last ones
  (`WindowTail`, `WindowConcat`, `WindowCut`).
* `QuietEndsAgree`: `OneSender => (Spec => []QuietMeansAgreed)`. `TakeTurns` says what a frame
  means when it is on its way, not that there is one; that nobody is left waiting is the invariant
  `Agreement`, over the ends whose peer does not send, as long as the channel is up and nothing
  failed (the conditions of the property; neither comes back once lost). `Occupied`: the
  activity of the receiver is that of its incoming half, and no whole file stays staged. `Pursued`:
  what the sender waits for is on its way to it, or what will bring it about is on its way
  to the receiver, or a user is asked. `Expected`: what the receiver waits for is the file being
  sent, up to its last chunk on its way. So when nothing is on its way a file staged has all that was
  read of it and would have been completed (`QuietSender`). Each handler owes one lemma
  (`RcvChunkAgrees` and its like).

`Signaling_proofs` proves, for every limit of attempts and every bound:

* `TypeCorrect`, `GivesUpExactlyInTime`, `IdentityIsKept` and `DiallingStops`, which are
  `[]TypeOK`, `[]GivesUpInTime`, `[]OneIdentity` and `[]StopsDialling`. The inductive
  invariant is `TypeInv`: `TypeOK`; `Counted`, which says in each phase what the count owes to
  the network, also while a socket is lost and the task has not noticed;
  `Identified`, that the owner has seen the identity the task keeps and no other, and that
  the socket in use was dialled with it. `DialsLeft`, for the last, trades dials for
  messages: the dials begun and the place of the shutdown in the queue together never
  exceed what was ahead of it when it was asked for, and the one timer.

`Pairing_proofs` proves, for all devices and secrets and every bound on the environment:

* `TypeCorrect`: `Spec => []TypeOK`, inductive as it stands.
* `UnsavedReported`: `Spec => []UnsavedIsReported`. The property excuses an entry that could
  not be read or deleted; that no step takes the excuse back is `Counted`, the only addition.
* `Registered`: `Spec => []RegisteredWherePaired`. The property looks at devices with empty
  queues; its invariant, `RoomsOnTheirWay`, at all of them: a connected device is in each of
  its rooms, or on its way is the message that will put it there, the identity that will
  make it ask again, or the frame that will take the pairing away or replace it. Each of
  these hands over to the next.
* `ForgottenForGood`: `Spec => []ForgottenStaysForgotten`. A frame that is still on its way
  could bring a removed pairing back. `GivenOnce` says that none does: a secret the server
  keeps to itself has reached nobody, one on its way to a device is new there and on its way
  once, and what was removed is neither in memory nor in the keyring (`KeptByServer`,
  `IntroducedOnce`, `NowhereKept`).

`Engine_proofs` proves, for all devices, secrets and places and every bound (it assumes,
besides what `Engine` does, only that `None` is no peer):

* `TypeCorrect` and `NothingLeaks`: `[]TypeOK` and `[]NoSessionIsLeaked`, together one
  inductive invariant: a report counts for the current session whatever session made it, so
  that closing the right one depends on which peers are listed with which session.
* `OnlyRemovalEndsPrompting`: `[][UntrustedIsPrompted => UntrustedIsPrompted' \/ Removes]_vars`.
  `UntrustedIsPrompted` is not an invariant of the code: an unpairing leaves a connected peer
  accepted (see above). The theorem says that nothing else does.
* `UntrustedPrompted`: `KeepsPairings /\ Spec => []UntrustedIsPrompted`, where `KeepsPairings`
  says that nobody unpairs and no secret is rotated, as in `engine_rooms`. Its invariants are
  that only held pairings are trusted and that no message that removes one is on its way.
* `QuietConnects`: `Spec => []QuietMeansConnected` if `Settles` holds, nobody has or makes a
  pairing, and no dial or ICE attempt fails (`Unpaired`). Devices, their addresses and the
  number of drops are arbitrary; the property itself says nothing once a message has cut a wait
  short, which is never taken back (`HurriedStays`). It looks at devices between which
  nothing moves; the inductive invariant `Meetings` follows every pair through the rest until then:
  * `HomeOnly`: nothing but the room of its address concerns a device.
  * `Connection`: how far a connection is, from the frame that it waits to retry over its
    identity and the `JoinIpRoom` to the frames of the room; each is on its way at most once and
    in that order.
  * `Newcomer` and `Arrival`: a device that has not entered lists nobody, nobody who is
    connected lists it, and nothing of an earlier meeting is on its way; this is what
    the wait between two connections is for (`Settles`).
  * `Gone`: of two that do not meet each is off the other's list, or the frame that takes it
    off is on its way, with none behind it that would put it back.
  * `Setup`: of two that meet one calls and the other answers. Only their current sessions
    have something to report (`Silent`), each was built for its role and nothing ends it (`Alive`);
    each lists the other or is about to (`Told`), and an offer does not overtake the frame
    that announces who sent it; the offer, then the answer, is made, on its way or taken
    (`Offered`, `Answered`), for exactly these sessions, so that both channels open (`Agreed`).

  Two devices come to `Setup` when the second enters, and leave it when one drops. `Meetings`
  needs `NoSessionIsLeaked`: a session that can open or fail is then a current one. Each action
  owes one lemma (`JoinMeets`, `DropMeets` and their like); a pair whose queues and sessions it
  leaves the same, up to what is about others (`Alike`), keeps all of this (`PairSame`).

`CommandLine_proofs` proves, for all devices and rooms, whatever `--to` asks for, however
often each device comes and whatever the bounds (it assumes what `CommandLine` does; that
`None` is no peer is `NoneAssumption` there), all safety properties the run checks:

* `TypeCorrect`: `Spec => []TypeOK`.
* `FilesGoWhereWantedAlways` and `QuietMeansListedAlways`: `[]FilesGoWhereWanted` and
  `[]QuietMeansListed`, from one invariant in two layers. `Plain` holds whatever happens:
  the list has the newest session of a device, and what a session has reported fits its
  state (`Regular`). `Sound` holds as long as no two calls overlapped (`~late`) and follows
  one call with one device from the frame that begins it to the report that ends it:
  * a call begins only when nothing is left of an earlier one (`Offered`, `Free`), an answer
    comes once and to the call that waits for it (`Answered`, `Calling`, `Asked`);
  * while both are in a room there is one call, which nothing ends (`InTouch`, `Live`), and no
    channel opens outside of that (`Met`);
  * what ends a call is the last that is on its way about it (`Parted`), and of the
    sessions before the newest nothing but their end will come (`Past`): the reports name
    the device and not the session, so that these would be taken for the present call's;
  * `Counted` is the bound: once for each connection in which the stay was met, and once
    less while the files may still be sent in this one (`Due`); `Labelled` says that the list
    knows the name, or that the report of it is on its way.

  None of these is inductive without the others. Most steps are apart from a device
  (`ApartSound`) or end its call (`EndedSound`), the others have a lemma each. The property
  has to survive the return of main as well, where `Sound` says nothing: `HandleClosed` closes
  what is listed and sends nothing (`ClosedSends`).

`Application_proofs` proves, for all devices, addresses, folders and bounds (and `None` no
view, state or connection), all safety properties the runs check:

* `TypeCorrect`, and `RowsCaughtUp`: the last snapshot on its way to the window, or else the
  rows, show the peers (`RowsKnown`).
* `InForce`: the same of the last `Connect` on its way to the engine (`SettingsKnown`), that
  devices have the folder of the settings in force, and the file.
* `Answerable` and `AcceptedFirst`: the invariant `RequestsKnown` follows a request from
  the device to the answer. It is in one place at a time (`OnePlace`), as a report, an event,
  a dialog or a command; a device makes one at a time, nothing is answered before it was asked
  or otherwise than the user did (`Unanswered`, `AnswersSaid`), and an answer reaches the
  request it was given to unless dialogs overlapped (`OwnDialog`, `AskedAlone`). Most steps
  pass requests on or forget them (`Passes`); the others have a lemma each.
* `BannerTrue`: what the connection last said is in its inbox, or the last event on its way to
  the window is, or else the banner (`BannerKnown`); a queue of another connection counts for nothing.

`PairDropClient_proofs` proves, for every set of rooms and devices and every budget, all
safety properties of the module:

* `TypeCorrect`: `Spec => []TypeOK`, which also says that a client's socket is one it
  opened and that a client that is not the current one stays closed.
* `OneConnectionHolds`: `Spec => []OneConnection`. Neither is inductive alone: a fetch
  that returns opens a socket without looking whether there is one. The inductive
  invariant `Inv` adds `OneSocketEach`: a client that was replaced has no socket, and a
  client with a socket awaits no configuration for its present generation. Most steps
  open nothing (`Calm`, `CalmSteps`); those that matter are `OpenedInv`, `StartedInv`,
  `NoneOpen`, `HandleDropInv` and `NetworkChangedInv`.
* `ListedInThisSession` and `ListIsRight`: `[]PeersAreOfThisSession` and
  `[]ListedWhereShared`. The second looks at a client that has heard everything; the
  invariant `ListInv` reads what is still to be heard. `Heeded` says that the generation
  number tells sockets apart: one that passes for current is its client's, or is closed and
  has nothing to say. `ListsKnown` says what the frames of the open socket come to
  (`Told`): the last one about a device and a room agrees with the server, and where there
  is none the list does; of a room the socket is not in there is neither. `NewsPutLast` and
  `NewsTakenFirst` carry that over frames that are sent and handled. Both hold while the
  network stays the same, which `Within` makes a condition that is lost for good.

Model-checked only:

* Liveness under fairness, which is beyond the prover: `RequestConcludes`,
  `ReceivingConcludes`, `EventuallyRegistered`, `EventuallyConnected`, `EventuallyCaughtUp`,
  `Settles` and the liveness of `Signaling` and `CommandLine`.
* `QuietMeansConnected` of `Engine` for paired devices, with one drop (`engine_rooms`).

## Not modelled

The macOS application, packaging and the probe (no protocol of their own); JSON, URLs and
`cyrb53` (pure functions on text); the contents of TLS and the length of delays; of the GTK
application choosing and sending files, text, the pairing page and notifications; of
the command line the ways to run it named above. The Swift `PairDropPeer`, `RTCSession`
and `FileTransfer`, and the naming of files, are left in the plan: they repeat what
`Transfer` has, with hops between queues that need a module of their own.

## Plan

In order of what matters most to a user. Done:

1. `Transfer` with `Transfer_proofs`: what two machines do to each other's files.
2. `Pairing` with `Pairing_proofs`: who is paired, and where that is kept.
3. `Engine` with `Engine_proofs`: who is connected to whom and trusted.
4. `PairDropClient` with `PairDropClient_proofs`: the macOS client and its one connection.
5. `Signaling` with `Signaling_proofs`: the task that holds a connection.
6. `FileDelivery`, implemented by `Transfer`, proved in `Transfer_proofs`; `OneSender_proofs`.
7. `CommandLine` with `CommandLine_proofs`, and `Application` with `Application_proofs`: the
   two programs on top.

Left:

8. `PeerIO`: the Swift `PairDropPeer` with writes and completions on its I/O queue,
   cancelled batches and scheduled reconnects.
9. `FileNames`: `sanitize` and `unique_path` against reference definitions over bounded inputs.

Runs are kept few: a new module takes one or two, and where one shows what another
already does the two are merged. Most of the disagreements above that have no run of
their own were met as counterexamples to a property without its condition, the others
while translating the code.
