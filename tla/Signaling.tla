------------------------------ MODULE Signaling ------------------------------
(***************************************************************************)
(* The task behind a connection to the signaling server (crate             *)
(* pairdrop-net): it connects, hands messages over, waits and tries again  *)
(* until its owner has it stop or it gives up.  The owner keeps a handle,  *)
(* into which it puts commands, and a receiver of events.                  *)
(*                                                                         *)
(* The task waits in one place at a time: for the configuration and the    *)
(* socket it reads no command, on the socket it reads commands and frames, *)
(* between two attempts it reads one command, whatever it is.              *)
(***************************************************************************)
EXTENDS Naturals, Sequences, FiniteSets

CONSTANTS
  MaxAttempts,        \* config.max_attempts; 0 stands for None, which retries forever
  None,               \* no identity yet
  MaxSends,           \* messages the owner hands over
  MaxFrames,          \* frames the server sends besides the identity
  MaxFailures         \* connections that fail or are lost

ASSUME AttemptAssumption == MaxAttempts \in Nat
ASSUME BoundAssumption == MaxSends \in Nat /\ MaxFrames \in Nat /\ MaxFailures \in Nat
ASSUME NoneAssumption == None \notin Nat

VARIABLES
  phase,      \* where the task waits
  attempt,    \* failures since the last connection
  identity,   \* peer_id and peer_id_hash, kept across connections
  commands,   \* what the owner has handed over and the task has not read
  handle,     \* the owner has not dropped its handle
  listening,  \* the owner has not dropped its receiver
  told,       \* the last SignalingState the task reported
  seen,       \* the identities it reported
  link,       \* the socket and the frames of the server on it
  given,      \* how many identities the server gave
  streak,     \* network: dials failed and sockets lost since a socket was last opened
  asked,      \* since the owner asked for the end: what was queued, and the dials begun
  budget      \* what the environment may still do

task == <<phase, attempt, identity, told, seen>>
owner == <<handle, listening>>
vars == <<task, owner, commands, link, given, streak, asked, budget>>

-----------------------------------------------------------------------------

\* Fetching: GET /config.  Dialling: the WebSocket handshake.  Waiting: the wait
\* before it was first polled.  Sleeping: the timer runs.
Phase == {"Starting", "Fetching", "Dialling", "Session", "Waiting", "Sleeping", "Ended"}
State == {"None", "Connecting", "Connected", "WaitingToRetry", "Failed", "Closed"}
Frame == {"Ping", "DisplayName", "Other"}

Command == {"Send", "Shutdown"}

Identity == Nat \union {None}

Init ==
  /\ phase = "Starting"
  /\ attempt = 0
  /\ identity = None
  /\ commands = <<>>
  /\ handle = TRUE /\ listening = TRUE
  /\ told = "None"
  /\ seen = {}
  /\ link = [open |-> FALSE, down |-> <<>>, id |-> None]
  /\ given = 0
  /\ streak = 0
  /\ asked = [is |-> FALSE, ahead |-> 0, dials |-> 0]
  /\ budget = [sends |-> MaxSends, frames |-> MaxFrames, failures |-> MaxFailures]

-----------------------------------------------------------------------------
(* The owner.                                                              *)

\* SignalingHandle::send
HandOver ==
  /\ handle /\ budget.sends > 0
  /\ commands' = Append(commands, "Send")
  /\ budget' = [budget EXCEPT !.sends = @ - 1]
  /\ UNCHANGED <<task, owner, link, given, asked, streak>>

\* SignalingHandle::shutdown.  The command line keeps both ends, the engine takes the
\* handle; a new connection of the engine also replaces the receiver of the old one.
Leave ==
  /\ ~asked.is
  /\ commands' = Append(commands, "Shutdown")
  /\ asked' = [asked EXCEPT !.is = TRUE, !.ahead = Len(commands)]
  /\ \/ UNCHANGED owner
     \/ handle' = FALSE /\ listening' \in BOOLEAN
  /\ UNCHANGED <<task, link, given, budget, streak>>

-----------------------------------------------------------------------------
(* What steps of the task share.                                           *)

End(state) ==
  /\ phase' = "Ended"
  /\ told' = state

\* The top of the loop.
Begin ==
  /\ phase' = "Fetching"
  /\ told' = "Connecting"
  /\ asked' = [asked EXCEPT !.dials = IF asked.is THEN @ + 1 ELSE @]

GivesUp == MaxAttempts > 0 /\ attempt + 1 >= MaxAttempts

\* Outcome::Dropped
Dropped ==
  /\ attempt' = attempt + 1
  /\ \/ GivesUp /\ End("Failed")
     \/ ~GivesUp /\ phase' = "Waiting" /\ told' = "WaitingToRetry"
  /\ link' = [link EXCEPT !.open = FALSE, !.down = <<>>]

\* commands.recv() yields a message, or the end: Shutdown, or None without a handle.
HasMessage == commands # <<>> /\ Head(commands) = "Send"
HasEnd == IF commands = <<>> THEN ~handle ELSE Head(commands) = "Shutdown"
Read == commands' = IF commands = <<>> THEN <<>> ELSE Tail(commands)

Failure == budget.failures > 0 /\ budget' = [budget EXCEPT !.failures = @ - 1]

-----------------------------------------------------------------------------
(* Connecting.                                                             *)

\* http_client and ws_connector
Start ==
  /\ phase = "Starting"
  /\ \/ Begin
     \/ End("Failed") /\ UNCHANGED asked
  /\ UNCHANGED <<attempt, identity, seen, owner, commands, link, given, budget, streak>>

\* fetch_config: an instance that does not answer is no failure, but an address no URL
\* can be made of is the end.
Fetch ==
  /\ phase = "Fetching"
  /\ \/ phase' = "Dialling" /\ UNCHANGED told
     \/ End("Failed")
  /\ UNCHANGED <<attempt, identity, seen, owner, commands, link, given, asked, budget, streak>>

ConnectFails ==
  /\ phase = "Dialling"
  /\ Failure /\ streak' = streak + 1
  /\ Dropped
  /\ UNCHANGED <<identity, seen, owner, commands, given, asked>>

\* Mutant of Connects: the failures before are not forgotten.
ConnectsCounting ==
  /\ phase = "Dialling"
  /\ phase' = "Session" /\ told' = "Connected"
  /\ UNCHANGED attempt /\ streak' = 0
  /\ link' = [open |-> TRUE, down |-> <<"DisplayName">>,
              id |-> IF identity = None THEN given + 1 ELSE identity]
  /\ given' = IF identity = None THEN given + 1 ELSE given
  /\ UNCHANGED <<identity, seen, owner, commands, asked, budget>>

\* The URL carries the identity there is, and the server hands it back, or a new one.
Connects ==
  /\ phase = "Dialling"
  /\ phase' = "Session" /\ told' = "Connected"
  /\ attempt' = 0 /\ streak' = 0
  /\ link' = [open |-> TRUE, down |-> <<"DisplayName">>,
              id |-> IF identity = None THEN given + 1 ELSE identity]
  /\ given' = IF identity = None THEN given + 1 ELSE given
  /\ UNCHANGED <<identity, seen, owner, commands, asked, budget>>

-----------------------------------------------------------------------------
(* On the socket.                                                          *)

\* A message goes out.  On a lost socket it may be buffered all the same, and is lost.
SendMessage ==
  /\ phase = "Session" /\ HasMessage
  /\ Read
  /\ \/ UNCHANGED <<phase, attempt, told, link>>
     \/ ~link.open /\ Dropped
  /\ UNCHANGED <<identity, seen, owner, given, asked, budget, streak>>

\* The end was asked for: the server is told, and the socket closed.
Disconnect ==
  /\ phase = "Session" /\ HasEnd
  /\ Read
  /\ link' = [link EXCEPT !.open = FALSE, !.down = <<>>]
  /\ End("Closed")
  /\ UNCHANGED <<attempt, identity, seen, owner, given, asked, budget, streak>>

FrameIs(frame) == phase = "Session" /\ link.down # <<>> /\ Head(link.down) = frame

\* A ping is answered inline.
AnswerPing ==
  /\ FrameIs("Ping")
  /\ \/ link' = [link EXCEPT !.down = Tail(@)] /\ UNCHANGED <<phase, attempt, told>>
     \/ ~link.open /\ Dropped
  /\ UNCHANGED <<identity, seen, owner, commands, given, asked, budget, streak>>

\* The message is an event; without anybody to read it the socket is closed.
Forward ==
  \/ /\ listening
     /\ link' = [link EXCEPT !.down = Tail(@)]
     /\ UNCHANGED <<phase, told>>
  \/ /\ ~listening
     /\ link' = [link EXCEPT !.open = FALSE, !.down = <<>>]
     /\ End("Closed")

\* Mutant of ReadIdentity: it is reported but not kept.
ReadIdentityOnce ==
  /\ FrameIs("DisplayName")
  /\ seen' = seen \union {link.id}
  /\ Forward
  /\ UNCHANGED <<attempt, identity, owner, commands, given, asked, budget, streak>>

ReadIdentity ==
  /\ FrameIs("DisplayName")
  /\ identity' = link.id
  /\ seen' = seen \union {link.id}
  /\ Forward
  /\ UNCHANGED <<attempt, owner, commands, given, asked, budget, streak>>

ReadMessage ==
  /\ FrameIs("Other")
  /\ Forward
  /\ UNCHANGED <<attempt, identity, seen, owner, commands, given, asked, budget, streak>>

\* The stream ends after the frames that arrived.
SocketEnds ==
  /\ phase = "Session" /\ ~link.open /\ link.down = <<>>
  /\ Dropped
  /\ UNCHANGED <<identity, seen, owner, commands, given, asked, budget, streak>>

-----------------------------------------------------------------------------
(* Between two attempts.                                                   *)

\* A command that is already there wins over a timer that was just set.
Sleep ==
  /\ phase = "Waiting" /\ ~HasMessage /\ ~HasEnd
  /\ phase' = "Sleeping"
  /\ UNCHANGED <<attempt, identity, told, seen, owner, commands, link, given, asked, budget,
                 streak>>

\* Mutant of Wake: the message that ends the wait is kept.
WakeKeeping ==
  /\ \/ phase = "Sleeping" /\ UNCHANGED commands
     \/ phase \in {"Waiting", "Sleeping"} /\ HasMessage /\ UNCHANGED commands
  /\ Begin
  /\ UNCHANGED <<attempt, identity, seen, owner, link, given, budget, streak>>

\* Mutants of Wake: any command ends the wait and is thrown away, and only a command does.
WakeByAnything ==
  /\ \/ phase = "Sleeping" /\ UNCHANGED commands
     \/ phase \in {"Waiting", "Sleeping"} /\ commands # <<>> /\ Read
  /\ Begin
  /\ UNCHANGED <<attempt, identity, seen, owner, link, given, budget, streak>>
WakeByMessage ==
  /\ phase \in {"Waiting", "Sleeping"} /\ HasMessage /\ Read
  /\ Begin
  /\ UNCHANGED <<attempt, identity, seen, owner, link, given, budget, streak>>

\* The timer fires, or a message ends the wait and is thrown away.
Wake ==
  /\ \/ phase = "Sleeping" /\ UNCHANGED commands
     \/ phase \in {"Waiting", "Sleeping"} /\ HasMessage /\ Read
  /\ Begin
  /\ UNCHANGED <<attempt, identity, seen, owner, link, given, budget, streak>>

StopWaiting ==
  /\ phase \in {"Waiting", "Sleeping"} /\ HasEnd
  /\ Read
  /\ End("Closed")
  /\ UNCHANGED <<attempt, identity, seen, owner, link, given, asked, budget, streak>>

-----------------------------------------------------------------------------
(* The server and the network.                                             *)

ServerSends ==
  /\ link.open /\ budget.frames > 0
  /\ \E frame \in {"Ping", "Other"} : link' = [link EXCEPT !.down = Append(@, frame)]
  /\ budget' = [budget EXCEPT !.frames = @ - 1]
  /\ UNCHANGED <<task, owner, commands, given, asked, streak>>

\* The socket is lost or closed by the server, with what had not arrived.
LinkLost ==
  /\ link.open /\ Failure /\ streak' = streak + 1
  /\ \E n \in 0..Len(link.down) :
       link' = [link EXCEPT !.open = FALSE, !.down = SubSeq(@, 1, n)]
  /\ UNCHANGED <<task, owner, commands, given, asked>>

-----------------------------------------------------------------------------

Session == SendMessage \/ Disconnect \/ AnswerPing \/ ReadIdentity \/ ReadMessage \/ SocketEnds

Run ==
  \/ Start \/ Fetch \/ ConnectFails \/ Connects
  \/ Session
  \/ Sleep \/ Wake \/ StopWaiting

Next == Run \/ HandOver \/ Leave \/ ServerSends \/ LinkLost

Spec == Init /\ [][Next]_vars

\* The task is polled as long as something is ready: the configuration has a timeout, timers
\* fire and lost sockets are noticed.  The handshake has no timeout, and need not end.
Polled == Start \/ Fetch \/ Session \/ Sleep \/ Wake \/ StopWaiting

FairSpec == Spec /\ WF_vars(Polled)

-----------------------------------------------------------------------------

TypeOK ==
  /\ phase \in Phase
  /\ attempt \in Nat /\ (MaxAttempts > 0 => attempt <= MaxAttempts)
  /\ identity \in Identity
  /\ commands \in Seq(Command)
  /\ handle \in BOOLEAN /\ listening \in BOOLEAN
  /\ told \in State
  /\ seen \subseteq Nat
  /\ link \in [open : BOOLEAN, down : Seq(Frame), id : Identity]
  /\ given \in Nat
  /\ streak \in Nat
  /\ asked \in [is : BOOLEAN, ahead : Nat, dials : Nat]
  /\ budget \in [sends : 0..MaxSends, frames : 0..MaxFrames, failures : 0..MaxFailures]

\* "Kept across reconnects so the server hands back the same identity and peers see one
\* device": the owner learns one identity in the life of a connection.
OneIdentity == Cardinality(seen) <= 1

\* "Stop after this many consecutive failures": between two sockets the task counts
\* exactly the dials that failed since the last one and its loss, and with a limit it
\* never tries again once they are as many.
GivesUpInTime ==
  phase \in {"Fetching", "Dialling", "Waiting", "Sleeping"} =>
    attempt = streak /\ (MaxAttempts > 0 => streak < MaxAttempts)

\* Once the end is asked for, at most one more attempt is begun for each message queued
\* ahead of the request, which the wait swallows, and one for a timer that fires first.
StopsDialling == asked.dials <= asked.ahead + 1

\* A server that accepts the connection and then says nothing: no command is read meanwhile.
HandshakeHangs == <>[](phase = "Dialling")

\* Who asks for the end gets it, wherever the task waits and whatever is queued, unless a
\* handshake never ends, for which the code has no timeout.
EndsWhenAsked == (asked.is ~> phase = "Ended") \/ HandshakeHangs

\* Whatever is lost and whatever is handed over meanwhile, the task is back on a socket
\* again and again, unless it ended or a handshake never does.
KeepsConnecting == []<>(phase \in {"Session", "Ended"}) \/ HandshakeHangs
=============================================================================
