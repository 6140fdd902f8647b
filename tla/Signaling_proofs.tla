-------------------------- MODULE Signaling_proofs --------------------------
(***************************************************************************)
(* Proofs about Signaling, for every limit on the attempts and every bound *)
(* on the environment.                                                     *)
(***************************************************************************)
EXTENDS Signaling, FiniteSetTheorems, TLAPS

\* What attempt and streak are in each phase: on a socket nothing has failed yet, or only
\* that socket was lost.
Counted ==
  /\ phase = "Starting" => attempt = 0 /\ streak = 0
  /\ phase = "Session" => attempt = 0 /\ streak = IF link.open THEN 0 ELSE 1
  /\ phase # "Session" => ~link.open
  /\ GivesUpInTime

\* The owner has seen the identity the task keeps, and no other.
Identified ==
  /\ phase = "Session" => link.id \in Nat /\ identity \in {None, link.id}
  /\ seen = IF identity = None THEN {} ELSE {identity}

TypeInv == TypeOK /\ Counted /\ Identified

-----------------------------------------------------------------------------
(* Type correctness and the count of failures.                             *)

LEMMA ConstantTypes ==
  /\ MaxAttempts \in Nat /\ MaxSends \in Nat /\ MaxFrames \in Nat /\ MaxFailures \in Nat
  /\ None \notin Nat
BY AttemptAssumption, BoundAssumption, NoneAssumption

LEMMA InitTypeInv == Init => TypeInv
BY ConstantTypes DEF Init, TypeInv, TypeOK, Counted, Identified, GivesUpInTime, Phase, State,
   Frame, Command, Identity

LEMMA ReadType ==
  ASSUME TypeOK, Read
  PROVE  commands' \in Seq(Command)
BY DEF TypeOK, Read

LEMMA DownType ==
  ASSUME TypeOK
  PROVE  /\ link.down # <<>> => Tail(link.down) \in Seq(Frame)
         /\ \A n \in 0..Len(link.down) : SubSeq(link.down, 1, n) \in Seq(Frame)
         /\ \A frame \in Frame : Append(link.down, frame) \in Seq(Frame)
         /\ link.id \in Identity /\ link.open \in BOOLEAN
BY DEF TypeOK

LEMMA FailureType ==
  ASSUME TypeOK, Failure
  PROVE  budget' \in [sends : 0..MaxSends, frames : 0..MaxFrames, failures : 0..MaxFailures]
<1> DEFINE left == budget.failures - 1
<1>1. left \in 0..MaxFailures
  BY ConstantTypes DEF TypeOK, Failure
<1>2. budget' = [budget EXCEPT !.failures = left]
  BY DEF Failure
<1> HIDE DEF left
<1> QED
  BY <1>1, <1>2 DEF TypeOK

\* The frames on the socket go with it.
LEMMA ClosedLinkType ==
  ASSUME TypeOK, link' = [link EXCEPT !.open = FALSE, !.down = <<>>]
  PROVE  /\ link' \in [open : BOOLEAN, down : Seq(Frame), id : Identity]
         /\ link'.open = FALSE /\ link'.id = link.id
<1> DEFINE down == <<>>
<1>1. down \in Seq(Frame) /\ link' = [link EXCEPT !.open = FALSE, !.down = down]
  OBVIOUS
<1> HIDE DEF down
<1> QED
  BY <1>1 DEF TypeOK

\* Whoever calls Dropped has failed once more than attempt says.
LEMMA DroppedType ==
  ASSUME TypeInv, Dropped, phase \in {"Dialling", "Session"}, streak' = attempt + 1,
         UNCHANGED <<identity, seen>>
  PROVE  /\ Counted' /\ Identified'
         /\ phase' \in Phase /\ told' \in State
         /\ attempt' \in Nat /\ (MaxAttempts > 0 => attempt' <= MaxAttempts)
         /\ link' \in [open : BOOLEAN, down : Seq(Frame), id : Identity]
<1>1. /\ attempt \in Nat /\ attempt' = attempt + 1
      /\ MaxAttempts > 0 => attempt < MaxAttempts
  BY ConstantTypes DEF TypeInv, TypeOK, Counted, GivesUpInTime, Dropped
<1>2. \/ GivesUp /\ phase' = "Ended" /\ told' = "Failed"
      \/ ~GivesUp /\ phase' = "Waiting" /\ told' = "WaitingToRetry"
  BY DEF Dropped, End
<1>3. /\ link' \in [open : BOOLEAN, down : Seq(Frame), id : Identity]
      /\ link'.open = FALSE
  BY ClosedLinkType DEF Dropped, TypeInv
<1>4. Counted'
  BY <1>1, <1>2, <1>3, ConstantTypes DEF Counted, GivesUpInTime, GivesUp
<1>5. Identified'
  BY <1>2 DEF Identified, TypeInv
<1> QED
  BY <1>1, <1>2, <1>3, <1>4, <1>5, ConstantTypes DEF Phase, State

LEMMA ConnectingType ==
  ASSUME TypeInv, Start \/ Fetch \/ ConnectFails \/ Connects
  PROVE  TypeInv'
<1>1. CASE Start
  BY <1>1, ConstantTypes, SMTT(20) DEF Start, Begin, End, TypeInv, TypeOK, Counted, Identified,
     GivesUpInTime, owner, Phase, State
<1>2. CASE Fetch
  BY <1>2 DEF Fetch, End, TypeInv, TypeOK, Counted, Identified, GivesUpInTime, owner, Phase,
     State
<1>3. CASE ConnectFails
  <2>1. /\ phase = "Dialling" /\ streak' = attempt + 1 /\ Dropped /\ Failure
        /\ UNCHANGED <<identity, seen, handle, listening, commands, given, asked>>
    BY <1>3 DEF ConnectFails, TypeInv, Counted, GivesUpInTime, owner
  <2>2. /\ Counted' /\ Identified'
        /\ phase' \in Phase /\ told' \in State
        /\ attempt' \in Nat /\ (MaxAttempts > 0 => attempt' <= MaxAttempts)
        /\ link' \in [open : BOOLEAN, down : Seq(Frame), id : Identity]
    BY <2>1, DroppedType
  <2>3. /\ budget' \in [sends : 0..MaxSends, frames : 0..MaxFrames, failures : 0..MaxFailures]
        /\ streak' \in Nat
    BY <2>1, FailureType DEF TypeInv, TypeOK
  <2> QED
    BY <2>1, <2>2, <2>3 DEF TypeInv, TypeOK
<1>4. CASE Connects
  <2> DEFINE id == IF identity = None THEN given + 1 ELSE identity
             down == <<"DisplayName">>
  <2>1. /\ id \in Identity /\ id \in Nat /\ identity \in {None, id}
        /\ down \in Seq(Frame) /\ given' \in Nat
    BY <1>4 DEF Connects, TypeInv, TypeOK, Identity, Frame
  <2>2. link' = [open |-> TRUE, down |-> down, id |-> id]
    BY <1>4 DEF Connects
  <2> HIDE DEF id, down
  <2>3. /\ link' \in [open : BOOLEAN, down : Seq(Frame), id : Identity]
        /\ link'.open = TRUE /\ link'.id = id
    BY <2>1, <2>2
  <2> QED
    BY <1>4, <2>1, <2>3, ConstantTypes
    DEF Connects, TypeInv, TypeOK, Counted, Identified, GivesUpInTime, owner, Phase, State
<1> QED
  BY <1>1, <1>2, <1>3, <1>4

\* On the socket a step goes on, ends the task, or finds the socket lost.
LEMMA SessionType ==
  ASSUME TypeInv, Session
  PROVE  TypeInv'
<1> USE DEF Session, SendMessage, Disconnect, AnswerPing, ReadIdentity, ReadMessage, SocketEnds,
            FrameIs
<1>1. /\ phase = "Session" /\ attempt = 0 /\ streak = (IF link.open THEN 0 ELSE 1)
      /\ link.id \in Nat /\ identity \in {None, link.id}
      /\ seen = IF identity = None THEN {} ELSE {identity}
  BY DEF TypeInv, Counted, Identified
<1>2. /\ UNCHANGED <<handle, listening, given, asked, budget, streak>>
      /\ commands' \in Seq(Command)
  BY ReadType DEF TypeInv, TypeOK, owner
<1>3. \/ UNCHANGED <<identity, seen>>
      \/ identity' = link.id /\ seen' = {link.id} /\ ~Dropped
  BY <1>1, ConstantTypes DEF Forward, Dropped, End
<1>4. /\ identity' \in {None, link.id} /\ identity' \in Identity
      /\ seen' = (IF identity' = None THEN {} ELSE {identity'}) /\ seen' \subseteq Nat
  BY <1>1, <1>3, ConstantTypes DEF Identity
<1>5. \/ ~link.open /\ UNCHANGED <<identity, seen>> /\ Dropped
      \/ /\ phase' = "Session" /\ UNCHANGED <<attempt, told>>
         /\ link' = link \/ (link.down # <<>> /\ link' = [link EXCEPT !.down = Tail(@)])
      \/ /\ End("Closed") /\ UNCHANGED attempt
         /\ link' = [link EXCEPT !.open = FALSE, !.down = <<>>]
  <2>1. CASE SendMessage
    <3>1. \/ UNCHANGED <<phase, attempt, told, link>>
          \/ ~link.open /\ Dropped /\ UNCHANGED <<identity, seen>>
      BY <2>1, Zenon
    <3> QED
      BY <1>1, <3>1
  <2>2. CASE Disconnect
    BY <2>2, Zenon
  <2>3. CASE AnswerPing
    BY <1>1, <2>3, Zenon
  <2>4. CASE ReadIdentity \/ ReadMessage
    BY <1>1, <2>4, Zenon DEF Forward
  <2>5. CASE SocketEnds
    BY <2>5, Zenon
  <2> QED
    BY <2>1, <2>2, <2>3, <2>4, <2>5
<1> USE ConstantTypes
<1>6. CASE ~link.open /\ UNCHANGED <<identity, seen>> /\ Dropped
  BY <1>1, <1>2, <1>4, <1>6, DroppedType DEF TypeInv, TypeOK
<1>7. CASE /\ phase' = "Session" /\ UNCHANGED <<attempt, told>>
           /\ link' = link \/ (link.down # <<>> /\ link' = [link EXCEPT !.down = Tail(@)])
  <2>1. /\ link' \in [open : BOOLEAN, down : Seq(Frame), id : Identity]
        /\ link'.id = link.id /\ link'.open = link.open
    BY <1>7, DownType DEF TypeInv, TypeOK
  <2> QED
    BY <1>1, <1>2, <1>4, <1>7, <2>1 DEF TypeInv, TypeOK, Counted, Identified, GivesUpInTime
<1>8. CASE /\ End("Closed") /\ UNCHANGED attempt
           /\ link' = [link EXCEPT !.open = FALSE, !.down = <<>>]
  BY <1>1, <1>2, <1>4, <1>8, ClosedLinkType
  DEF End, TypeInv, TypeOK, Counted, Identified, GivesUpInTime, Phase, State
<1> QED
  BY <1>5, <1>6, <1>7, <1>8

LEMMA WaitingType ==
  ASSUME TypeInv, Sleep \/ Wake \/ StopWaiting
  PROVE  TypeInv'
<1>1. commands' \in Seq(Command)
  BY ReadType DEF Sleep, Wake, StopWaiting, TypeInv, TypeOK
<1>2. asked' \in [is : BOOLEAN, ahead : Nat, dials : Nat]
  <2> DEFINE dials == IF asked.is THEN asked.dials + 1 ELSE asked.dials
  <2>1. dials \in Nat /\ (asked' = asked \/ asked' = [asked EXCEPT !.dials = dials])
    BY DEF Sleep, Wake, StopWaiting, Begin, TypeInv, TypeOK
  <2> HIDE DEF dials
  <2> QED
    BY <2>1 DEF TypeInv, TypeOK
<1> QED
  BY <1>1, <1>2 DEF Sleep, Wake, StopWaiting, Begin, End, TypeInv, TypeOK, Counted, Identified,
     GivesUpInTime, owner, Phase, State

LEMMA WorldType ==
  ASSUME TypeInv, HandOver \/ Leave \/ ServerSends \/ LinkLost
  PROVE  TypeInv'
<1>1. CASE HandOver
  <2> DEFINE left == budget.sends - 1
  <2>1. left \in 0..MaxSends /\ budget' = [budget EXCEPT !.sends = left]
    BY <1>1, ConstantTypes DEF HandOver, TypeInv, TypeOK
  <2> HIDE DEF left
  <2>2. commands' \in Seq(Command)
    BY <1>1 DEF HandOver, TypeInv, TypeOK, Command
  <2> QED
    BY <1>1, <2>1, <2>2 DEF HandOver, TypeInv, TypeOK, Counted, Identified, GivesUpInTime, task,
       owner
<1>2. CASE Leave
  <2>1. commands' \in Seq(Command) /\ Len(commands) \in Nat
    BY <1>2 DEF Leave, TypeInv, TypeOK, Command
  <2>2. asked' \in [is : BOOLEAN, ahead : Nat, dials : Nat]
    BY <1>2, <2>1 DEF Leave, TypeInv, TypeOK
  <2>3. handle' \in BOOLEAN /\ listening' \in BOOLEAN
    BY <1>2 DEF Leave, owner, TypeInv, TypeOK
  <2> QED
    BY <1>2, <2>1, <2>2, <2>3 DEF Leave, TypeInv, TypeOK, Counted, Identified, GivesUpInTime,
       task
<1>3. CASE ServerSends
  <2> DEFINE left == budget.frames - 1
  <2>1. left \in 0..MaxFrames /\ budget' = [budget EXCEPT !.frames = left]
    BY <1>3, ConstantTypes, SMTT(20) DEF ServerSends, TypeInv, TypeOK
  <2> HIDE DEF left
  <2>2. PICK down \in Seq(Frame) : link' = [link EXCEPT !.down = down]
    BY <1>3, DownType DEF ServerSends, TypeInv, Frame
  <2>3. /\ link' \in [open : BOOLEAN, down : Seq(Frame), id : Identity]
        /\ link'.open = link.open /\ link'.id = link.id
    BY <2>2 DEF TypeInv, TypeOK
  <2> QED
    BY <1>3, <2>1, <2>3 DEF ServerSends, TypeInv, TypeOK, Counted, Identified, GivesUpInTime,
       task, owner
<1>4. CASE LinkLost
  <2>1. PICK down \in Seq(Frame) : link' = [link EXCEPT !.open = FALSE, !.down = down]
    BY <1>4, DownType DEF LinkLost, TypeInv
  <2>2. /\ link' \in [open : BOOLEAN, down : Seq(Frame), id : Identity]
        /\ link'.open = FALSE /\ link'.id = link.id
    BY <2>1 DEF TypeInv, TypeOK
  <2>3. phase = "Session" /\ streak = 0 /\ streak' = streak + 1
    BY <1>4 DEF LinkLost, TypeInv, Counted
  <2>4. budget' \in [sends : 0..MaxSends, frames : 0..MaxFrames, failures : 0..MaxFailures]
    BY <1>4, FailureType DEF LinkLost, TypeInv
  <2>5. UNCHANGED <<task, owner, commands, given, asked>>
    BY <1>4 DEF LinkLost
  <2> QED
    BY <2>2, <2>3, <2>4, <2>5 DEF TypeInv, TypeOK, Counted, Identified, GivesUpInTime, task,
       owner
<1> QED
  BY <1>1, <1>2, <1>3, <1>4

LEMMA StepTypeInv == TypeInv /\ [Next]_vars => TypeInv'
<1> SUFFICES ASSUME TypeInv, [Next]_vars PROVE TypeInv'
  OBVIOUS
<1>1. CASE UNCHANGED vars
  BY <1>1 DEF vars, task, owner, TypeInv, TypeOK, Counted, Identified, GivesUpInTime
<1> QED
  BY <1>1, ConnectingType, SessionType, WaitingType, WorldType DEF Next, Run

\* Every variable keeps its type; with a limit, attempt never passes it.
THEOREM TypeCorrect == Spec => []TypeOK
<1>1. TypeInv => TypeOK
  BY DEF TypeInv
<1> QED
  BY <1>1, InitTypeInv, StepTypeInv, PTL DEF Spec

\* Between two sockets the task counts exactly the failures since the last one, and does
\* not go on once they are as many as the limit.
THEOREM GivesUpExactlyInTime == Spec => []GivesUpInTime
<1>1. TypeInv => GivesUpInTime
  BY DEF TypeInv, Counted
<1> QED
  BY <1>1, InitTypeInv, StepTypeInv, PTL DEF Spec

\* However often the socket is lost and made again, the owner learns one identity.
THEOREM IdentityIsKept == Spec => []OneIdentity
<1>1. TypeInv => OneIdentity
  <2>1. Cardinality({}) = 0 /\ Cardinality({identity}) = 1
    BY FS_Singleton, FS_EmptySet, Zenon
  <2> QED
    BY <2>1 DEF TypeInv, Identified, OneIdentity
<1> QED
  BY <1>1, InitTypeInv, StepTypeInv, PTL DEF Spec

-----------------------------------------------------------------------------
(* Dialling after the end was asked for.                                   *)

\* The request stands at k in the queue, behind messages only.
RequestAt(k) ==
  /\ k \in DOMAIN commands /\ commands[k] = "Shutdown"
  /\ \A i \in 1..(k - 1) : commands[i] = "Send"

\* The dials to come: one for each message ahead, and one that no message pays for, which
\* is spent once the timer fires or the task starts.
DialsLeft ==
  /\ asked.dials <= asked.ahead + 1
  /\ ~asked.is => handle = TRUE /\ asked.dials = 0
                  /\ \A i \in DOMAIN commands : commands[i] = "Send"
  /\ asked.is /\ phase # "Ended" =>
       \E k \in DOMAIN commands :
         /\ RequestAt(k)
         /\ asked.dials + k <= asked.ahead + (IF phase \in {"Starting", "Sleeping"} THEN 1 ELSE 2)

\* A message that is read brings the request nearer.
LEMMA ReadBringsNearer ==
  ASSUME TypeOK, HasMessage, Read, NEW k \in DOMAIN commands, RequestAt(k)
  PROVE  k - 1 \in DOMAIN commands' /\ RequestAt(k - 1)' /\ k - 1 >= 1
<1>1. /\ commands \in Seq(Command) /\ commands # <<>> /\ commands[1] = "Send"
      /\ commands' = Tail(commands)
  BY DEF TypeOK, HasMessage, Read
<1>2. k \in 1..Len(commands) /\ k # 1 /\ DOMAIN commands' = 1..(Len(commands) - 1)
  BY <1>1 DEF RequestAt
<1>3. \A i \in 1..(Len(commands) - 1) : commands'[i] = commands[i + 1]
  BY <1>1
<1> QED
  BY <1>2, <1>3 DEF RequestAt

\* As long as the end was not asked for, only messages are in the queue.
LEMMA ReadLeavesMessages ==
  ASSUME TypeOK, Read, \A i \in DOMAIN commands : commands[i] = "Send"
  PROVE  \A i \in DOMAIN commands' : commands'[i] = "Send"
<1>1. CASE commands = <<>>
  BY <1>1 DEF Read
<1>2. CASE commands # <<>>
  <2>1. commands \in Seq(Command) /\ commands' = Tail(commands)
    BY <1>2 DEF TypeOK, Read
  <2> QED
    BY <1>2, <2>1
<1> QED
  BY <1>1, <1>2

\* Without a request, and once there is one, neither the end of the queue nor an empty
\* queue is read by a task that goes on.
LEMMA RequestIsThere ==
  ASSUME TypeOK, DialsLeft, asked.is, phase # "Ended"
  PROVE  HasMessage \/ HasEnd
BY DEF TypeOK, DialsLeft, HasMessage, HasEnd, Command

\* A step of the task that neither dials nor begins to wait.
LEMMA QuietDialsLeft ==
  ASSUME TypeInv, DialsLeft, UNCHANGED <<asked, handle>>,
         phase' \in {"Starting", "Sleeping"} => phase' = phase,
         phase = "Ended" => phase' = "Ended",
         \/ UNCHANGED commands
         \/ Read /\ (HasMessage \/ phase' = "Ended")
  PROVE  DialsLeft'
<1> USE DEF TypeInv
<1>1. ~asked.is => \A i \in DOMAIN commands' : commands'[i] = "Send"
  BY ReadLeavesMessages DEF DialsLeft
<1>2. ASSUME asked.is, phase' # "Ended"
      PROVE  \E k \in DOMAIN commands' :
               /\ RequestAt(k)'
               /\ asked.dials + k <=
                    asked.ahead + (IF phase' \in {"Starting", "Sleeping"} THEN 1 ELSE 2)
  <2>1. PICK k \in DOMAIN commands :
          /\ RequestAt(k)
          /\ asked.dials + k <=
               asked.ahead + (IF phase \in {"Starting", "Sleeping"} THEN 1 ELSE 2)
    BY <1>2 DEF DialsLeft
  <2>2. asked.dials \in Nat /\ asked.ahead \in Nat /\ k \in Nat
    BY DEF TypeOK
  <2>3. CASE UNCHANGED commands
    BY <2>1, <2>2, <2>3 DEF RequestAt
  <2>4. CASE Read /\ HasMessage
    <3>1. k - 1 \in DOMAIN commands' /\ RequestAt(k - 1)'
      BY <2>1, <2>4, ReadBringsNearer
    <3> QED
      BY <2>1, <2>2, <3>1
  <2> QED
    BY <1>2, <2>3, <2>4
<1> QED
  BY <1>1, <1>2 DEF DialsLeft

\* A dial is paid for by the message that is read, or by the one that is free.
LEMMA BeginDialsLeft ==
  ASSUME TypeInv, DialsLeft, Begin, UNCHANGED handle,
         \/ phase \in {"Starting", "Sleeping"} /\ UNCHANGED commands
         \/ phase \in {"Waiting", "Sleeping"} /\ HasMessage /\ Read
  PROVE  DialsLeft'
<1> USE DEF TypeInv
<1> DEFINE dials == IF asked.is THEN asked.dials + 1 ELSE asked.dials
<1>1. /\ asked' = [asked EXCEPT !.dials = dials] /\ phase' = "Fetching"
      /\ asked.dials \in Nat /\ asked.ahead \in Nat /\ asked.is \in BOOLEAN
  BY DEF Begin, TypeOK
<1>2. dials \in Nat /\ (asked.is => dials = asked.dials + 1) /\ (~asked.is => dials = asked.dials)
  BY <1>1
<1> HIDE DEF dials
<1>3. asked'.dials = dials /\ asked'.ahead = asked.ahead /\ asked'.is = asked.is
  BY <1>1 DEF TypeOK
<1>4. CASE ~asked.is
  <2>1. \A i \in DOMAIN commands' : commands'[i] = "Send"
    BY <1>4, ReadLeavesMessages DEF DialsLeft
  <2> QED
    BY <1>1, <1>2, <1>3, <1>4, <2>1 DEF DialsLeft
<1>5. CASE asked.is
  <2>1. PICK k \in DOMAIN commands :
          /\ RequestAt(k)
          /\ asked.dials + k <=
               asked.ahead + (IF phase \in {"Starting", "Sleeping"} THEN 1 ELSE 2)
    BY <1>5 DEF DialsLeft
  <2>2. k \in Nat /\ k >= 1
    BY DEF TypeOK
  <2>3. CASE phase \in {"Starting", "Sleeping"} /\ UNCHANGED commands
    <3>1. k \in DOMAIN commands' /\ RequestAt(k)' /\ dials + k <= asked.ahead + 2
      BY <1>1, <1>2, <1>5, <2>1, <2>2, <2>3 DEF RequestAt
    <3> QED
      BY <1>1, <1>2, <1>3, <1>5, <2>2, <3>1 DEF DialsLeft
  <2>4. CASE HasMessage /\ Read
    <3>1. k - 1 \in DOMAIN commands' /\ RequestAt(k - 1)' /\ k - 1 >= 1
      BY <2>1, <2>4, ReadBringsNearer
    <3>2. dials + (k - 1) <= asked.ahead + 2 /\ k - 1 >= 1
      BY <1>1, <1>2, <1>5, <2>1, <2>2, <3>1
    <3> QED
      BY <1>1, <1>2, <1>3, <1>5, <2>2, <3>1, <3>2 DEF DialsLeft
  <2> QED
    BY <2>3, <2>4
<1> QED
  BY <1>4, <1>5

\* What is appended comes behind the request.
LEMMA AppendDialsLeft ==
  ASSUME TypeInv, DialsLeft, HandOver \/ Leave
  PROVE  DialsLeft'
<1> USE DEF TypeInv
<1>1. /\ commands \in Seq(Command) /\ Len(commands) \in Nat
      /\ asked.dials \in Nat /\ asked.ahead \in Nat /\ asked.is \in BOOLEAN
      /\ UNCHANGED phase
  BY DEF TypeOK, HandOver, Leave, task
<1>2. CASE HandOver
  <2>1. commands' = Append(commands, "Send") /\ UNCHANGED <<asked, handle>>
    BY <1>2 DEF HandOver, owner
  <2>2. ~asked.is => \A i \in DOMAIN commands' : commands'[i] = "Send"
    BY <1>1, <2>1 DEF DialsLeft, Command
  <2>3. \A k \in DOMAIN commands : RequestAt(k) => k \in DOMAIN commands' /\ RequestAt(k)'
    BY <1>1, <2>1 DEF RequestAt, Command
  <2> QED
    BY <1>1, <2>1, <2>2, <2>3 DEF DialsLeft
<1>3. CASE Leave
  <2> PICK n \in Nat : n = Len(commands)
    BY <1>1
  <2>1. /\ commands' = Append(commands, "Shutdown")
        /\ asked' = [asked EXCEPT !.is = TRUE, !.ahead = n]
        /\ asked.dials = 0 /\ \A i \in DOMAIN commands : commands[i] = "Send"
    BY <1>3 DEF Leave, DialsLeft
  <2>2. asked'.is = TRUE /\ asked'.ahead = n /\ asked'.dials = 0
    BY <2>1 DEF TypeOK
  <2>3. n + 1 \in DOMAIN commands' /\ RequestAt(n + 1)'
    BY <1>1, <2>1 DEF RequestAt, Command
  <2> QED
    BY <2>2, <2>3 DEF DialsLeft
<1> QED
  BY <1>2, <1>3

LEMMA StepDialsLeft == TypeInv /\ DialsLeft /\ [Next]_vars => DialsLeft'
<1> SUFFICES ASSUME TypeInv, DialsLeft, [Next]_vars PROVE DialsLeft'
  OBVIOUS
<1>1. CASE UNCHANGED vars
  BY <1>1, QuietDialsLeft DEF vars, task, owner
<1>2. CASE Start \/ Wake
  <2>1. \/ Begin /\ UNCHANGED handle
           /\ \/ phase \in {"Starting", "Sleeping"} /\ UNCHANGED commands
              \/ phase \in {"Waiting", "Sleeping"} /\ HasMessage /\ Read
        \/ phase' = "Ended" /\ UNCHANGED <<asked, handle, commands>>
    BY <1>2, Zenon DEF Start, Wake, owner, End
  <2> QED
    BY <2>1, BeginDialsLeft, QuietDialsLeft
<1>3. CASE Fetch \/ ConnectFails \/ Connects
  <2>1. /\ phase' \in {"Dialling", "Session", "Waiting", "Ended"}
        /\ phase # "Ended" /\ UNCHANGED <<asked, handle, commands>>
    BY <1>3 DEF Fetch, ConnectFails, Connects, Dropped, End, owner
  <2> QED
    BY <2>1, QuietDialsLeft
<1>4. CASE Session
  <2>1. /\ phase = "Session" /\ phase' \in {"Session", "Waiting", "Ended"}
        /\ UNCHANGED <<asked, handle>>
        /\ UNCHANGED commands \/ (Read /\ (HasMessage \/ phase' = "Ended"))
    <3>1. Dropped => phase' \in {"Waiting", "Ended"}
      BY DEF Dropped, End
    <3>2. CASE SendMessage
      BY <3>1, <3>2 DEF SendMessage, owner
    <3>3. CASE Disconnect
      BY <3>3 DEF Disconnect, End, owner
    <3>4. CASE AnswerPing \/ SocketEnds
      <4>1. /\ UNCHANGED phase \/ Dropped
            /\ UNCHANGED <<owner, commands, asked>>
        BY <3>4, Zenon DEF AnswerPing, SocketEnds, FrameIs
      <4>2. phase = "Session"
        BY <3>4, Zenon DEF AnswerPing, SocketEnds, FrameIs
      <4> QED
        BY <3>1, <4>1, <4>2 DEF owner
    <3>5. CASE ReadIdentity \/ ReadMessage
      <4>1. /\ phase = "Session" /\ Forward
            /\ UNCHANGED <<owner, commands, asked>>
        BY <3>5, Zenon DEF ReadIdentity, ReadMessage, FrameIs
      <4>2. phase' = phase \/ phase' = "Ended"
        BY <4>1, Zenon DEF Forward, End
      <4> QED
        BY <4>1, <4>2 DEF owner
    <3> QED
      BY <1>4, <3>2, <3>3, <3>4, <3>5 DEF Session
  <2> QED
    BY <2>1, QuietDialsLeft
<1>5. CASE Sleep
  <2>1. /\ phase' = "Sleeping" /\ phase # "Ended" /\ UNCHANGED <<asked, handle, commands>>
        /\ ~HasMessage /\ ~HasEnd
    BY <1>5 DEF Sleep, owner
  <2>2. ~asked.is
    BY <2>1, RequestIsThere DEF TypeInv
  <2> QED
    BY <2>1, <2>2 DEF DialsLeft
<1>6. CASE StopWaiting
  <2>1. phase' = "Ended" /\ UNCHANGED <<asked, handle>> /\ Read
    BY <1>6 DEF StopWaiting, End, owner
  <2> QED
    BY <2>1, QuietDialsLeft
<1>7. CASE ServerSends \/ LinkLost
  <2>1. UNCHANGED <<phase, asked, handle, commands>>
    BY <1>7 DEF ServerSends, LinkLost, task, owner
  <2> QED
    BY <2>1, QuietDialsLeft
<1> QED
  BY <1>1, <1>2, <1>3, <1>4, <1>5, <1>6, <1>7, AppendDialsLeft DEF Next, Run

\* Whatever was queued when the end was asked for, the task begins at most one attempt for
\* each message ahead of the request and one more.
THEOREM DiallingStops == Spec => []StopsDialling
<1>1. Init => DialsLeft
  BY DEF Init, DialsLeft
<1>2. DialsLeft => StopsDialling
  BY DEF DialsLeft, StopsDialling
<1>3. Spec => [](TypeInv /\ DialsLeft)
  BY <1>1, InitTypeInv, StepTypeInv, StepDialsLeft, PTL DEF Spec
<1> QED
  BY <1>2, <1>3, PTL
=============================================================================
