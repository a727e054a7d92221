--------------------------- MODULE LifecycleProofs ---------------------------
(***************************************************************************)
(* The end of a connection is final. The runtimes of Lifecycle, for any    *)
(* number of owners, configurations and starts: what is proved of a send   *)
(* holds of every one, a drop waits for a thread that is there, and a      *)
(* callback finds its runtime.                                             *)
(***************************************************************************)
EXTENDS Lifecycle, IoPathProofs

\* A leaf that does not name its prover is first-order reasoning, for Zenon.
USE ZenonT(20)

-----------------------------------------------------------------------------
(* The end of a connection.                                                  *)

ReceivedFrom(command, a) == command.kind = "receive" /\ command.on = a

\* The reader reports the close last: no packet of the association is queued behind
\* it, and none at all once the owner thread has taken it.
CommandInv ==
    /\ \A i \in 1 .. Len(commands) : commands[i].kind = "closed" =>
          /\ connection[commands[i].on] = "closed"
          /\ \A j \in i + 1 .. Len(commands) : ~ReceivedFrom(commands[j], commands[i].on)
    /\ \A a \in closedEvents :
          /\ connection[a] = "closed"
          /\ \A i \in 1 .. Len(commands) : ~ReceivedFrom(commands[i], a)

\* A close is handled when all packets that were drained with it are.
ClosedInv ==
    /\ phase \in {"idle", "closes", "send", "stopped"} => receiveQueue = <<>>
    /\ \A i \in 1 .. Len(closeQueue) : closeQueue[i].io => closeQueue[i].on \in closedEvents
    /\ \A a \in ioClosed :
          /\ a \in closedEvents /\ transport[a] = 0
          /\ \A i \in 1 .. Len(receiveQueue) : receiveQueue[i] # a

CloseInv == CommandInv /\ ClosedInv

\* At the start nothing was closed.
LEMMA CloseInit == Init => CloseInv
BY SMT DEF Init, CloseInv, CommandInv, ClosedInv

\* What the socket thread puts into the queue
LEMMA QueuedKeeps ==
    ASSUME TypeOK, CommandInv, NEW command \in Commands, TrySend(command),
           UNCHANGED closedEvents,
           \A a \in Associations : connection[a] = "closed" => connection'[a] = "closed",
           command.kind = "closed" => connection'[command.on] = "closed",
           command.kind = "receive" /\ command.on # Udp => connection[command.on] # "closed"
    PROVE  CommandInv'
<1>1. CASE UNCHANGED commands
  <2>1. \A i \in 1 .. Len(commands) : commands[i] \in Commands
    BY SMT DEF TypeOK
  <2>2. \A i \in 1 .. Len(commands) : commands[i].kind = "closed" =>
            commands[i].on \in Associations
    BY <2>1, CommandFacts
  <2> QED
    BY <1>1, <2>2 DEF CommandInv, TypeOK
<1>2. CASE commands' = Append(commands, command)
  <2> DEFINE n == Len(commands)
  <2>1. /\ Len(commands') = n + 1 /\ n \in Nat /\ commands'[n + 1] = command
        /\ \A i \in 1 .. n : commands'[i] = commands[i] /\ commands[i] \in Commands
    BY SMT, <1>2 DEF TypeOK
  <2>2. \A i \in 1 .. n : commands[i].kind = "closed" => commands[i].on \in Associations
    BY <2>1, CommandFacts
  <2> HIDE DEF n
  <2>3. ASSUME NEW a \in Associations, connection[a] = "closed"
        PROVE  ~ReceivedFrom(command, a)
    BY <2>3, ChannelFacts DEF ReceivedFrom
  <2>4. ASSUME NEW i \in 1 .. n + 1, commands'[i].kind = "closed"
        PROVE  /\ connection'[commands'[i].on] = "closed"
               /\ \A j \in i + 1 .. n + 1 : ~ReceivedFrom(commands'[j], commands'[i].on)
    <3>1. CASE i = n + 1
      BY SMT, <2>1, <2>4, <3>1
    <3>2. CASE i \in 1 .. n
      <4> DEFINE a == commands[i].on
      <4>1. /\ a \in Associations /\ commands'[i] = commands[i] /\ connection[a] = "closed"
            /\ \A j \in i + 1 .. n : ~ReceivedFrom(commands[j], a)
        BY <2>1, <2>2, <2>4, <3>2 DEF CommandInv, n
      <4> HIDE DEF a
      <4>2. ASSUME NEW j \in i + 1 .. n + 1
            PROVE  ~ReceivedFrom(commands'[j], a)
        <5>1. CASE j = n + 1
          BY <2>1, <2>3, <4>1, <5>1
        <5>2. CASE j \in i + 1 .. n
          BY SMT, <2>1, <3>2, <4>1, <5>2
        <5> QED
          BY SMT, <2>1, <3>2, <5>1, <5>2
      <4> QED
        BY <4>1, <4>2 DEF a
    <3> QED
      BY SMT, <2>1, <3>1, <3>2
  <2>5. ASSUME NEW a \in closedEvents'
        PROVE  /\ connection'[a] = "closed"
               /\ \A i \in 1 .. n + 1 : ~ReceivedFrom(commands'[i], a)
    <3>1. a \in Associations /\ connection[a] = "closed"
          /\ \A i \in 1 .. n : ~ReceivedFrom(commands[i], a)
      BY DEF CommandInv, TypeOK, n
    <3> QED
      BY SMT, <2>1, <2>3, <3>1
  <2> QED
    BY <2>1, <2>4, <2>5 DEF CommandInv
<1> QED
  BY <1>1, <1>2 DEF TrySend

\* The socket thread keeps it: a reader that has ended reads nothing more.
LEMMA SocketCloses ==
    ASSUME TypeOK, CloseInv, Socket
    PROVE  CloseInv'
<1> USE DEF CloseInv
<1>1. ClosedInv'
  BY DEF Socket, AcceptTcp, ReaderExit, WriterWrites, WriterFails, ReadPacket, WriteTransmit,
         ClosedInv, queueVars, transportVars, historyVars
<1>2. UNCHANGED closedEvents
  BY DEF Socket, AcceptTcp, ReaderExit, WriterWrites, WriterFails, ReadPacket, WriteTransmit,
         historyVars
<1>3. ASSUME NEW a \in Associations, AcceptTcp(a)
      PROVE  CommandInv'
  <2>1. UNCHANGED commands /\ connection[a] # "closed"
        /\ connection' = [connection EXCEPT ![a] = "open"]
    BY <1>3 DEF AcceptTcp
  <2>2. \A i \in 1 .. Len(commands) : commands[i] \in Commands
    BY SMT DEF TypeOK
  <2>3. \A i \in 1 .. Len(commands) : commands[i].kind = "closed" =>
            commands[i].on \in Associations
    BY <2>2, CommandFacts
  <2> QED
    BY <1>2, <2>1, <2>3 DEF CommandInv, TypeOK
<1>4. ASSUME NEW a \in Associations, ReaderExit(a)
      PROVE  CommandInv'
  <2> DEFINE command == [kind |-> "closed", on |-> a]
  <2>1. command \in Commands /\ TrySend(command)
    BY <1>4, CommandsMade DEF ReaderExit
  <2>2. connection' = [connection EXCEPT ![a] = "closed"]
    BY <1>4 DEF ReaderExit
  <2>3. /\ \A b \in Associations : connection[b] = "closed" => connection'[b] = "closed"
        /\ connection'[a] = "closed"
    BY <2>2 DEF TypeOK
  <2> QED
    BY <1>2, <2>1, <2>3, QueuedKeeps
<1>5. ASSUME NEW c \in Channels, ReadPacket(c)
      PROVE  CommandInv'
  <2> DEFINE command == [kind |-> "receive", on |-> c]
  <2>1. command \in Commands /\ TrySend(command) /\ UNCHANGED connection
        /\ (c # Udp => connection[c] = "open")
    BY <1>5, CommandsMade DEF ReadPacket
  <2> QED
    BY <1>2, <2>1, QueuedKeeps
<1>6. ASSUME NEW s \in Sends, TrySend([kind |-> "sent", send |-> s]), UNCHANGED connection
      PROVE  CommandInv'
  BY <1>2, <1>6, QueuedKeeps, CommandsMade
<1>7. ASSUME NEW a \in Associations, WriterWrites(a) \/ WriterFails(a)
      PROVE  CommandInv'
  <2>1. writerQueue[a] \in Seq(Sends) /\ writerQueue[a] # <<>>
    BY <1>7 DEF WriterWrites, WriterFails, TypeOK
  <2>2. Head(writerQueue[a]) \in Sends
    BY <2>1, TailFacts
  <2> QED
    BY <1>6, <1>7, <2>2 DEF WriterWrites, WriterFails
<1>8. ASSUME WriteTransmit
      PROVE  CommandInv'
  <2>1. Head(transmits) \in Sends
    BY <1>8, TailFacts DEF WriteTransmit, TypeOK
  <2>2. CASE UNCHANGED <<commands, connection>>
    BY <1>2, <2>2 DEF CommandInv
  <2>3. CASE TrySend([kind |-> "sent", send |-> Head(transmits)]) /\ UNCHANGED connection
    BY <1>6, <2>1, <2>3
  <2> QED
    BY <1>8, <2>2, <2>3 DEF WriteTransmit
<1> QED
  BY <1>1, <1>3, <1>4, <1>5, <1>7, <1>8 DEF Socket

\* The drain keeps it: a close leaves the queue after the packets read before it.
LEMMA DrainCloses ==
    ASSUME TypeOK, CloseInv, DrainCommand
    PROVE  CloseInv'
<1> DEFINE command == Head(commands)
           n == Len(commands)
<1>1. /\ commands \in Seq(Commands) /\ commands # <<>> /\ phase = "drain"
      /\ commands' = Tail(commands)
      /\ ReceivePacket(command) \/ CompleteSend(command) \/ TransportClosed(command)
      /\ UNCHANGED <<connection, phase, transport, ioClosed>>
  BY DEF DrainCommand, TypeOK, socketVars, transportVars
<1>2. /\ command = commands[1] /\ command \in Commands /\ n \in Nat \ {0}
      /\ Len(commands') = n - 1
      /\ \A i \in 1 .. n - 1 : commands'[i] = commands[i + 1]
  BY <1>1, TailFacts
<1> HIDE DEF command, n
<1>3. /\ \A i \in 1 .. n : commands[i].kind = "closed" =>
            /\ connection[commands[i].on] = "closed"
            /\ \A j \in i + 1 .. n : ~ReceivedFrom(commands[j], commands[i].on)
      /\ \A a \in closedEvents :
            connection[a] = "closed" /\ \A i \in 1 .. n : ~ReceivedFrom(commands[i], a)
  BY DEF CloseInv, CommandInv, n
<1>4. ASSUME NEW i \in 1 .. n - 1, commands'[i].kind = "closed"
      PROVE  /\ connection'[commands'[i].on] = "closed"
             /\ \A j \in i + 1 .. n - 1 : ~ReceivedFrom(commands'[j], commands'[i].on)
  <2>1. commands'[i] = commands[i + 1] /\ i + 1 \in 1 .. n
    BY SMT, <1>2
  <2>2. ASSUME NEW j \in i + 1 .. n - 1
        PROVE  /\ commands'[j] = commands[j + 1] /\ j + 1 \in i + 1 + 1 .. n
    BY SMT, <1>2
  <2> QED
    BY <1>1, <1>3, <1>4, <2>1, <2>2
<1>5. ASSUME NEW a \in closedEvents'
      PROVE  /\ connection[a] = "closed"
             /\ \A i \in 1 .. n - 1 : ~ReceivedFrom(commands'[i], a)
  <2>1. \A i \in 1 .. n - 1 : i + 1 \in 1 + 1 .. n /\ i + 1 \in 1 .. n
    BY SMT, <1>2
  <2>2. CASE a \in closedEvents
    BY <1>2, <1>3, <2>1, <2>2
  <2>3. CASE a \notin closedEvents
    <3>1. command.kind = "closed" /\ a = command.on
      BY <1>1, <1>5, <2>3 DEF ReceivePacket, CompleteSend, TransportClosed
    <3>2. 1 \in 1 .. n
      BY SMT, <1>2
    <3> QED
      BY <1>2, <1>3, <2>1, <3>1, <3>2
  <2> QED
    BY <2>2, <2>3
<1>6. CommandInv'
  BY <1>1, <1>2, <1>4, <1>5 DEF CommandInv
<1>7. closedEvents \subseteq closedEvents'
  BY <1>1 DEF ReceivePacket, CompleteSend, TransportClosed
<1>8. ASSUME NEW i \in 1 .. Len(closeQueue'), closeQueue'[i].io
      PROVE  closeQueue'[i].on \in closedEvents'
  <2>1. closeQueue \in Seq([on : Associations, io : BOOLEAN])
    BY DEF TypeOK
  <2>2. CASE UNCHANGED closeQueue
    BY <1>7, <1>8, <2>2 DEF CloseInv, ClosedInv
  <2>3. CASE TransportClosed(command)
    <3>1. closeQueue' = Append(closeQueue, [on |-> command.on, io |-> TRUE])
          /\ command.on \in closedEvents'
      BY <2>3 DEF TransportClosed
    <3>2. [on |-> command.on, io |-> TRUE] \in [on : Associations, io : BOOLEAN]
      BY <1>2, <2>3, CommandFacts DEF TransportClosed
    <3>3. CASE i \in 1 .. Len(closeQueue)
      <4>1. closeQueue'[i] = closeQueue[i]
        BY SMT, <2>1, <3>1, <3>2, <3>3
      <4> QED
        BY <1>7, <1>8, <3>3, <4>1 DEF CloseInv, ClosedInv
    <3>4. CASE i = Len(closeQueue) + 1
      <4>1. closeQueue'[i] = [on |-> command.on, io |-> TRUE]
        BY SMT, <2>1, <3>1, <3>2, <3>4
      <4> QED
        BY SMT, <3>1, <4>1
    <3>5. Len(closeQueue') = Len(closeQueue) + 1 /\ Len(closeQueue) \in Nat
      BY SMT, <2>1, <3>1, <3>2
    <3> QED
      BY SMT, <1>8, <3>3, <3>4, <3>5
  <2> QED
    BY <1>1, <2>2, <2>3 DEF ReceivePacket, CompleteSend
<1>9. ASSUME NEW a \in ioClosed'
      PROVE  /\ a \in closedEvents' /\ transport'[a] = 0
             /\ \A i \in 1 .. Len(receiveQueue') : receiveQueue'[i] # a
  <2>1. /\ a \in closedEvents /\ transport[a] = 0
        /\ \A i \in 1 .. Len(receiveQueue) : receiveQueue[i] # a
    BY <1>1 DEF CloseInv, ClosedInv
  <2>2. CASE UNCHANGED receiveQueue
    BY <1>1, <1>7, <2>1, <2>2
  <2>3. CASE ReceivePacket(command)
    <3>1. receiveQueue' = Append(receiveQueue, command.on) /\ command.kind = "receive"
          /\ receiveQueue \in Seq(Channels) /\ command.on \in Channels
      BY <1>2, <2>3, CommandFacts DEF ReceivePacket, TypeOK
    <3>2. command.on # a
      BY SMT, <1>2, <1>3, <2>1, <3>1 DEF ReceivedFrom
    <3>3. \A i \in 1 .. Len(receiveQueue') : receiveQueue'[i] # a
      BY SMT, <2>1, <3>1, <3>2
    <3> QED
      BY <1>1, <1>7, <2>1, <3>3
  <2> QED
    BY <1>1, <2>2, <2>3 DEF CompleteSend, TransportClosed
<1> QED
  BY <1>1, <1>6, <1>8, <1>9 DEF CloseInv, ClosedInv

\* So does the rest of the owner thread: a packet cannot bring back the transport of
\* an association whose end was handled.
LEMMA OwnerCloses ==
    ASSUME TypeOK, CloseInv,
           \/ BeginPoll \/ NextPhase \/ ProcessCompletion \/ ProcessReceive \/ ProcessClose
           \/ (\E c \in Channels : TransportSend(c)) \/ Application
    PROVE  CloseInv'
<1> USE DEF CloseInv
<1>1. CASE ~Stop
  <2>1. UNCHANGED <<connection, commands, closedEvents>>
    BY <1>1 DEF BeginPoll, NextPhase, ProcessCompletion, ProcessReceive, ProcessClose,
                TransportSend, Application, AppClose, socketVars, historyVars
  <2>2. CommandInv'
    BY <2>1 DEF CommandInv
  <2>3. CASE BeginPoll \/ ProcessCompletion \/ \E c \in Channels : TransportSend(c)
    BY <2>2, <2>3 DEF BeginPoll, GoTo, ProcessCompletion, TransportSend, ClosedInv, queueVars,
                      transportVars, historyVars
  <2>4. CASE NextPhase
    BY <2>2, <2>4 DEF NextPhase, GoTo, ClosedInv, queueVars, transportVars, historyVars
  <2>5. CASE ProcessReceive
    <3> DEFINE c == Head(receiveQueue)
    <3>1. /\ phase = "receives" /\ receiveQueue # <<>> /\ receiveQueue' = Tail(receiveQueue)
          /\ \/ UNCHANGED transport
             \/ transport' = [transport EXCEPT ![c] = transportSequence + 1]
          /\ UNCHANGED <<phase, closeQueue, ioClosed>>
      BY <2>5 DEF ProcessReceive, transportVars
    <3>2. /\ c = receiveQueue[1] /\ Len(receiveQueue) \in Nat \ {0}
          /\ Len(receiveQueue') = Len(receiveQueue) - 1
          /\ \A i \in 1 .. Len(receiveQueue) - 1 : receiveQueue'[i] = receiveQueue[i + 1]
      BY <3>1, TailFacts DEF TypeOK
    <3> HIDE DEF c
    <3>3. ASSUME NEW a \in ioClosed'
          PROVE  /\ a \in closedEvents' /\ transport'[a] = 0
                 /\ \A i \in 1 .. Len(receiveQueue') : receiveQueue'[i] # a
      <4>1. /\ a \in closedEvents /\ transport[a] = 0
            /\ \A i \in 1 .. Len(receiveQueue) : receiveQueue[i] # a
        BY <3>1 DEF ClosedInv
      <4>2. a # c
        BY SMT, <3>2, <4>1
      <4>3. transport'[a] = 0
        BY <3>1, <4>1, <4>2, ChannelFacts DEF TypeOK
      <4> QED
        BY SMT, <2>1, <3>2, <4>1, <4>3
    <3> QED
      BY <2>1, <2>2, <3>1, <3>3 DEF ClosedInv
  <2>6. CASE ProcessClose
    <3> DEFINE close == Head(closeQueue)
    <3>1. /\ phase = "closes" /\ closeQueue # <<>> /\ closeQueue' = Tail(closeQueue)
          /\ transport' = [transport EXCEPT ![close.on] = 0]
          /\ ioClosed' = IF close.io THEN ioClosed \cup {close.on} ELSE ioClosed
          /\ UNCHANGED <<phase, receiveQueue>>
      BY <2>6 DEF ProcessClose
    <3>2. /\ close = closeQueue[1] /\ Len(closeQueue) \in Nat \ {0}
          /\ Len(closeQueue') = Len(closeQueue) - 1
          /\ \A i \in 1 .. Len(closeQueue) - 1 : closeQueue'[i] = closeQueue[i + 1]
      BY <3>1, TailFacts DEF TypeOK
    <3> HIDE DEF close
    <3>3. receiveQueue = <<>>
      BY <3>1 DEF ClosedInv
    <3>4. ASSUME NEW a \in ioClosed'
          PROVE  a \in closedEvents' /\ transport'[a] = 0
      <4>1. CASE a \in ioClosed
        BY <2>1, <3>1, <4>1, ChannelFacts DEF ClosedInv, TypeOK
      <4>2. CASE close.io /\ a = close.on
        <5>1. a \in closedEvents
          BY SMT, <3>2, <4>2 DEF ClosedInv
        <5> QED
          BY <2>1, <3>1, <4>2, <5>1, ChannelFacts DEF TypeOK
      <4> QED
        BY <3>1, <3>4, <4>1, <4>2
    <3>5. \A i \in 1 .. Len(closeQueue') : closeQueue'[i].io => closeQueue'[i].on \in closedEvents'
      BY SMT, <2>1, <3>2 DEF ClosedInv
    <3> QED
      BY SMT, <2>2, <3>1, <3>3, <3>4, <3>5 DEF ClosedInv
  <2>7. ASSUME NEW a \in Associations, AppClose(a)
        PROVE  ClosedInv'
    <3>1. /\ closeQueue' = Append(closeQueue, [on |-> a, io |-> FALSE])
          /\ UNCHANGED <<phase, receiveQueue, transport, ioClosed, closedEvents>>
      BY <2>7 DEF AppClose, transportVars, historyVars
    <3>2. closeQueue \in Seq([on : Associations, io : BOOLEAN])
      BY DEF TypeOK
    <3>3. [on |-> a, io |-> FALSE] \in [on : Associations, io : BOOLEAN]
      OBVIOUS
    <3>4. \A i \in 1 .. Len(closeQueue') : closeQueue'[i].io => closeQueue'[i].on \in closedEvents'
      <4>1. /\ Len(closeQueue') = Len(closeQueue) + 1 /\ Len(closeQueue) \in Nat
            /\ closeQueue'[Len(closeQueue) + 1] = [on |-> a, io |-> FALSE]
            /\ \A i \in 1 .. Len(closeQueue) : closeQueue'[i] = closeQueue[i]
        BY SMT, <3>1, <3>2, <3>3
      <4> QED
        BY SMT, <3>1, <4>1 DEF ClosedInv
    <3> QED
      BY <3>1, <3>4 DEF ClosedInv
  <2> QED
    BY <1>1, <2>2, <2>3, <2>4, <2>5, <2>6, <2>7 DEF Application
<1>2. CASE Stop
  <2>1. CommandInv'
    BY <1>2 DEF Stop, CommandInv, socketVars, historyVars
  <2>2. ClosedInv'
    BY SMT, <1>2, ChannelFacts DEF Stop, GoTo, ClosedInv, TypeOK, historyVars
  <2> QED
    BY <2>1, <2>2
<1> QED
  BY <1>1, <1>2

-----------------------------------------------------------------------------
IoInv == PathInv /\ CloseInv

\* The invariant holds at the start.
LEMMA IoInit == Init => IoInv
BY TypeInit, SendInit, OrderInit, CloseInit DEF IoInv, PathInv

\* Every step keeps it.
LEMMA IoNext ==
    ASSUME IoInv, [Next]_vars
    PROVE  IoInv'
<1> USE DEF IoInv
<1>1. TypeOK
  BY DEF PathInv
<1>2. CASE Socket
  BY <1>1, <1>2, SocketKeeps, SocketCloses
<1>3. CASE Poll
  BY <1>1, <1>3, PollKeeps, DrainCloses, OwnerCloses DEF Poll
<1>4. CASE (\E c \in Channels : TransportSend(c)) \/ Application
  BY <1>1, <1>4, OwnerKeeps, OwnerCloses
<1>5. CASE UNCHANGED vars
  <2>1. CloseInv'
    BY <1>5 DEF CloseInv, CommandInv, ClosedInv, vars, socketVars, queueVars, transportVars,
                historyVars
  <2> QED
    BY <1>5, <2>1, PathUnchanged
<1> QED
  BY <1>2, <1>3, <1>4, <1>5 DEF Next

\* No packet brings back the transport of an association whose end was handled
\* (gmv_process_receive_commands runs before gmv_process_close_commands).
THEOREM CloseIsFinalCorrect == Spec => []CloseIsFinal
<1>1. Init => IoInv
  BY IoInit
<1>2. IoInv /\ [Next]_vars => IoInv'
  BY IoNext
<1>3. IoInv => CloseIsFinal
  BY DEF IoInv, CloseInv, ClosedInv, CloseIsFinal
<1> QED
  BY <1>1, <1>2, <1>3, PTL DEF Spec

-----------------------------------------------------------------------------
(* One runtime after another.                                                *)

Stages == {"out", "locked", "created", "started", "running", "stopped", "dropping",
           "joining"}

LifeTypeOK ==
    /\ stage \in [Owners -> Stages]
    /\ lock \in Owners \cup {Nobody} /\ active \in Owners \cup {Nobody}
    /\ boxes \subseteq Owners
    /\ shim \in [Owners -> {"none", "created", "started", "released"}]
    /\ socketThread \in [Owners -> {"none", "spawned", "running", "failed", "ended"}]

\* What an owner has at each point: the lock from the first step of start to the last
\* of drop, the boxes until the C runtime is destroyed, the C runtime from create to
\* destroy, a socket thread from the end of start on.
StageDecides(o) ==
    /\ stage[o] = "out" <=> lock # o
    /\ stage[o] \in {"out", "joining"} <=> o \notin boxes
    /\ stage[o] \in {"out", "locked", "dropping", "joining"} <=> shim[o] = "none"
    /\ stage[o] \in {"started", "running"} <=> shim[o] = "started"
    /\ stage[o] \in {"out", "locked", "created", "started"} => socketThread[o] = "none"
    /\ active = o => shim[o] = "started"

LifeInv == LifeTypeOK /\ \A o \in Owners : StageDecides(o)

\* The inductive invariant holds before the first start.
LEMMA LifeInit == LifecycleInit => LifeInv
BY LifecycleAssumption DEF LifecycleInit, LifeInv, LifeTypeOK, StageDecides, Stages

\* It gives both properties.
LEMMA LifeImplies == LifeInv => CallbackStateOutlivesShim /\ OneRuntime
BY LifecycleAssumption
   DEF LifeInv, LifeTypeOK, StageDecides, Stages, CallbackStateOutlivesShim, OneRuntime

\* An owner that takes the lock finds no other between start and the end of drop.
LEMMA BeginKeeps ==
    ASSUME LifeInv, NEW o \in Owners, NEW config \in Configs, BeginStart(o, config)
    PROVE  LifeInv'
BY SMT, LifecycleAssumption
   DEF LifeInv, LifeTypeOK, Stages, StageDecides, Moves, BeginStart, Accepted, LockTaken

\* The other steps of start keep it.
LEMMA StartingKeeps ==
    ASSUME LifeInv, NEW o \in Owners, Starting(o)
    PROVE  LifeInv'
<1> USE LifecycleAssumption DEF LifeInv, LifeTypeOK, Stages, StageDecides, Moves
<1>1. CASE CreateShim(o)
  BY SMT, <1>1 DEF CreateShim
<1>2. CASE StartShim(o)
  BY <1>2 DEF StartShim
<1>3. CASE SpawnSocketThread(o)
  BY <1>3 DEF SpawnSocketThread
<1>4. CASE StartFails(o)
  BY SMT, <1>4 DEF StartFails, Inactive
<1> QED
  BY <1>1, <1>2, <1>3, <1>4 DEF Starting

\* The steps of stop and drop keep it.
LEMMA EndKeeps ==
    ASSUME LifeInv, NEW o \in Owners, NEW panic \in BOOLEAN,
           StopRuntime(o) \/ DropRuntime(o, panic) \/ DropFields(o) \/ Joined(o)
    PROVE  LifeInv'
<1> USE LifecycleAssumption DEF LifeInv, LifeTypeOK, Stages, StageDecides, Moves
<1>1. CASE StopRuntime(o)
  BY <1>1 DEF StopRuntime, Inactive
<1>2. CASE DropRuntime(o, panic)
  BY <1>2 DEF DropRuntime, Inactive
<1>3. CASE DropFields(o)
  BY SMT, <1>3 DEF DropFields
<1>4. CASE Joined(o)
  BY <1>4 DEF Joined
<1> QED
  BY <1>1, <1>2, <1>3, <1>4

\* The steps of the socket thread keep it: they only move the thread on.
LEMMA ThreadKeeps ==
    ASSUME LifeInv, NEW o \in Owners,
           SocketThreadBegins(o) \/ SocketThreadFails(o) \/ SocketThreadEnds(o)
    PROVE  LifeInv'
BY SMT, LifecycleAssumption
   DEF LifeInv, LifeTypeOK, Stages, StageDecides, SocketThreadBegins, SocketThreadFails,
       SocketThreadEnds

\* What the runtime does while it is up does not concern it.
LEMMA ServingKeeps ==
    ASSUME LifeInv, UNCHANGED lifeVars
    PROVE  LifeInv'
BY DEF LifeInv, LifeTypeOK, StageDecides, lifeVars

\* Every step keeps it.
LEMMA LifeNext ==
    ASSUME LifeInv, [LifecycleNext]_lifecycleVars
    PROVE  LifeInv'
<1>1. CASE UNCHANGED lifecycleVars
  BY <1>1, ServingKeeps DEF lifecycleVars
<1>2. CASE LifecycleNext
  <2>1. ASSUME NEW o \in Owners, NEW config \in Configs,
               StartRefused(o, config) \/ BeginStart(o, config)
        PROVE  LifeInv'
    <3>1. CASE StartRefused(o, config)
      BY <3>1, ServingKeeps DEF StartRefused, lifecycleVars
    <3>2. CASE BeginStart(o, config)
      BY <3>2, BeginKeeps
    <3> QED
      BY <2>1, <3>1, <3>2
  <2>2. ASSUME NEW o \in Owners, Starting(o)
        PROVE  LifeInv'
    BY <2>2, StartingKeeps
  <2>3. ASSUME NEW o \in Owners, StopRuntime(o) \/ Dropping(o)
        PROVE  LifeInv'
    BY <2>3, EndKeeps DEF Dropping
  <2>4. ASSUME NEW o \in Owners, NEW panic \in BOOLEAN, DropRuntime(o, panic)
        PROVE  LifeInv'
    BY <2>4, EndKeeps
  <2>5. ASSUME NEW o \in Owners,
               SocketThreadBegins(o) \/ SocketThreadFails(o) \/ SocketThreadEnds(o)
        PROVE  LifeInv'
    BY <2>5, ThreadKeeps
  <2>6. ASSUME Serve \/ TakeTransmit \/ PollRuntime
        PROVE  LifeInv'
    BY <2>6, ServingKeeps DEF Serve, TakeTransmit, PollRuntime
  <2>7. ASSUME NEW c \in Channels, Send(c)
        PROVE  LifeInv'
    BY <2>7, ServingKeeps DEF Send
  <2>8. ASSUME NEW a \in Associations, CloseTransport(a)
        PROVE  LifeInv'
    BY <2>8, ServingKeeps DEF CloseTransport
  <2> QED
    BY <1>2, <2>1, <2>2, <2>3, <2>4, <2>5, <2>6, <2>7, <2>8 DEF LifecycleNext
<1> QED
  BY <1>1, <1>2

\* Whatever owners start, fail, stop, panic and drop, the state that the shim's
\* callbacks use (EventState, TransmitState) is there as long as the C runtime.
THEOREM CallbackStateOutlivesShimCorrect == LifecycleSpec => []CallbackStateOutlivesShim
<1>1. LifecycleInit => LifeInv
  BY LifeInit
<1>2. LifeInv /\ [LifecycleNext]_lifecycleVars => LifeInv'
  BY LifeNext
<1>3. LifeInv => CallbackStateOutlivesShim
  BY LifeImplies
<1> QED
  BY <1>1, <1>2, <1>3, PTL DEF LifecycleSpec

\* There is one runtime, one C runtime and one socket thread in the process at a time
\* (RUNTIME_LOCK, g_active_runtime).
THEOREM OneRuntimeCorrect == LifecycleSpec => []OneRuntime
<1>1. LifecycleInit => LifeInv
  BY LifeInit
<1>2. LifeInv /\ [LifecycleNext]_lifecycleVars => LifeInv'
  BY LifeNext
<1>3. LifeInv => OneRuntime
  BY LifeImplies
<1> QED
  BY <1>1, <1>2, <1>3, PTL DEF LifecycleSpec

\* When no runtime is left the next can start (RUNTIME_LOCK is free, poisoned or not,
\* and g_active_runtime is NULL).
THEOREM NextMayStartCorrect == LifecycleSpec => []NextMayStart
<1>1. LifecycleInit => LifeInv
  BY LifeInit
<1>2. LifeInv /\ [LifecycleNext]_lifecycleVars => LifeInv'
  BY LifeNext
<1>3. LifeInv => NextMayStart
  <2> SUFFICES ASSUME LifeInv, \A o \in Owners : stage[o] = "out"
               PROVE  (\E config \in Configs : Accepted(config)) /\ active = Nobody /\ boxes = {}
    BY DEF NextMayStart
  <2>1. lock = Nobody /\ active = Nobody /\ boxes = {}
    BY DEF LifeInv, LifeTypeOK, StageDecides
  <2> QED
    BY <2>1, ConfigsAssumption DEF Accepted, LockTaken
<1> QED
  BY <1>1, <1>2, <1>3, PTL DEF LifecycleSpec

-----------------------------------------------------------------------------
(* What a runtime does with its sends, however many were before it.         *)

\* A new runtime begins with nothing sent and nothing closed.
LEMMA FreshKeeps ==
    ASSUME FreshIo
    PROVE  IoInv'
<1>1. /\ phase' = "idle" /\ commands' = <<>> /\ transmits' = <<>> /\ receiveQueue' = <<>>
      /\ closeQueue' = <<>> /\ closedEvents' = {} /\ ioClosed' = {}
  BY DEF FreshIo
<1>2. CloseInv'
  BY SMT, <1>1 DEF CloseInv, CommandInv, ClosedInv
<1>3. OrderInv'
  <2>1. /\ writerQueue' = [a \in Associations |-> <<>>] /\ sendSequence' = 0
        /\ lastWritten' = [a \in Associations |-> 0]
    BY DEF FreshIo
  <2> QED
    BY SMT, <1>1, <2>1 DEF OrderInv, AssociationInv, Rising
<1>4. SendInv' /\ SendType'
  <2>1. /\ sendSequence' = 0 /\ pendingSends' = {} /\ refusedSends' = {}
        /\ callbacks' = [s \in Sends |-> 0]
        /\ sendChannel' = [s \in Sends |-> Udp] /\ sendTransport' = [s \in Sends |-> 0]
    BY DEF FreshIo
  <2> QED
    BY SMT, <2>1, CapacitiesAssumption, ChannelFacts
       DEF SendInv, SettledExactlyOnce, PendingOnLiveTransport, SendType
<1>5. ShimType'
  <2> DEFINE udp == IF "udp" \in listening THEN 1 ELSE 0
  <2>1. /\ completionQueue' = <<>> /\ delivered' = [c \in Channels |-> 0] /\ appCloses' = 0
        /\ transport' = [c \in Channels |-> IF c = Udp THEN udp ELSE 0]
        /\ transportSequence' = udp
    BY DEF FreshIo
  <2> QED
    BY SMT, <1>1, <2>1 DEF ShimType
<1>6. SocketType' /\ QueueType' /\ phase' \in Phases
  <2>1. /\ connection' = [a \in Associations |-> "none"] /\ writers' = {} /\ writerUp' = {}
        /\ writerQueue' = [a \in Associations |-> <<>>] /\ reads' = 0
        /\ lastWritten' = [a \in Associations |-> 0]
    BY DEF FreshIo
  <2> QED
    BY SMT, <1>1, <2>1, CapacitiesAssumption DEF SocketType, QueueType, Phases
<1> QED
  BY <1>2, <1>3, <1>4, <1>5, <1>6, TypeParts DEF IoInv, PathInv

\* A send for which there is no socket thread is refused at once.
LEMMA SendToNobodyKeeps ==
    ASSUME IoInv, NEW c \in Channels, SendToNobody(c)
    PROVE  IoInv'
<1> DEFINE n == sendSequence + 1
<1>1. TypeOK /\ SendInv /\ OrderInv /\ CloseInv
  BY DEF IoInv, PathInv
<1>2. /\ sendSequence' = n /\ refusedSends' = refusedSends \cup {n} /\ n \in Sends
      /\ sendSequence \in Nat
      /\ 1 .. n = (1 .. sendSequence) \cup {n} /\ n \notin 1 .. sendSequence
  <2>1. /\ sendSequence \in Nat /\ sendSequence < MaxSends
        /\ sendSequence' = n /\ refusedSends' = refusedSends \cup {n}
    BY SMT, <1>1, CapacitiesAssumption DEF SendToNobody, TypeOK
  <2> QED
    BY SMT, <2>1, CapacitiesAssumption DEF Sends
<1>3. UNCHANGED <<socketVars, transmits, commands, phase, queueVars, transportVars, sendChannel,
                  sendTransport, pendingSends, callbacks, historyVars, appCloses>>
  BY DEF SendToNobody
<1> HIDE DEF n
<1>4. TypeOK'
  <2>1. SendType'
    <3>1. SendType /\ n \in 0 .. MaxSends
      BY SMT, <1>1, <1>2, TypeParts DEF Sends
    <3> QED
      BY <1>2, <1>3, <3>1 DEF SendType
  <2> QED
    BY <1>1, <1>3, <2>1, TypeParts, QuietTypes
<1>5. CloseInv'
  BY <1>1, <1>3 DEF CloseInv, CommandInv, ClosedInv, socketVars, queueVars, transportVars,
                    historyVars
<1>6. SendInv'
  <2>1. n \notin pendingSends \cup refusedSends /\ callbacks[n] = 0
    BY SMT, <1>1, <1>2 DEF SendInv, n
  <2>2. /\ pendingSends' \cup refusedSends' \subseteq 1 .. sendSequence'
        /\ pendingSends' \cap refusedSends' = {}
    BY <1>1, <1>2, <1>3, <2>1 DEF SendInv
  <2>3. \A s \in Sends : s > sendSequence' => callbacks'[s] = 0
    BY SMT, <1>1, <1>2, <1>3 DEF SendInv, Sends, n
  <2>4. SettledExactlyOnce'
    BY <1>1, <1>2, <1>3, <2>1 DEF SendInv, SettledExactlyOnce
  <2>5. PendingOnLiveTransport' /\ \A s \in pendingSends' : sendTransport'[s] # 0
    BY <1>1, <1>3 DEF SendInv, PendingOnLiveTransport, transportVars
  <2> QED
    BY <2>2, <2>3, <2>4, <2>5 DEF SendInv
<1>7. OrderInv'
  <2>1. UNCHANGED <<writerQueue, lastWritten, transmits, sendChannel>>
    BY <1>3 DEF socketVars
  <2>2. \A x \in Nat : x <= sendSequence => x <= sendSequence'
    BY SMT, <1>2 DEF n
  <2>3. \A i \in 1 .. Len(transmits) : transmits[i] \in Nat
    BY <1>1, SendNumbers DEF TypeOK
  <2>4. Rising(transmits)' /\ (\A i \in 1 .. Len(transmits) : transmits[i] <= sendSequence)'
    BY <1>1, <2>1, <2>2, <2>3 DEF OrderInv, Rising
  <2>5. ASSUME NEW a \in Associations
        PROVE  AssociationInv(a)'
    <3>1. lastWritten[a] \in Nat /\ \A i \in 1 .. Len(writerQueue[a]) : writerQueue[a][i] \in Nat
      BY <1>1, SendNumbers DEF TypeOK
    <3>2. AssociationInv(a)
      BY <1>1 DEF OrderInv
    <3> QED
      BY <2>1, <2>2, <3>1, <3>2 DEF AssociationInv, Rising
  <2> QED
    BY <2>4, <2>5 DEF OrderInv
<1> QED
  BY <1>4, <1>5, <1>6, <1>7 DEF IoInv, PathInv

\* Every step of the process keeps the invariant of the runtime that is up.
LEMMA RuntimeKeeps ==
    ASSUME IoInv, [LifecycleNext]_lifecycleVars
    PROVE  IoInv'
<1>1. ASSUME UNCHANGED ioVars
      PROVE  IoInv'
  BY <1>1, IoNext DEF ioVars
<1>2. ASSUME Stop
      PROVE  IoInv'
  BY <1>2, IoNext DEF Next, Application
<1>3. CASE UNCHANGED lifecycleVars
  BY <1>1, <1>3 DEF lifecycleVars
<1>4. ASSUME NEW o \in Owners, NEW config \in Configs,
             StartRefused(o, config) \/ BeginStart(o, config)
      PROVE  IoInv'
  BY <1>1, <1>4 DEF StartRefused, BeginStart, lifecycleVars
<1>5. ASSUME NEW o \in Owners, Starting(o)
      PROVE  IoInv'
  BY <1>1, <1>2, <1>5, FreshKeeps DEF Starting, CreateShim, StartShim, SpawnSocketThread, StartFails
<1>6. ASSUME NEW o \in Owners, StopRuntime(o) \/ Dropping(o)
      PROVE  IoInv'
  BY <1>1, <1>2, <1>6 DEF StopRuntime, Dropping, DropFields, Joined
<1>7. ASSUME NEW o \in Owners, NEW panic \in BOOLEAN, DropRuntime(o, panic)
      PROVE  IoInv'
  BY <1>1, <1>2, <1>7 DEF DropRuntime
<1>8. ASSUME NEW o \in Owners,
             SocketThreadBegins(o) \/ SocketThreadFails(o) \/ SocketThreadEnds(o)
      PROVE  IoInv'
  BY <1>1, <1>8 DEF SocketThreadBegins, SocketThreadFails, SocketThreadEnds
<1>9. ASSUME Serve \/ TakeTransmit
      PROVE  IoInv'
  <2>1. Socket
    BY <1>9, ChannelFacts DEF Serve, TakeTransmit, Socket
  <2> QED
    BY <2>1, IoNext DEF Next
<1>10. ASSUME PollRuntime
       PROVE  IoInv'
  BY <1>10, IoNext DEF PollRuntime, Next
<1>11. ASSUME NEW c \in Channels, Send(c)
       PROVE  IoInv'
  BY <1>11, SendToNobodyKeeps, IoNext DEF Send, Next
<1>12. ASSUME NEW a \in Associations, CloseTransport(a)
       PROVE  IoInv'
  BY <1>12, IoNext DEF CloseTransport, Application, Next
<1> QED
  BY <1>3, <1>4, <1>5, <1>6, <1>7, <1>8, <1>9, <1>10, <1>11, <1>12 DEF LifecycleNext

\* In every runtime of a process, whatever starts, fails, stops and panics were before:
\* a send is called back once, never on a transport that was closed, and the end of a
\* connection is final.
THEOREM SendsOfEveryRuntime ==
    LifecycleSpec => [](SettledExactlyOnce /\ PendingOnLiveTransport /\ CloseIsFinal)
<1>1. LifecycleInit => IoInv
  BY IoInit DEF LifecycleInit
<1>2. IoInv /\ [LifecycleNext]_lifecycleVars => IoInv'
  BY RuntimeKeeps
<1>3. IoInv => SettledExactlyOnce /\ PendingOnLiveTransport /\ CloseIsFinal
  BY DEF IoInv, PathInv, SendInv, CloseInv, ClosedInv, CloseIsFinal
<1> QED
  BY <1>1, <1>2, <1>3, PTL DEF LifecycleSpec

-----------------------------------------------------------------------------
(* What a drop waits for, and what a callback finds.                         *)

\* A drop that joins waits for a thread of its own that is there and has been asked to
\* end: a runtime has a socket thread from the end of start on, and the thread does not
\* end before its owner waits for it.
JoinHasThread ==
    \A o \in Owners :
        /\ stage[o] \in {"running", "stopped", "dropping", "joining"} => socketThread[o] # "none"
        /\ socketThread[o] = "ended" => stage[o] = "joining"

\* A callback of the shim runs only inside a poll of a running runtime: the shim knows it
\* as the active one, its boxes are allocated, and its thread has not ended.
CallbackHasRuntime ==
    phase \notin {"idle", "stopped"} =>
        \E o \in Owners :
            /\ stage[o] = "running" /\ active = o /\ o \in boxes
            /\ socketThread[o] \in {"spawned", "running", "failed"}

\* The release that a failing start, stop or drop makes finds the shim between two polls
\* and not released yet.
PhaseInv ==
    /\ phase \notin {"idle", "stopped"} => \E o \in Owners : stage[o] = "running"
    /\ \A o \in Owners :
          /\ stage[o] \in {"started", "running"} => active = o
          /\ stage[o] = "started" => phase = "idle"
          /\ stage[o] = "running" => phase # "stopped"

WaitInv == JoinHasThread /\ PhaseInv

\* It holds before the first start.
LEMMA WaitInit == LifecycleInit => WaitInv
BY DEF LifecycleInit, Init, WaitInv, JoinHasThread, PhaseInv

\* With the owner's other state it gives both.
LEMMA WaitImplies == LifeInv /\ WaitInv => JoinHasThread /\ CallbackHasRuntime
<1> SUFFICES ASSUME LifeInv, WaitInv, phase \notin {"idle", "stopped"}
             PROVE  CallbackHasRuntime
  BY DEF WaitInv, CallbackHasRuntime
<1>1. PICK o \in Owners : stage[o] = "running"
  BY DEF WaitInv, PhaseInv
<1>2. /\ active = o /\ socketThread[o] # "none" /\ socketThread[o] # "ended"
  BY <1>1 DEF WaitInv, PhaseInv, JoinHasThread
<1>3. o \in boxes /\ socketThread[o] \in {"spawned", "running", "failed"}
  BY <1>1, <1>2 DEF LifeInv, LifeTypeOK, StageDecides
<1> QED
  BY <1>1, <1>2, <1>3 DEF CallbackHasRuntime

\* Only the owner that holds the lock is past the entry of start.
LEMMA OthersAreOut ==
    ASSUME LifeInv, NEW o \in Owners, stage[o] # "out"
    PROVE  \A p \in Owners \ {o} : stage[p] = "out"
BY DEF LifeInv, StageDecides

\* An owner that moves on leaves the stages of the others alone.
LEMMA MovesFacts ==
    ASSUME LifeInv, NEW o \in Owners, NEW to, stage' = [stage EXCEPT ![o] = to]
    PROVE  stage'[o] = to /\ \A p \in Owners \ {o} : stage'[p] = stage[p]
BY DEF LifeInv, LifeTypeOK

\* The steps of start keep it.
LEMMA StartWaits ==
    ASSUME LifeInv, WaitInv, NEW o \in Owners,
           (\E config \in Configs : BeginStart(o, config)) \/ Starting(o)
    PROVE  WaitInv'
<1> USE DEF WaitInv, JoinHasThread, PhaseInv
<1>1. CASE \E config \in Configs : BeginStart(o, config)
  <2>1. stage[o] = "out" /\ stage' = [stage EXCEPT ![o] = "locked"]
    BY <1>1 DEF BeginStart, Moves
  <2>2. UNCHANGED <<phase, active, socketThread>>
    BY <1>1 DEF BeginStart, ioVars, vars
  <2>3. \A p \in Owners : stage'[p] = stage[p] \/ (p = o /\ stage'[p] = "locked")
    BY <2>1, MovesFacts
  <2>4. socketThread[o] # "ended" /\ stage[o] # "running"
    BY <2>1
  <2> QED
    BY <2>2, <2>3, <2>4
<1>2. CASE CreateShim(o)
  <2>1. stage[o] = "locked" /\ stage' = [stage EXCEPT ![o] = "created"]
    BY <1>2 DEF CreateShim, Moves
  <2>2. UNCHANGED <<phase, active, socketThread>>
    BY <1>2 DEF CreateShim, ioVars, vars
  <2>3. \A p \in Owners : stage'[p] = stage[p] \/ (p = o /\ stage'[p] = "created")
    BY <2>1, MovesFacts
  <2>4. socketThread[o] # "ended" /\ stage[o] # "running"
    BY <2>1
  <2> QED
    BY <2>2, <2>3, <2>4
<1>3. CASE StartShim(o)
  <2>1. stage[o] = "created" /\ stage' = [stage EXCEPT ![o] = "started"]
    BY <1>3 DEF StartShim, Moves
  <2>2. phase' = "idle" /\ active' = o /\ UNCHANGED socketThread
    BY <1>3 DEF StartShim, FreshIo
  <2> QED
    BY <2>1, <2>2, MovesFacts, OthersAreOut
<1>4. CASE SpawnSocketThread(o)
  <2>1. stage[o] = "started" /\ stage' = [stage EXCEPT ![o] = "running"]
    BY <1>4 DEF SpawnSocketThread, Moves
  <2>2. /\ UNCHANGED <<phase, active>> /\ socketThread'[o] = "spawned"
        /\ \A p \in Owners \ {o} : socketThread'[p] = socketThread[p]
    BY <1>4 DEF SpawnSocketThread, ioVars, vars, LifeInv, LifeTypeOK
  <2> QED
    BY <2>1, <2>2, MovesFacts, OthersAreOut
<1>5. CASE StartFails(o)
  <2>1. /\ stage[o] \in {"locked", "created", "started"}
        /\ stage' = [stage EXCEPT ![o] = "out"] /\ UNCHANGED socketThread
    BY <1>5 DEF StartFails
  <2>2. phase' = phase \/ phase' = "stopped"
    BY <1>5 DEF StartFails, Stop, GoTo, ioVars, vars
  <2>3. \A p \in Owners : stage'[p] = "out"
    BY <2>1, MovesFacts, OthersAreOut
  <2>4. \A p \in Owners : stage[p] # "running"
    BY <2>1, OthersAreOut
  <2>5. socketThread[o] = "none"
    BY <2>1 DEF LifeInv, StageDecides
  <2> QED
    BY <2>1, <2>2, <2>3, <2>4, <2>5, OthersAreOut
<1> QED
  BY <1>1, <1>2, <1>3, <1>4, <1>5 DEF Starting

\* The steps of stop and drop keep it.
LEMMA EndWaits ==
    ASSUME LifeInv, WaitInv, NEW o \in Owners, NEW panic \in BOOLEAN,
           StopRuntime(o) \/ DropRuntime(o, panic) \/ DropFields(o) \/ Joined(o)
    PROVE  WaitInv'
<1> USE DEF WaitInv, JoinHasThread, PhaseInv
<1>1. stage[o] # "out" /\ \A p \in Owners \ {o} : stage[p] = "out"
  BY OthersAreOut DEF StopRuntime, DropRuntime, DropFields, Joined, Moves
<1>2. \A p \in Owners \ {o} : stage'[p] = "out"
  BY <1>1, MovesFacts DEF StopRuntime, DropRuntime, DropFields, Joined, Moves
<1>3. ASSUME NEW to \in {"stopped", "dropping", "joining"}, stage'[o] = to,
             UNCHANGED socketThread, phase' \in {"idle", "stopped"},
             socketThread[o] # "none", socketThread[o] # "ended" \/ to = "joining"
      PROVE  WaitInv'
  BY <1>1, <1>2, <1>3
<1>4. CASE StopRuntime(o)
  <2>1. /\ stage[o] = "running" /\ stage'[o] = "stopped" /\ UNCHANGED socketThread
        /\ phase' = "stopped"
    BY <1>4, MovesFacts DEF StopRuntime, Moves, Stop, GoTo
  <2> QED
    BY <1>3, <2>1
<1>5. CASE DropRuntime(o, panic)
  <2>1. /\ stage[o] \in {"running", "stopped"} /\ stage'[o] = "dropping"
        /\ UNCHANGED socketThread
    BY <1>5, MovesFacts DEF DropRuntime
  <2>2. phase' \in {"idle", "stopped"}
    <3>1. CASE stage[o] = "running"
      BY <1>5, <3>1 DEF DropRuntime, Stop, GoTo
    <3>2. CASE stage[o] # "running"
      <4>1. phase' = phase
        BY <1>5, <3>2 DEF DropRuntime, ioVars, vars
      <4>2. \A p \in Owners : stage[p] # "running"
        BY <1>1, <3>2
      <4> QED
        BY <4>1, <4>2
    <3> QED
      BY <3>1, <3>2
  <2> QED
    BY <1>3, <2>1, <2>2
<1>6. CASE DropFields(o)
  <2>1. /\ stage[o] = "dropping" /\ stage'[o] = "joining" /\ UNCHANGED <<socketThread, phase>>
    BY <1>6, MovesFacts DEF DropFields, Moves, ioVars, vars
  <2>2. phase' \in {"idle", "stopped"}
    BY <1>1, <2>1
  <2> QED
    BY <1>3, <2>1, <2>2
<1>7. CASE Joined(o)
  <2>1. /\ stage[o] = "joining" /\ stage'[o] = "out" /\ phase' = phase
        /\ socketThread'[o] = "none"
        /\ \A p \in Owners \ {o} : socketThread'[p] = socketThread[p]
    BY <1>7, MovesFacts DEF Joined, Moves, ioVars, vars, LifeInv, LifeTypeOK
  <2> QED
    BY <1>1, <1>2, <2>1
<1> QED
  BY <1>4, <1>5, <1>6, <1>7

\* The steps of the socket thread keep it.
LEMMA ThreadWaits ==
    ASSUME LifeInv, WaitInv, NEW o \in Owners,
           SocketThreadBegins(o) \/ SocketThreadFails(o) \/ SocketThreadEnds(o)
    PROVE  WaitInv'
<1> USE DEF WaitInv, JoinHasThread, PhaseInv
<1>1. UNCHANGED <<phase, stage, active>>
  BY DEF SocketThreadBegins, SocketThreadFails, SocketThreadEnds, ioVars, vars
<1>2. /\ socketThread'[o] \in {"running", "failed", "ended"}
      /\ socketThread'[o] = "ended" => stage[o] = "joining"
      /\ \A p \in Owners \ {o} : socketThread'[p] = socketThread[p]
  BY DEF SocketThreadBegins, SocketThreadFails, SocketThreadEnds, LifeInv, LifeTypeOK
<1> QED
  BY <1>1, <1>2

\* What the runtime does while it is up keeps it: only a poll leaves "idle", and none
\* enters "stopped".
LEMMA ServingWaits ==
    ASSUME WaitInv, UNCHANGED lifeVars,
           Serve \/ TakeTransmit \/ PollRuntime \/ (\E c \in Channels : Send(c))
                 \/ (\E a \in Associations : CloseTransport(a))
    PROVE  WaitInv'
<1> USE DEF WaitInv, JoinHasThread, PhaseInv
<1>1. UNCHANGED <<stage, active, socketThread>>
  BY DEF lifeVars
<1>2. CASE Serve \/ TakeTransmit \/ \E a \in Associations : CloseTransport(a)
  <2>1. UNCHANGED phase
    BY <1>2 DEF Serve, TakeTransmit, CloseTransport, AcceptTcp, ReadPacket, ReaderExit,
       WriterWrites, WriterFails, WriteTransmit, AppClose
  <2> QED
    BY <1>1, <2>1
<1>3. CASE PollRuntime
  <2>1. RuntimeUp /\ \A o \in Owners : stage[o] = "started" => phase = "idle"
    BY <1>3 DEF PollRuntime
  <2>2. phase' # "stopped" \/ UNCHANGED phase
    BY <1>3 DEF PollRuntime, Poll, BeginPoll, DrainCommand, NextPhase, ProcessCompletion,
       ProcessReceive, ProcessClose, GoTo
  <2> QED
    BY <1>1, <2>1, <2>2 DEF RuntimeUp
<1>4. ASSUME NEW c \in Channels, Send(c) PROVE WaitInv'
  <2>1. phase \notin {"idle", "stopped"} /\ phase' # "stopped"
    BY <1>4 DEF Send, SendToNobody, TransportSend
  <2> QED
    BY <1>1, <2>1
<1> QED
  BY <1>2, <1>3, <1>4

\* Every step keeps it.
LEMMA WaitNext ==
    ASSUME LifeInv, WaitInv, [LifecycleNext]_lifecycleVars
    PROVE  WaitInv'
<1>1. ASSUME UNCHANGED lifecycleVars PROVE WaitInv'
  <2>1. UNCHANGED <<stage, active, socketThread, phase>>
    BY <1>1 DEF lifecycleVars, lifeVars, ioVars, vars
  <2> QED
    BY <2>1 DEF WaitInv, JoinHasThread, PhaseInv
<1>2. ASSUME NEW o \in Owners, NEW config \in Configs, StartRefused(o, config)
      PROVE  WaitInv'
  BY <1>1, <1>2 DEF StartRefused
<1>3. ASSUME NEW o \in Owners,
             (\E config \in Configs : BeginStart(o, config)) \/ Starting(o)
      PROVE  WaitInv'
  BY <1>3, StartWaits
<1>4. ASSUME NEW o \in Owners,
             \/ StopRuntime(o) \/ Dropping(o)
             \/ \E panic \in BOOLEAN : DropRuntime(o, panic)
      PROVE  WaitInv'
  BY <1>4, EndWaits DEF Dropping
<1>5. ASSUME NEW o \in Owners,
             SocketThreadBegins(o) \/ SocketThreadFails(o) \/ SocketThreadEnds(o)
      PROVE  WaitInv'
  BY <1>5, ThreadWaits
<1>6. ASSUME \/ Serve \/ TakeTransmit \/ PollRuntime \/ (\E c \in Channels : Send(c))
             \/ (\E a \in Associations : CloseTransport(a))
      PROVE  WaitInv'
  BY <1>6, ServingWaits DEF Serve, TakeTransmit, PollRuntime, Send, CloseTransport
<1> QED
  BY <1>1, <1>2, <1>3, <1>4, <1>5, <1>6 DEF LifecycleNext

\* A drop never waits for a thread that is not there (SocketIoRuntime::drop), and a
\* thread never ends under a runtime that may still use it (run_io), whichever starts
\* fail and whenever the owner stops, panics or drops.
THEOREM JoinHasThreadCorrect == LifecycleSpec => []JoinHasThread
<1>1. LifecycleInit => LifeInv /\ WaitInv
  BY LifeInit, WaitInit
<1>2. LifeInv /\ WaitInv /\ [LifecycleNext]_lifecycleVars => LifeInv' /\ WaitInv'
  BY LifeNext, WaitNext
<1>3. LifeInv /\ WaitInv => JoinHasThread
  BY WaitImplies
<1> QED
  BY <1>1, <1>2, <1>3, PTL DEF LifecycleSpec

\* Whenever the shim may call back (the phases of gmv_process_io_commands, the send of
\* a transport), the runtime it calls is running, active and has its boxes and thread.
THEOREM CallbackHasRuntimeCorrect == LifecycleSpec => []CallbackHasRuntime
<1>1. LifecycleInit => LifeInv /\ WaitInv
  BY LifeInit, WaitInit
<1>2. LifeInv /\ WaitInv /\ [LifecycleNext]_lifecycleVars => LifeInv' /\ WaitInv'
  BY LifeNext, WaitNext
<1>3. LifeInv /\ WaitInv => CallbackHasRuntime
  BY WaitImplies
<1> QED
  BY <1>1, <1>2, <1>3, PTL DEF LifecycleSpec

-----------------------------------------------------------------------------
(* What every runtime loses on the way to its owner.                         *)

\* A step of the process is a step of the runtime that is up, a stutter of it, a new
\* one, or a send that the ended thread refuses.
LEMMA ProcessSteps ==
    ASSUME [LifecycleNext]_lifecycleVars
    PROVE  [Next]_vars \/ FreshIo \/ \E c \in Channels : SendToNobody(c)
<1>1. CASE UNCHANGED lifecycleVars
  BY <1>1 DEF lifecycleVars, ioVars
<1>2. ASSUME NEW o \in Owners, NEW config \in Configs,
             StartRefused(o, config) \/ BeginStart(o, config)
      PROVE  UNCHANGED vars
  BY <1>2 DEF StartRefused, BeginStart, lifecycleVars, ioVars
<1>3. ASSUME NEW o \in Owners, Starting(o) PROVE UNCHANGED vars \/ FreshIo \/ Stop
  BY <1>3 DEF Starting, CreateShim, StartShim, SpawnSocketThread, StartFails, ioVars
<1>4. ASSUME NEW o \in Owners, StopRuntime(o) \/ Dropping(o) PROVE UNCHANGED vars \/ Stop
  BY <1>4 DEF StopRuntime, Dropping, DropFields, Joined, ioVars
<1>5. ASSUME NEW o \in Owners, NEW panic \in BOOLEAN, DropRuntime(o, panic)
      PROVE  UNCHANGED vars \/ Stop
  BY <1>5 DEF DropRuntime, ioVars
<1>6. ASSUME NEW o \in Owners,
             SocketThreadBegins(o) \/ SocketThreadFails(o) \/ SocketThreadEnds(o)
      PROVE  UNCHANGED vars
  BY <1>6 DEF SocketThreadBegins, SocketThreadFails, SocketThreadEnds, ioVars
<1>7. ASSUME Serve \/ TakeTransmit PROVE Socket
  BY <1>7, ChannelFacts DEF Serve, TakeTransmit, Socket
<1>8. ASSUME NEW c \in Channels, Send(c) PROVE SendToNobody(c) \/ TransportSend(c)
  BY <1>8 DEF Send
<1>9. ASSUME NEW a \in Associations, CloseTransport(a) PROVE Application
  BY <1>9 DEF CloseTransport, Application
<1> QED
  BY <1>1, <1>2, <1>3, <1>4, <1>5, <1>6, <1>7, <1>8, <1>9
     DEF LifecycleNext, PollRuntime, Next, Application

\* A new runtime waits for nothing, and a refused send waits for nothing either.
LEMMA OtherStepsLose ==
    ASSUME TypeOK, FreshIo \/ \E c \in Channels : SendToNobody(c)
    PROVE  ResultLossExcused /\ CloseLossExcused
<1>1. CASE FreshIo
  <2>1. pendingSends' = {} /\ \A a \in Associations : connection'[a] # "closed"
    BY <1>1 DEF FreshIo
  <2> QED
    BY <2>1 DEF ResultLossExcused, ResultLost, CloseLossExcused, CloseLost
<1>2. ASSUME NEW c \in Channels, SendToNobody(c)
      PROVE  ResultLossExcused /\ CloseLossExcused
  <2>1. UNCHANGED <<transmits, commands, completionQueue, closeQueue, writerQueue,
                    pendingSends, connection, ioClosed>>
    BY <1>2 DEF SendToNobody, socketVars, queueVars, historyVars
  <2>2. ResultLossExcused
    BY <2>1, NoneLost DEF OnItsWay
  <2> QED
    BY <2>1, <2>2 DEF CloseLossExcused, CloseLost, CloseOnItsWay
<1> QED
  BY <1>1, <1>2

\* In every runtime of a process: as long as the command queue is not full the result of
\* a send is lost only with a writer that fails before it, and the end of a connection
\* only with the stop of its runtime.
THEOREM LossesOfEveryRuntime ==
    LifecycleSpec => [][ResultLossExcused /\ CloseLossExcused]_lifecycleVars
<1>1. LifecycleInit => IoInv
  BY IoInit DEF LifecycleInit
<1>2. IoInv /\ [LifecycleNext]_lifecycleVars => IoInv'
  BY RuntimeKeeps
<1>3. IoInv /\ [LifecycleNext]_lifecycleVars => ResultLossExcused /\ CloseLossExcused
  <2>1. IoInv => TypeOK
    BY DEF IoInv, PathInv
  <2> QED
    BY <2>1, ProcessSteps, OtherStepsLose, ResultStays, CloseStays
<1> QED
  BY <1>1, <1>2, <1>3, PTL DEF LifecycleSpec

=============================================================================
