----------------------------- MODULE IoPathProofs -----------------------------
(***************************************************************************)
(* What becomes of a send in IoPath, for queues of any capacity and any    *)
(* number of associations, packets and sends: it is called back once, on a *)
(* live transport, the messages of an association leave in order, and a    *)
(* result or the end of a connection is lost only for a reason that is     *)
(* named.                                                                  *)
(***************************************************************************)
EXTENDS IoPath, TLAPS

\* A leaf that does not name its prover is first-order reasoning, for Zenon.
USE ZenonT(20)

-----------------------------------------------------------------------------
(* Types, and the facts of queues that the proofs use.                       *)

\* The fields of a command
LEMMA CommandFacts ==
    ASSUME NEW command \in Commands
    PROVE  /\ command.kind \in {"receive", "sent", "closed"}
           /\ command.kind = "receive" => command.on \in Channels
           /\ command.kind = "sent" => command.send \in Sends
           /\ command.kind = "closed" => command.on \in Associations
BY DEF Commands

\* What the socket thread queues are commands.
LEMMA CommandsMade ==
    /\ \A c \in Channels : [kind |-> "receive", on |-> c] \in Commands
    /\ \A s \in Sends : [kind |-> "sent", send |-> s] \in Commands
    /\ \A a \in Associations : [kind |-> "closed", on |-> a] \in Commands
BY DEF Commands

\* The channels are the UDP transport and the TCP associations.
LEMMA ChannelFacts ==
    /\ Udp \in Channels /\ Udp \notin Associations
    /\ \A a \in Associations : a \in Channels
    /\ \A c \in Channels : c # Udp => c \in Associations
BY SMT, CapacitiesAssumption DEF Channels, Associations, Udp

\* What Tail does, in the form the steps below use.
LEMMA TailFacts ==
    ASSUME NEW S, NEW s \in Seq(S), s # <<>>
    PROVE  /\ Tail(s) \in Seq(S) /\ Len(Tail(s)) = Len(s) - 1 /\ Len(s) \in Nat \ {0}
           /\ \A i \in 1 .. Len(s) - 1 : Tail(s)[i] = s[i + 1]
           /\ Head(s) = s[1] /\ Head(s) \in S
BY SMT

\* The type invariant, by the thread that owns the variables
SocketType ==
    /\ connection \in [Associations -> {"none", "open", "closed"}]
    /\ writers \subseteq Associations /\ writerUp \subseteq Associations
    /\ writerQueue \in [Associations -> Seq(Sends)]
    /\ reads \in Nat /\ lastWritten \in [Associations -> Nat]
    /\ \A a \in Associations : Len(writerQueue[a]) <= WriterCapacity

QueueType ==
    /\ transmits \in Seq(Sends) /\ Len(transmits) <= IoCapacity
    /\ commands \in Seq(Commands) /\ Len(commands) <= IoCapacity

ShimType ==
    /\ receiveQueue \in Seq(Channels) /\ completionQueue \in Seq(Sends)
    /\ closeQueue \in Seq([on : Associations, io : BOOLEAN])
    /\ delivered \in [Channels -> Nat]
    /\ transport \in [Channels -> Nat] /\ transportSequence \in Nat
    /\ closedEvents \subseteq Associations /\ ioClosed \subseteq Associations
    /\ appCloses \in Nat

SendType ==
    /\ sendSequence \in 0 .. MaxSends
    /\ sendChannel \in [Sends -> Channels] /\ sendTransport \in [Sends -> Nat]
    /\ pendingSends \subseteq Sends /\ refusedSends \subseteq Sends
    /\ callbacks \in [Sends -> Nat]

\* Together they are TypeOK, before and after a step.
LEMMA TypeParts ==
    /\ TypeOK <=> SocketType /\ QueueType /\ ShimType /\ SendType /\ phase \in Phases
    /\ TypeOK' <=> SocketType' /\ QueueType' /\ ShimType' /\ SendType' /\ phase' \in Phases
BY DEF TypeOK, SocketType, QueueType, ShimType, SendType

\* What a step leaves alone keeps its type.
LEMMA QuietTypes ==
    ASSUME TypeOK
    PROVE  /\ UNCHANGED socketVars => SocketType'
           /\ UNCHANGED <<transmits, commands>> => QueueType'
           /\ UNCHANGED <<queueVars, transportVars, historyVars, appCloses>> => ShimType'
           /\ UNCHANGED sendVars => SendType'
           /\ UNCHANGED phase => phase' \in Phases
<1>1. SocketType /\ QueueType /\ ShimType /\ SendType /\ phase \in Phases
  BY TypeParts
<1>2. UNCHANGED socketVars => SocketType'
  BY <1>1 DEF SocketType, socketVars
<1>3. UNCHANGED <<queueVars, transportVars, historyVars, appCloses>> => ShimType'
  BY <1>1 DEF ShimType, queueVars, transportVars, historyVars
<1> QED
  BY <1>1, <1>2, <1>3 DEF QueueType, SendType, sendVars

\* The types hold at the start.
LEMMA TypeInit == Init => TypeOK
BY SMT, CapacitiesAssumption, ChannelFacts
   DEF Init, TypeOK, Phases, Channels, Associations, Sends, Udp, Commands

\* A queue that is full takes no more (try_send).
LEMMA TrySendType ==
    ASSUME TypeOK, NEW command \in Commands, TrySend(command), UNCHANGED transmits
    PROVE  QueueType'
<1>1. QueueType
  BY TypeParts
<1> QED
  BY SMT, <1>1, CapacitiesAssumption DEF QueueType, TrySend

\* The socket thread keeps the types.
LEMMA SocketTypes ==
    ASSUME TypeOK, Socket
    PROVE  TypeOK'
<1>1. SocketType /\ QueueType /\ ShimType /\ SendType
  BY TypeParts
<1>2. UNCHANGED <<phase, queueVars, transportVars, sendVars, historyVars, appCloses>>
  BY DEF Socket, AcceptTcp, ReaderExit, WriterWrites, WriterFails, ReadPacket, WriteTransmit
<1>3. SUFFICES SocketType' /\ QueueType'
  BY <1>2, TypeParts, QuietTypes
<1>4. ASSUME NEW a \in Associations, AcceptTcp(a)
      PROVE  SocketType' /\ QueueType'
  <2>1. SocketType'
    BY <1>1, <1>4 DEF AcceptTcp, SocketType
  <2> QED
    BY <1>4, <2>1, QuietTypes DEF AcceptTcp
<1>5. ASSUME NEW a \in Associations, ReaderExit(a)
      PROVE  SocketType' /\ QueueType'
  <2>1. SocketType'
    BY <1>1, <1>5 DEF ReaderExit, SocketType
  <2> QED
    BY <1>5, <2>1, TrySendType, CommandsMade DEF ReaderExit
<1>6. ASSUME NEW c \in Channels, ReadPacket(c)
      PROVE  SocketType' /\ QueueType'
  <2>1. SocketType'
    BY SMT, <1>1, <1>6 DEF ReadPacket, SocketType
  <2> QED
    BY <1>6, <2>1, TrySendType, CommandsMade DEF ReadPacket
<1>7. ASSUME NEW a \in Associations, WriterWrites(a) \/ WriterFails(a)
      PROVE  SocketType' /\ QueueType'
  <2> DEFINE q == writerQueue[a]
  <2>1. q \in Seq(Sends) /\ q # <<>> /\ Len(q) <= WriterCapacity
    BY <1>1, <1>7 DEF WriterWrites, WriterFails, SocketType
  <2>2. /\ Head(q) \in Sends /\ Head(q) \in Nat /\ Tail(q) \in Seq(Sends)
        /\ Len(Tail(q)) <= WriterCapacity
    <3>1. Head(q) \in Sends /\ Tail(q) \in Seq(Sends) /\ Len(Tail(q)) = Len(q) - 1
          /\ Len(q) \in Nat
      BY <2>1, TailFacts
    <3> QED
      BY SMT, <2>1, <3>1, CapacitiesAssumption DEF Sends
  <2>3. QueueType'
    BY <1>7, <2>2, TrySendType, CommandsMade DEF WriterWrites, WriterFails
  <2> HIDE DEF q
  <2>4. CASE WriterWrites(a)
    <3>1. /\ writerQueue' = [writerQueue EXCEPT ![a] = Tail(q)]
          /\ lastWritten' = [lastWritten EXCEPT ![a] = Head(q)]
          /\ UNCHANGED <<connection, writers, writerUp, reads>>
      BY <2>4 DEF WriterWrites, q
    <3> QED
      BY <1>1, <2>2, <2>3, <3>1 DEF SocketType
  <2>5. CASE WriterFails(a)
    <3>1. /\ writerQueue' = [writerQueue EXCEPT ![a] = <<>>]
          /\ writerUp' = writerUp \ {a}
          /\ UNCHANGED <<connection, writers, reads, lastWritten>>
      BY <2>5 DEF WriterFails
    <3>2. <<>> \in Seq(Sends) /\ Len(<<>>) <= WriterCapacity
      BY SMT, CapacitiesAssumption
    <3> QED
      BY <1>1, <2>3, <3>1, <3>2 DEF SocketType
  <2> QED
    BY <1>7, <2>4, <2>5
<1>8. ASSUME WriteTransmit
      PROVE  SocketType' /\ QueueType'
  <2> DEFINE s == Head(transmits)
             c == sendChannel[s]
  <2>1. transmits \in Seq(Sends) /\ transmits # <<>> /\ Len(transmits) <= IoCapacity
        /\ transmits' = Tail(transmits)
        /\ UNCHANGED <<connection, writers, writerUp, reads, lastWritten>>
    BY <1>1, <1>8 DEF WriteTransmit, QueueType
  <2>2. s \in Sends /\ transmits' \in Seq(Sends) /\ Len(transmits') <= IoCapacity
    <3>1. /\ s \in Sends /\ transmits' \in Seq(Sends)
          /\ Len(transmits') = Len(transmits) - 1 /\ Len(transmits) \in Nat
      BY <2>1, TailFacts
    <3> QED
      BY SMT, <2>1, <3>1, CapacitiesAssumption
  <2>3. c \in Channels
    BY <1>1, <2>2 DEF SendType
  <2>4. \/ /\ c # Udp /\ WriterAccepts(c)
           /\ writerQueue' = [writerQueue EXCEPT ![c] = Append(@, s)]
           /\ UNCHANGED commands
        \/ TrySend([kind |-> "sent", send |-> s]) /\ UNCHANGED writerQueue
    BY <1>8 DEF WriteTransmit
  <2> HIDE DEF s, c
  <2>5. CASE TrySend([kind |-> "sent", send |-> s]) /\ UNCHANGED writerQueue
    <3>1. [kind |-> "sent", send |-> s] \in Commands
      BY <2>2, CommandsMade
    <3>2. QueueType'
      BY SMT, <1>1, <2>2, <2>5, <3>1, CapacitiesAssumption DEF QueueType, TrySend
    <3> QED
      BY <2>1, <2>5, <3>2, QuietTypes DEF socketVars
  <2>6. CASE /\ c # Udp /\ WriterAccepts(c)
             /\ writerQueue' = [writerQueue EXCEPT ![c] = Append(@, s)]
             /\ UNCHANGED commands
    <3>1. c \in Associations /\ writerQueue[c] \in Seq(Sends)
      BY <1>1, <2>3, <2>6, ChannelFacts DEF SocketType
    <3>2. /\ Append(writerQueue[c], s) \in Seq(Sends)
          /\ Len(Append(writerQueue[c], s)) <= WriterCapacity
      BY SMT, <2>2, <2>6, <3>1, CapacitiesAssumption DEF WriterAccepts
    <3>3. QueueType'
      BY <1>1, <2>2, <2>6 DEF QueueType
    <3> QED
      BY <1>1, <2>1, <2>6, <3>1, <3>2, <3>3 DEF SocketType
  <2> QED
    BY <2>4, <2>5, <2>6
<1> QED
  BY <1>4, <1>5, <1>6, <1>7, <1>8 DEF Socket

\* A callback is counted.
LEMMA CallBackType ==
    ASSUME TypeOK, NEW settled, CallBack(settled)
    PROVE  callbacks' \in [Sends -> Nat]
BY SMT DEF TypeOK, CallBack

\* A poll keeps the types.
LEMMA PollTypes ==
    ASSUME TypeOK, Poll
    PROVE  TypeOK'
<1>1. SocketType /\ QueueType /\ ShimType /\ SendType
  BY TypeParts
<1>2. UNCHANGED <<socketVars, transmits>>
  BY DEF Poll, BeginPoll, DrainCommand, NextPhase, ProcessCompletion, ProcessReceive,
         ProcessClose
<1>3. SocketType'
  BY <1>2, QuietTypes
<1>4. CASE BeginPoll \/ NextPhase
  <2>1. phase' \in Phases
    BY <1>4 DEF BeginPoll, NextPhase, GoTo, Phases
  <2> QED
    BY <1>3, <1>4, <2>1, TypeParts, QuietTypes DEF BeginPoll, NextPhase
<1>5. CASE DrainCommand
  <2> DEFINE command == Head(commands)
  <2>1. commands \in Seq(Commands) /\ commands # <<>> /\ Len(commands) <= IoCapacity
        /\ commands' = Tail(commands)
    BY <1>1, <1>5 DEF DrainCommand, QueueType
  <2>2. command \in Commands /\ commands' \in Seq(Commands) /\ Len(commands') <= IoCapacity
    <3>1. /\ command \in Commands /\ commands' \in Seq(Commands)
          /\ Len(commands') = Len(commands) - 1 /\ Len(commands) \in Nat
      BY <2>1, TailFacts
    <3> QED
      BY SMT, <2>1, <3>1, CapacitiesAssumption
  <2>3. UNCHANGED <<phase, transportVars, sendVars, delivered, ioClosed, appCloses>>
    BY <1>5 DEF DrainCommand
  <2>4. ReceivePacket(command) \/ CompleteSend(command) \/ TransportClosed(command)
    BY <1>5 DEF DrainCommand
  <2> HIDE DEF command
  <2>5. ReceivePacket(command) => ShimType'
    <3> HAVE ReceivePacket(command)
    <3>1. command.on \in Channels
      BY <2>2, CommandFacts DEF ReceivePacket
    <3> QED
      BY SMT, <1>1, <2>3, <3>1 DEF ReceivePacket, ShimType, transportVars
  <2>6. CompleteSend(command) => ShimType'
    <3> HAVE CompleteSend(command)
    <3>1. command.send \in Sends
      BY <2>2, CommandFacts DEF CompleteSend
    <3> QED
      BY SMT, <1>1, <2>3, <3>1 DEF CompleteSend, ShimType, transportVars
  <2>7. TransportClosed(command) => ShimType'
    <3> HAVE TransportClosed(command)
    <3>1. command.on \in Associations
      BY <2>2, CommandFacts DEF TransportClosed
    <3>2. [on |-> command.on, io |-> TRUE] \in [on : Associations, io : BOOLEAN]
      BY <3>1
    <3> QED
      BY SMT, <1>1, <2>3, <3>1, <3>2 DEF TransportClosed, ShimType, transportVars
  <2>8. ShimType'
    BY <2>4, <2>5, <2>6, <2>7
  <2>9. QueueType'
    BY <1>1, <1>2, <2>2 DEF QueueType
  <2> QED
    BY <1>3, <2>3, <2>8, <2>9, TypeParts, QuietTypes
<1>6. CASE ProcessCompletion
  <2>1. callbacks' \in [Sends -> Nat] /\ pendingSends' \subseteq pendingSends
    BY <1>6, CallBackType DEF ProcessCompletion
  <2>2. completionQueue' \in Seq(Sends)
    BY <1>1, <1>6, TailFacts DEF ProcessCompletion, ShimType
  <2>3. UNCHANGED <<commands, phase, receiveQueue, closeQueue, transportVars, sendSequence,
                    sendChannel, sendTransport, refusedSends, historyVars, appCloses>>
    BY <1>6 DEF ProcessCompletion
  <2>4. ShimType' /\ SendType'
    BY <1>1, <2>1, <2>2, <2>3 DEF ShimType, SendType, transportVars, historyVars
  <2> QED
    BY <1>2, <1>3, <2>3, <2>4, TypeParts, QuietTypes
<1>7. CASE ProcessReceive
  <2> DEFINE c == Head(receiveQueue)
  <2>1. receiveQueue' \in Seq(Channels) /\ c \in Channels
    BY <1>1, <1>7, TailFacts DEF ProcessReceive, ShimType
  <2>2. /\ delivered' = [delivered EXCEPT ![c] = @ + 1]
        /\ \/ UNCHANGED transportVars
           \/ /\ transportSequence' = transportSequence + 1
              /\ transport' = [transport EXCEPT ![c] = transportSequence + 1]
    BY <1>7 DEF ProcessReceive
  <2>3. UNCHANGED <<commands, phase, completionQueue, closeQueue, sendVars, closedEvents,
                    ioClosed, appCloses>>
    BY <1>7 DEF ProcessReceive
  <2> HIDE DEF c
  <2>4. /\ delivered' \in [Channels -> Nat] /\ transport' \in [Channels -> Nat]
        /\ transportSequence' \in Nat
    BY SMT, <1>1, <2>1, <2>2 DEF ShimType, transportVars
  <2>5. ShimType'
    BY <1>1, <2>1, <2>3, <2>4 DEF ShimType
  <2> QED
    BY <1>2, <1>3, <2>3, <2>5, TypeParts, QuietTypes
<1>8. CASE ProcessClose
  <2> DEFINE close == Head(closeQueue)
  <2>1. /\ closeQueue' \in Seq([on : Associations, io : BOOLEAN])
        /\ close \in [on : Associations, io : BOOLEAN]
    BY <1>1, <1>8, TailFacts DEF ProcessClose, ShimType
  <2>2. close.on \in Associations /\ close.on \in Channels
    BY <2>1, ChannelFacts
  <2>3. callbacks' \in [Sends -> Nat] /\ pendingSends' \subseteq pendingSends
    BY <1>8, CallBackType DEF ProcessClose
  <2>4. /\ transport' = [transport EXCEPT ![close.on] = 0]
        /\ ioClosed' \subseteq ioClosed \cup {close.on}
        /\ UNCHANGED <<commands, phase, receiveQueue, completionQueue, transportSequence,
                       sendSequence, sendChannel, sendTransport, refusedSends, delivered,
                       closedEvents, appCloses>>
    BY <1>8 DEF ProcessClose
  <2> HIDE DEF close
  <2>5. ShimType' /\ SendType'
    BY <1>1, <2>1, <2>2, <2>3, <2>4 DEF ShimType, SendType
  <2> QED
    BY <1>2, <1>3, <2>4, <2>5, TypeParts, QuietTypes
<1> QED
  BY <1>4, <1>5, <1>6, <1>7, <1>8 DEF Poll

\* What PJSIP and the application do keeps them.
LEMMA OwnerTypes ==
    ASSUME TypeOK, (\E c \in Channels : TransportSend(c)) \/ Application
    PROVE  TypeOK'
<1>1. SocketType /\ QueueType /\ ShimType /\ SendType
  BY TypeParts
<1>2. ASSUME NEW c \in Channels, TransportSend(c)
      PROVE  TypeOK'
  <2> DEFINE s == sendSequence + 1
  <2>1. s \in Sends /\ sendSequence' \in 0 .. MaxSends
    BY SMT, <1>1, <1>2, CapacitiesAssumption DEF TransportSend, SendType, Sends
  <2>2. /\ sendChannel' = [sendChannel EXCEPT ![s] = c]
        /\ sendTransport' = [sendTransport EXCEPT ![s] = transport[c]]
        /\ UNCHANGED <<socketVars, commands, phase, queueVars, transportVars, callbacks,
                       historyVars, appCloses>>
        /\ \/ /\ Len(transmits) < IoCapacity
              /\ transmits' = Append(transmits, s)
              /\ pendingSends' = pendingSends \cup {s}
              /\ UNCHANGED refusedSends
           \/ refusedSends' = refusedSends \cup {s} /\ UNCHANGED <<transmits, pendingSends>>
    BY <1>2 DEF TransportSend
  <2> HIDE DEF s
  <2>3. transport[c] \in Nat
    BY <1>1 DEF ShimType
  <2>4. SendType'
    BY <1>1, <2>1, <2>2, <2>3 DEF SendType
  <2>5. QueueType'
    BY SMT, <1>1, <2>1, <2>2, CapacitiesAssumption DEF QueueType
  <2> QED
    BY <2>2, <2>4, <2>5, TypeParts, QuietTypes
<1>3. ASSUME NEW a \in Associations, AppClose(a)
      PROVE  TypeOK'
  <2>1. /\ closeQueue' = Append(closeQueue, [on |-> a, io |-> FALSE]) /\ appCloses' = appCloses + 1
        /\ UNCHANGED <<socketVars, transmits, commands, phase, receiveQueue, completionQueue,
                       transportVars, sendVars, historyVars>>
    BY <1>3 DEF AppClose
  <2>2. [on |-> a, io |-> FALSE] \in [on : Associations, io : BOOLEAN]
    OBVIOUS
  <2>3. ShimType'
    BY SMT, <1>1, <2>1, <2>2 DEF ShimType, transportVars, historyVars
  <2> QED
    BY <2>1, <2>3, TypeParts, QuietTypes
<1>4. ASSUME Stop
      PROVE  TypeOK'
  <2>1. callbacks' \in [Sends -> Nat] /\ phase' \in Phases
    BY <1>4, CallBackType DEF Stop, GoTo, Phases
  <2>2. ShimType' /\ SendType'
    BY SMT, <1>1, <1>4, <2>1 DEF Stop, ShimType, SendType, historyVars
  <2> QED
    BY <1>4, <2>1, <2>2, TypeParts, QuietTypes DEF Stop
<1> QED
  BY <1>2, <1>3, <1>4 DEF Application

-----------------------------------------------------------------------------
\* What is known of sends: a send that was not made yet was not called back, a pending
\* one was not refused, and it was made on a transport.
SendInv ==
    /\ pendingSends \cup refusedSends \subseteq 1 .. sendSequence
    /\ pendingSends \cap refusedSends = {}
    /\ \A s \in Sends : s > sendSequence => callbacks[s] = 0
    /\ \A s \in pendingSends : sendTransport[s] # 0
    /\ SettledExactlyOnce /\ PendingOnLiveTransport

\* At the start nothing was sent.
LEMMA SendInit == Init => SendInv
BY SMT, CapacitiesAssumption DEF Init, SendInv, SettledExactlyOnce, PendingOnLiveTransport, Sends

\* Most steps make no send and settle none.
LEMMA SendQuiet ==
    ASSUME SendInv, UNCHANGED <<sendVars, transport>>
    PROVE  SendInv'
BY DEF SendInv, SettledExactlyOnce, PendingOnLiveTransport, sendVars

\* Pending sends are called back and leave the list (gmv_process_send_completions,
\* gmv_fail_transport_sends, gmv_runtime_release).
LEMMA Settling ==
    ASSUME TypeOK, SendInv, NEW settled \in SUBSET pendingSends,
           pendingSends' = pendingSends \ settled, CallBack(settled),
           UNCHANGED <<sendSequence, refusedSends>>
    PROVE  /\ pendingSends' \cup refusedSends' \subseteq 1 .. sendSequence'
           /\ pendingSends' \cap refusedSends' = {}
           /\ \A s \in Sends : s > sendSequence' => callbacks'[s] = 0
           /\ SettledExactlyOnce'
<1>1. 1 .. sendSequence \subseteq Sends /\ sendSequence \in Nat
  BY SMT, CapacitiesAssumption DEF TypeOK, Sends
<1>2. /\ pendingSends' \cup refusedSends' \subseteq 1 .. sendSequence'
      /\ pendingSends' \cap refusedSends' = {}
  BY DEF SendInv
<1>3. ASSUME NEW s \in Sends, s > sendSequence'
      PROVE  callbacks'[s] = 0
  <2>1. s \notin settled
    BY SMT, <1>1, <1>3 DEF SendInv
  <2> QED
    BY <1>3, <2>1 DEF CallBack, SendInv
<1>4. ASSUME NEW s \in 1 .. sendSequence'
      PROVE  callbacks'[s] = IF s \in pendingSends' \cup refusedSends' THEN 0 ELSE 1
  <2>1. s \in Sends /\ s \in 1 .. sendSequence
    BY <1>1, <1>4
  <2>2. callbacks[s] = IF s \in pendingSends \cup refusedSends THEN 0 ELSE 1
    BY <2>1 DEF SendInv, SettledExactlyOnce
  <2>3. callbacks'[s] = IF s \in settled THEN callbacks[s] + 1 ELSE callbacks[s]
    BY <2>1 DEF CallBack
  <2> QED
    BY SMT, <2>2, <2>3 DEF SendInv
<1> QED
  BY <1>2, <1>3, <1>4 DEF SettledExactlyOnce

\* The steps of the owner thread keep it.
LEMMA ProcessSends ==
    ASSUME TypeOK, SendInv, ProcessCompletion \/ ProcessReceive \/ ProcessClose
    PROVE  SendInv'
<1>1. CASE ProcessCompletion
  <2> DEFINE settled == pendingSends \cap {Head(completionQueue)}
  <2>1. /\ pendingSends' = pendingSends \ settled /\ CallBack(settled)
        /\ UNCHANGED <<sendSequence, refusedSends, sendChannel, sendTransport, transport>>
    BY <1>1 DEF ProcessCompletion, transportVars
  <2>2. settled \in SUBSET pendingSends
    OBVIOUS
  <2> HIDE DEF settled
  <2>3. PendingOnLiveTransport' /\ \A s \in pendingSends' : sendTransport'[s] # 0
    BY <2>1 DEF SendInv, PendingOnLiveTransport
  <2> QED
    BY <2>1, <2>2, <2>3, Settling DEF SendInv
<1>2. CASE ProcessReceive
  <2> DEFINE c == Head(receiveQueue)
  <2>1. \/ UNCHANGED transport
        \/ transport[c] = 0 /\ transport' = [transport EXCEPT ![c] = transportSequence + 1]
    BY <1>2 DEF ProcessReceive, transportVars
  <2>2. UNCHANGED sendVars
    BY <1>2 DEF ProcessReceive
  <2> HIDE DEF c
  <2>3. ASSUME NEW s \in pendingSends
        PROVE  sendTransport[s] = transport'[sendChannel[s]]
    <3>1. sendTransport[s] = transport[sendChannel[s]] /\ sendTransport[s] # 0
      BY DEF SendInv, PendingOnLiveTransport
    <3>2. sendChannel[s] \in Channels
      BY DEF TypeOK
    <3> QED
      BY <2>1, <3>1, <3>2 DEF TypeOK
  <2> QED
    BY <2>2, <2>3 DEF SendInv, SettledExactlyOnce, PendingOnLiveTransport, sendVars
<1>3. CASE ProcessClose
  <2> DEFINE on == Head(closeQueue).on
             settled == SendsOn(transport[on])
  <2>1. /\ pendingSends' = pendingSends \ settled /\ CallBack(settled)
        /\ transport' = [transport EXCEPT ![on] = 0]
        /\ UNCHANGED <<sendSequence, refusedSends, sendChannel, sendTransport>>
    BY <1>3 DEF ProcessClose
  <2> HIDE DEF on
  <2>2. settled \in SUBSET pendingSends
    BY DEF SendsOn
  <2>3. ASSUME NEW s \in pendingSends'
        PROVE  sendTransport'[s] = transport'[sendChannel'[s]] /\ sendTransport'[s] # 0
    <3>1. s \in pendingSends /\ sendTransport[s] # transport[on]
      BY <2>1, <2>3 DEF SendsOn
    <3>2. sendTransport[s] = transport[sendChannel[s]] /\ sendTransport[s] # 0
      BY <3>1 DEF SendInv, PendingOnLiveTransport
    <3>3. sendChannel[s] \in Channels
      BY <3>1 DEF TypeOK
    <3> QED
      BY <2>1, <3>1, <3>2, <3>3 DEF TypeOK
  <2> HIDE DEF settled
  <2> QED
    BY <2>1, <2>2, <2>3, Settling DEF SendInv, PendingOnLiveTransport
<1> QED
  BY <1>1, <1>2, <1>3

\* stop calls back whatever is pending.
LEMMA StopSends ==
    ASSUME TypeOK, SendInv, Stop
    PROVE  SendInv'
<1>1. /\ pendingSends' = pendingSends \ pendingSends /\ CallBack(pendingSends)
      /\ UNCHANGED <<sendSequence, refusedSends>>
  BY DEF Stop
<1>2. pendingSends' = {}
  BY <1>1
<1> QED
  BY <1>1, <1>2, Settling DEF SendInv, PendingOnLiveTransport

\* A new send is pending on the transport it goes out on, or refused.
LEMMA TransportSends ==
    ASSUME TypeOK, SendInv, NEW c \in Channels, TransportSend(c)
    PROVE  SendInv'
<1> DEFINE n == sendSequence + 1
<1>1. /\ sendSequence' = n /\ n \in Sends /\ sendSequence \in Nat
      /\ 1 .. n = (1 .. sendSequence) \cup {n} /\ n \notin 1 .. sendSequence
  <2>1. sendSequence \in Nat /\ sendSequence < MaxSends /\ sendSequence' = sendSequence + 1
    BY SMT, CapacitiesAssumption DEF TransportSend, TypeOK
  <2> QED
    BY SMT, <2>1, CapacitiesAssumption DEF Sends
<1>2. /\ sendChannel' = [sendChannel EXCEPT ![n] = c]
      /\ sendTransport' = [sendTransport EXCEPT ![n] = transport[c]]
      /\ transport[c] # 0 /\ UNCHANGED <<callbacks, transport>>
  BY DEF TransportSend, transportVars
<1>3. \/ pendingSends' = pendingSends \cup {n} /\ UNCHANGED refusedSends
      \/ refusedSends' = refusedSends \cup {n} /\ UNCHANGED pendingSends
  BY DEF TransportSend
<1> HIDE DEF n
<1>4. n \notin pendingSends \cup refusedSends /\ callbacks[n] = 0
  BY SMT, <1>1 DEF SendInv, n
<1>5. /\ pendingSends' \cup refusedSends' \subseteq 1 .. sendSequence'
      /\ pendingSends' \cap refusedSends' = {}
  BY <1>1, <1>3, <1>4 DEF SendInv
<1>6. \A s \in Sends : s > sendSequence' => callbacks'[s] = 0
  BY SMT, <1>1, <1>2 DEF SendInv, Sends, n
<1>7. ASSUME NEW s \in 1 .. sendSequence'
      PROVE  callbacks'[s] = IF s \in pendingSends' \cup refusedSends' THEN 0 ELSE 1
  <2>1. CASE s = n
    BY <1>2, <1>3, <1>4, <2>1
  <2>2. CASE s # n
    <3>1. s \in 1 .. sendSequence
      BY <1>1, <1>7, <2>2
    <3>2. callbacks[s] = IF s \in pendingSends \cup refusedSends THEN 0 ELSE 1
      BY <3>1 DEF SendInv, SettledExactlyOnce
    <3> QED
      BY <1>2, <1>3, <2>2, <3>2
  <2> QED
    BY <2>1, <2>2
<1>8. ASSUME NEW s \in pendingSends'
      PROVE  sendTransport'[s] = transport'[sendChannel'[s]] /\ sendTransport'[s] # 0
  <2>1. CASE s = n
    BY <1>1, <1>2, <2>1 DEF TypeOK
  <2>2. CASE s # n
    <3>1. s \in pendingSends /\ s \in Sends
      BY <1>3, <1>8, <2>2 DEF TypeOK
    <3> QED
      BY <1>2, <2>2, <3>1 DEF SendInv, PendingOnLiveTransport, TypeOK
  <2> QED
    BY <2>1, <2>2
<1> QED
  BY <1>5, <1>6, <1>7, <1>8 DEF SendInv, SettledExactlyOnce, PendingOnLiveTransport

-----------------------------------------------------------------------------
Rising(s) == \A i, j \in 1 .. Len(s) : i < j => s[i] < s[j]

\* The messages of an association are in the order of their numbers: what was written,
\* what the writer task has, what waits in the transmit queue.
AssociationInv(a) ==
    /\ lastWritten[a] <= sendSequence /\ Rising(writerQueue[a])
    /\ \A i \in 1 .. Len(writerQueue[a]) :
          lastWritten[a] < writerQueue[a][i] /\ writerQueue[a][i] <= sendSequence
    /\ \A j \in 1 .. Len(transmits) : sendChannel[transmits[j]] = a =>
          /\ lastWritten[a] < transmits[j]
          /\ \A i \in 1 .. Len(writerQueue[a]) : writerQueue[a][i] < transmits[j]

OrderInv ==
    /\ Rising(transmits) /\ \A i \in 1 .. Len(transmits) : transmits[i] <= sendSequence
    /\ \A a \in Associations : AssociationInv(a)

\* Sends are numbers.
LEMMA SendNumbers ==
    ASSUME NEW q \in Seq(Sends)
    PROVE  Len(q) \in Nat /\ \A i \in 1 .. Len(q) : q[i] \in Sends /\ q[i] \in Nat
<1>1. \A s \in Sends : s \in Nat
  BY SMT DEF Sends
<1> QED
  BY SMT, <1>1

\* At the start all queues are empty.
LEMMA OrderInit == Init => OrderInv
BY SMT DEF Init, OrderInv, AssociationInv, Rising

\* Steps that touch no queue of messages keep the order.
LEMMA OrderQuiet ==
    ASSUME OrderInv,
           UNCHANGED <<transmits, writerQueue, lastWritten, sendSequence, sendChannel>>
    PROVE  OrderInv'
BY DEF OrderInv, AssociationInv, Rising

\* A writer task takes the first of its queue, or gives up.
LEMMA WriterOrder ==
    ASSUME TypeOK, OrderInv, NEW a \in Associations, WriterWrites(a) \/ WriterFails(a)
    PROVE  OrderInv' /\ \A b \in Associations : lastWritten'[b] >= lastWritten[b]
<1> DEFINE q == writerQueue[a]
<1>1. q \in Seq(Sends) /\ q # <<>>
      /\ UNCHANGED <<transmits, sendSequence, sendChannel>>
  BY DEF WriterWrites, WriterFails, TypeOK, sendVars
<1>2. /\ Len(q) \in Nat \ {0} /\ Len(Tail(q)) = Len(q) - 1 /\ Head(q) = q[1]
      /\ \A i \in 1 .. Len(q) - 1 : Tail(q)[i] = q[i + 1]
  BY <1>1, TailFacts
<1>3. ASSUME NEW b \in Associations, b # a
      PROVE  writerQueue'[b] = writerQueue[b] /\ lastWritten'[b] = lastWritten[b]
  <2>1. writerQueue \in [Associations -> Seq(Sends)] /\ lastWritten \in [Associations -> Nat]
    BY DEF TypeOK
  <2>2. CASE WriterWrites(a)
    BY <1>3, <2>1, <2>2 DEF WriterWrites
  <2>3. CASE WriterFails(a)
    BY <1>3, <2>1, <2>3 DEF WriterFails
  <2> QED
    BY <2>2, <2>3
<1>4. ASSUME NEW b \in Associations, b # a
      PROVE  AssociationInv(b)'
  <2>1. AssociationInv(b)
    BY DEF OrderInv
  <2>2. UNCHANGED <<transmits, sendSequence, sendChannel>>
        /\ writerQueue'[b] = writerQueue[b] /\ lastWritten'[b] = lastWritten[b]
    BY <1>1, <1>3, <1>4
  <2> QED
    BY <2>1, <2>2 DEF AssociationInv, Rising
<1>5. lastWritten[a] \in Nat /\ \A i \in 1 .. Len(q) : q[i] \in Nat
  BY <1>1, SendNumbers DEF TypeOK
<1>7. AssociationInv(a)' /\ lastWritten'[a] >= lastWritten[a]
  <2>1. CASE WriterWrites(a)
    <3>1. writerQueue'[a] = Tail(q) /\ lastWritten'[a] = q[1]
      BY <1>2, <2>1 DEF WriterWrites, TypeOK
    <3> HIDE DEF q
    <3>2. /\ lastWritten[a] < q[1] /\ q[1] <= sendSequence
          /\ \A i, j \in 1 .. Len(q) : i < j => q[i] < q[j]
          /\ \A i \in 1 .. Len(q) : q[i] <= sendSequence
          /\ \A j \in 1 .. Len(transmits) : sendChannel[transmits[j]] = a =>
                \A i \in 1 .. Len(q) : q[i] < transmits[j]
      <4>1. AssociationInv(a)
        BY DEF OrderInv
      <4>2. /\ \A i \in 1 .. Len(q) : lastWritten[a] < q[i] /\ q[i] <= sendSequence
            /\ \A i, j \in 1 .. Len(q) : i < j => q[i] < q[j]
            /\ \A j \in 1 .. Len(transmits) : sendChannel[transmits[j]] = a =>
                  \A i \in 1 .. Len(q) : q[i] < transmits[j]
        BY <4>1 DEF AssociationInv, Rising, q
      <4>3. 1 \in 1 .. Len(q)
        BY SMT, <1>2
      <4> QED
        BY <4>2, <4>3
    <3>3. \A i \in 1 .. Len(Tail(q)) : Tail(q)[i] = q[i + 1] /\ i + 1 \in 1 .. Len(q) /\ 1 < i + 1
      BY SMT, <1>2
    <3>4. Rising(Tail(q))
      <4> SUFFICES ASSUME NEW i \in 1 .. Len(Tail(q)), NEW j \in 1 .. Len(Tail(q)), i < j
                   PROVE  Tail(q)[i] < Tail(q)[j]
        BY DEF Rising
      <4> QED
        BY SMT, <3>2, <3>3, <1>2
    <3>5. \A i \in 1 .. Len(Tail(q)) : q[1] < Tail(q)[i] /\ Tail(q)[i] <= sendSequence
      BY SMT, <1>2, <3>2, <3>3
    <3>6. \A j \in 1 .. Len(transmits) : sendChannel[transmits[j]] = a =>
             /\ q[1] < transmits[j]
             /\ \A i \in 1 .. Len(Tail(q)) : Tail(q)[i] < transmits[j]
      BY SMT, <1>2, <3>2, <3>3
    <3>7. lastWritten'[a] >= lastWritten[a]
      BY SMT, <1>2, <1>5, <3>1, <3>2
    <3> QED
      BY <1>1, <3>1, <3>2, <3>4, <3>5, <3>6, <3>7 DEF AssociationInv
  <2>2. CASE WriterFails(a)
    <3>1. writerQueue'[a] = <<>> /\ lastWritten'[a] = lastWritten[a]
      BY <2>2 DEF WriterFails, TypeOK
    <3> QED
      BY SMT, <1>1, <1>5, <3>1 DEF OrderInv, AssociationInv, Rising
  <2> QED
    BY <2>1, <2>2
<1>8. ASSUME NEW b \in Associations
      PROVE  lastWritten'[b] >= lastWritten[b]
  <2>1. lastWritten[b] \in Nat
    BY DEF TypeOK
  <2> QED
    BY SMT, <1>3, <1>7, <2>1
<1>9. Rising(transmits)' /\ (\A i \in 1 .. Len(transmits) : transmits[i] <= sendSequence)'
  BY <1>1 DEF OrderInv, Rising
<1> QED
  BY <1>4, <1>7, <1>8, <1>9 DEF OrderInv

\* A message goes to its writer when it is the first to go.
LEMMA TransmitOrder ==
    ASSUME TypeOK, OrderInv, WriteTransmit
    PROVE  OrderInv' /\ UNCHANGED lastWritten
<1> DEFINE s == Head(transmits)
           c == sendChannel[s]
           n == Len(transmits)
<1>1. transmits \in Seq(Sends) /\ transmits # <<>> /\ transmits' = Tail(transmits)
      /\ UNCHANGED <<lastWritten, sendSequence, sendChannel>>
  BY DEF WriteTransmit, TypeOK, sendVars
<1>2. /\ n \in Nat \ {0} /\ Len(transmits') = n - 1 /\ s = transmits[1] /\ s \in Sends
      /\ \A i \in 1 .. n - 1 : transmits'[i] = transmits[i + 1]
  BY <1>1, TailFacts
<1>3. \/ UNCHANGED writerQueue
      \/ c # Udp /\ writerQueue' = [writerQueue EXCEPT ![c] = Append(@, s)]
  BY DEF WriteTransmit
<1>4. c \in Channels
  BY <1>2 DEF TypeOK
<1>5. \A i \in 1 .. n : transmits[i] \in Nat
  BY <1>1, SendNumbers
<1> HIDE DEF s, c, n
<1>6. /\ \A i, j \in 1 .. n : i < j => transmits[i] < transmits[j]
      /\ \A i \in 1 .. n : transmits[i] <= sendSequence
  BY DEF OrderInv, Rising, n
<1>7. \A i \in 1 .. n - 1 : i + 1 \in 1 .. n /\ transmits'[i] = transmits[i + 1] /\ 1 < i + 1
  BY SMT, <1>2
<1>8. Rising(transmits)' /\ (\A i \in 1 .. Len(transmits) : transmits[i] <= sendSequence)'
  <2>1. ASSUME NEW i \in 1 .. n - 1, NEW j \in 1 .. n - 1, i < j
        PROVE  transmits'[i] < transmits'[j]
    BY SMT, <1>2, <1>6, <1>7, <2>1
  <2>2. \A i \in 1 .. n - 1 : transmits'[i] <= sendSequence'
    BY <1>1, <1>6, <1>7
  <2> QED
    BY <1>2, <2>1, <2>2 DEF Rising
<1>9. ASSUME NEW a \in Associations
      PROVE  AssociationInv(a)'
  <2> DEFINE q == writerQueue[a]
  <2>1. q \in Seq(Sends)
    BY DEF TypeOK
  <2>2. /\ lastWritten[a] <= sendSequence
        /\ \A i, j \in 1 .. Len(q) : i < j => q[i] < q[j]
        /\ \A i \in 1 .. Len(q) : lastWritten[a] < q[i] /\ q[i] <= sendSequence
        /\ \A j \in 1 .. n : sendChannel[transmits[j]] = a =>
              /\ lastWritten[a] < transmits[j]
              /\ \A i \in 1 .. Len(q) : q[i] < transmits[j]
    <3>1. AssociationInv(a)
      BY DEF OrderInv
    <3> QED
      BY <3>1 DEF AssociationInv, Rising, n
  <2>3. CASE writerQueue'[a] = q
    <3>1. \A j \in 1 .. n - 1 : sendChannel[transmits'[j]] = a =>
             /\ lastWritten[a] < transmits'[j]
             /\ \A i \in 1 .. Len(q) : q[i] < transmits'[j]
      BY <1>7, <2>2
    <3> QED
      BY <1>1, <1>2, <2>2, <2>3, <3>1 DEF AssociationInv, Rising
  <2>4. CASE a = c /\ writerQueue'[a] = Append(q, s)
    <3>1. /\ Len(q) \in Nat /\ Len(writerQueue'[a]) = Len(q) + 1
          /\ writerQueue'[a][Len(q) + 1] = s
          /\ \A i \in 1 .. Len(q) : writerQueue'[a][i] = q[i]
      BY SMT, <1>2, <2>1, <2>4
    <3> HIDE DEF q
    <3>2. /\ lastWritten[a] < s /\ s <= sendSequence
          /\ \A i \in 1 .. Len(q) : q[i] < s
      BY SMT, <1>2, <1>6, <2>2, <2>4 DEF c
    <3>3. Rising(writerQueue'[a])
      <4> SUFFICES ASSUME NEW i \in 1 .. Len(q) + 1, NEW j \in 1 .. Len(q) + 1, i < j
                   PROVE  writerQueue'[a][i] < writerQueue'[a][j]
        BY <3>1 DEF Rising
      <4>1. i \in 1 .. Len(q)
        BY SMT, <3>1
      <4>2. CASE j = Len(q) + 1
        BY <3>1, <3>2, <4>1, <4>2
      <4>3. CASE j \in 1 .. Len(q)
        BY <2>2, <3>1, <4>1, <4>3
      <4> QED
        BY SMT, <3>1, <4>2, <4>3
    <3>4. \A i \in 1 .. Len(writerQueue'[a]) :
             lastWritten[a] < writerQueue'[a][i] /\ writerQueue'[a][i] <= sendSequence
      BY SMT, <2>2, <3>1, <3>2
    <3>5. ASSUME NEW j \in 1 .. n - 1, sendChannel[transmits'[j]] = a
          PROVE  /\ lastWritten[a] < transmits'[j]
                 /\ \A i \in 1 .. Len(writerQueue'[a]) : writerQueue'[a][i] < transmits'[j]
      <4>1. /\ lastWritten[a] < transmits'[j]
            /\ \A i \in 1 .. Len(q) : q[i] < transmits'[j]
        BY <1>7, <2>2, <3>5
      <4>2. s < transmits'[j]
        BY SMT, <1>2, <1>6, <1>7
      <4> QED
        BY SMT, <3>1, <4>1, <4>2
    <3> QED
      BY <1>1, <1>2, <2>2, <3>3, <3>4, <3>5 DEF AssociationInv
  <2> QED
    BY <1>3, <1>4, <2>3, <2>4, ChannelFacts DEF TypeOK
<1> QED
  BY <1>1, <1>8, <1>9 DEF OrderInv

\* A new message is the last of all.
LEMMA SendOrder ==
    ASSUME TypeOK, OrderInv, NEW c \in Channels, TransportSend(c)
    PROVE  OrderInv' /\ UNCHANGED lastWritten
<1> DEFINE s == sendSequence + 1
           n == Len(transmits)
<1>1. /\ sendSequence' = s /\ sendSequence \in Nat /\ sendChannel' = [sendChannel EXCEPT ![s] = c]
      /\ UNCHANGED <<writerQueue, lastWritten>>
      /\ UNCHANGED transmits \/ transmits' = Append(transmits, s)
  BY SMT, CapacitiesAssumption DEF TransportSend, TypeOK, socketVars
<1>2. transmits \in Seq(Sends) /\ n \in Nat /\ s \in Sends
      /\ \A i \in 1 .. n : transmits[i] \in Nat /\ transmits[i] \in Sends
  <2>1. s \in Sends
    BY SMT, CapacitiesAssumption DEF TransportSend, TypeOK, Sends
  <2>2. transmits \in Seq(Sends)
    BY DEF TypeOK
  <2> QED
    BY <2>1, <2>2, SendNumbers
<1>3. /\ n <= Len(transmits') /\ Len(transmits') <= n + 1 /\ Len(transmits') \in Nat
      /\ \A i \in 1 .. n : transmits'[i] = transmits[i]
      /\ Len(transmits') = n + 1 => transmits'[n + 1] = s
  BY SMT, <1>1, <1>2
<1> HIDE DEF n
<1>4. /\ \A i, j \in 1 .. n : i < j => transmits[i] < transmits[j]
      /\ \A i \in 1 .. n : transmits[i] <= sendSequence
  BY DEF OrderInv, Rising, n
<1>5. Rising(transmits)'
  <2> SUFFICES ASSUME NEW i \in 1 .. Len(transmits'), NEW j \in 1 .. Len(transmits'), i < j
               PROVE  transmits'[i] < transmits'[j]
    BY DEF Rising
  <2>1. i \in 1 .. n
    BY SMT, <1>2, <1>3
  <2>2. CASE j \in 1 .. n
    BY <1>3, <1>4, <2>1, <2>2
  <2>3. CASE j = n + 1
    BY SMT, <1>1, <1>2, <1>3, <1>4, <2>1, <2>3
  <2> QED
    BY SMT, <1>2, <1>3, <2>2, <2>3
<1>6. \A i \in 1 .. Len(transmits') : transmits'[i] <= sendSequence'
  BY SMT, <1>1, <1>2, <1>3, <1>4
<1>7. ASSUME NEW a \in Associations
      PROVE  AssociationInv(a)'
  <2> DEFINE q == writerQueue[a]
  <2>1. /\ lastWritten[a] <= sendSequence /\ Rising(q)
        /\ \A i \in 1 .. Len(q) : lastWritten[a] < q[i] /\ q[i] <= sendSequence
        /\ \A j \in 1 .. n : sendChannel[transmits[j]] = a =>
              /\ lastWritten[a] < transmits[j]
              /\ \A i \in 1 .. Len(q) : q[i] < transmits[j]
    BY DEF OrderInv, AssociationInv, n
  <2>2. lastWritten[a] \in Nat /\ \A i \in 1 .. Len(q) : q[i] \in Nat
    BY SendNumbers DEF TypeOK
  <2> HIDE DEF q
  <2>3. /\ lastWritten[a] < s
        /\ \A i \in 1 .. Len(q) : q[i] < s
    BY SMT, <1>1, <2>1, <2>2
  <2>4. /\ lastWritten[a] <= s
        /\ \A i \in 1 .. Len(q) : lastWritten[a] < q[i] /\ q[i] <= s
    BY SMT, <1>1, <2>1, <2>2
  <2>5. ASSUME NEW j \in 1 .. Len(transmits'), sendChannel'[transmits'[j]] = a
        PROVE  /\ lastWritten[a] < transmits'[j]
               /\ \A i \in 1 .. Len(q) : q[i] < transmits'[j]
    <3>1. CASE j \in 1 .. n
      <4>1. transmits'[j] = transmits[j] /\ transmits[j] # s /\ transmits[j] \in Sends
        BY SMT, <1>1, <1>2, <1>3, <1>4, <3>1
      <4>2. sendChannel[transmits[j]] = a
        BY <1>1, <2>5, <4>1 DEF TypeOK
      <4> QED
        BY <2>1, <3>1, <4>1, <4>2
    <3>2. CASE j = n + 1
      BY SMT, <1>2, <1>3, <2>3, <3>2
    <3> QED
      BY SMT, <1>2, <1>3, <3>1, <3>2
  <2> QED
    BY <1>1, <2>1, <2>4, <2>5 DEF AssociationInv, q
<1> QED
  BY <1>1, <1>5, <1>6, <1>7 DEF OrderInv

-----------------------------------------------------------------------------
PathInv == TypeOK /\ SendInv /\ OrderInv

NeverBack == \A a \in Associations : lastWritten'[a] >= lastWritten[a]

\* A step that writes nothing takes nothing back.
LEMMA NothingWritten ==
    ASSUME TypeOK, UNCHANGED lastWritten
    PROVE  NeverBack
<1>1. \A a \in Associations : lastWritten[a] \in Nat
  BY DEF TypeOK
<1> QED
  BY SMT, <1>1 DEF NeverBack

\* The tasks of the socket thread (io.rs) keep the invariant.
LEMMA SocketKeeps ==
    ASSUME PathInv, Socket
    PROVE  PathInv' /\ NeverBack
<1> USE DEF PathInv
<1>1. TypeOK'
  BY SocketTypes
<1>2. UNCHANGED <<sendVars, transport>>
  BY DEF Socket, AcceptTcp, ReaderExit, WriterWrites, WriterFails, ReadPacket, WriteTransmit,
         transportVars
<1>3. OrderInv' /\ NeverBack
  <2>1. ASSUME NEW a \in Associations, AcceptTcp(a) \/ ReaderExit(a)
        PROVE  OrderInv' /\ NeverBack
    BY <2>1, OrderQuiet, NothingWritten DEF AcceptTcp, ReaderExit, sendVars
  <2>2. ASSUME NEW c \in Channels, ReadPacket(c)
        PROVE  OrderInv' /\ NeverBack
    BY <2>2, OrderQuiet, NothingWritten DEF ReadPacket, sendVars
  <2>3. ASSUME NEW a \in Associations, WriterWrites(a) \/ WriterFails(a)
        PROVE  OrderInv' /\ NeverBack
    BY <2>3, WriterOrder DEF NeverBack
  <2>4. ASSUME WriteTransmit
        PROVE  OrderInv' /\ NeverBack
    BY <2>4, TransmitOrder, NothingWritten
  <2> QED
    BY <2>1, <2>2, <2>3, <2>4 DEF Socket
<1> QED
  BY <1>1, <1>2, <1>3, SendQuiet

\* So does a poll (SipRuntime::poll, gmv_process_io_commands).
LEMMA PollKeeps ==
    ASSUME PathInv, Poll
    PROVE  PathInv' /\ NeverBack
<1> USE DEF PathInv
<1>1. TypeOK'
  BY PollTypes
<1>2. SendInv'
  <2>1. CASE BeginPoll \/ DrainCommand \/ NextPhase
    BY <2>1, SendQuiet DEF BeginPoll, DrainCommand, NextPhase, transportVars
  <2> QED
    BY <2>1, ProcessSends DEF Poll
<1>3. UNCHANGED <<transmits, writerQueue, lastWritten, sendSequence, sendChannel>>
  BY DEF Poll, BeginPoll, DrainCommand, NextPhase, ProcessCompletion, ProcessReceive,
         ProcessClose, socketVars, sendVars
<1> QED
  BY <1>1, <1>2, <1>3, OrderQuiet, NothingWritten

\* ... a send of PJSIP, and what the application does: close_transport and stop.
LEMMA OwnerKeeps ==
    ASSUME PathInv, (\E c \in Channels : TransportSend(c)) \/ Application
    PROVE  PathInv' /\ NeverBack
<1> USE DEF PathInv
<1>1. TypeOK'
  BY OwnerTypes
<1>2. ASSUME NEW c \in Channels, TransportSend(c)
      PROVE  SendInv' /\ OrderInv' /\ NeverBack
  BY <1>2, TransportSends, SendOrder, NothingWritten
<1>3. CASE Application
  <2>1. ASSUME NEW a \in Associations, AppClose(a)
        PROVE  SendInv'
    BY <2>1, SendQuiet DEF AppClose, transportVars
  <2>2. UNCHANGED <<transmits, writerQueue, lastWritten, sendSequence, sendChannel>>
    BY <1>3 DEF Application, AppClose, Stop, socketVars, sendVars
  <2> QED
    BY <1>1, <1>3, <2>1, <2>2, StopSends, OrderQuiet, NothingWritten DEF Application
<1> QED
  BY <1>1, <1>2, <1>3

\* So does a step that changes nothing.
LEMMA PathUnchanged ==
    ASSUME PathInv, UNCHANGED vars
    PROVE  PathInv' /\ NeverBack
<1>1. TypeOK' /\ SendInv' /\ NeverBack
  BY SendQuiet, NothingWritten
     DEF TypeOK, PathInv, vars, socketVars, queueVars, transportVars, sendVars, historyVars
<1> QED
  BY <1>1, OrderQuiet DEF PathInv, vars, socketVars, sendVars

\* The invariant holds throughout, and no step writes a message behind a later one.
THEOREM PathCorrect == Spec => []PathInv /\ [][NeverBack]_vars
<1>1. Init => PathInv
  BY TypeInit, SendInit, OrderInit DEF PathInv
<1>2. PathInv /\ [Next]_vars => PathInv' /\ NeverBack
  <2> SUFFICES ASSUME PathInv, [Next]_vars PROVE PathInv' /\ NeverBack
    OBVIOUS
  <2>1. CASE (\E c \in Channels : TransportSend(c)) \/ Application
    BY <2>1, OwnerKeeps
  <2> QED
    BY <2>1, PathUnchanged, SocketKeeps, PollKeeps DEF Next
<1> QED
  BY <1>1, <1>2, PTL DEF Spec

\* The queues and lists of the path hold what they should, within their capacities.
THEOREM IoTypeCorrect == Spec => []TypeOK
<1>1. PathInv => TypeOK
  BY DEF PathInv
<1> QED
  BY <1>1, PathCorrect, PTL

\* A send that PJSIP was told is pending is called back exactly once, a refused one
\* never, in whatever order write result, close and stop come.
THEOREM SettledExactlyOnceCorrect == Spec => []SettledExactlyOnce
<1>1. PathInv => SettledExactlyOnce
  BY DEF PathInv, SendInv
<1> QED
  BY <1>1, PathCorrect, PTL

\* The callback of a write result never runs on a transport that was closed.
THEOREM PendingOnLiveTransportCorrect == Spec => []PendingOnLiveTransport
<1>1. PathInv => PendingOnLiveTransport
  BY DEF PathInv, SendInv
<1> QED
  BY <1>1, PathCorrect, PTL

\* The messages of an association leave in the order PJSIP sent them, through the
\* transmit queue and the channel of the writer.
THEOREM WrittenInOrderCorrect == Spec => WrittenInOrder
BY PathCorrect, PTL DEF NeverBack, WrittenInOrder

-----------------------------------------------------------------------------
(* What is lost on the way to the owner thread.                              *)

\* The result of the send is still to be written, or on its way.
OnItsWay(s) ==
    \/ s \in Range(transmits) \cup Range(completionQueue)
    \/ [kind |-> "sent", send |-> s] \in Range(commands)
    \/ \E a \in Associations : s \in Range(writerQueue[a])

\* A send waits for a result that will not come.
ResultLost(s) == s \in pendingSends /\ ~OnItsWay(s)

\* A step loses the result of a send only when the command queue is full, or when a
\* writer gives up with the send in its channel behind the one it was writing.
ResultLossExcused ==
    \A s \in Sends : ResultLost(s)' =>
        \/ ResultLost(s) \/ Len(commands) = IoCapacity
        \/ \E a \in Associations : WriterFails(a) /\ s \in Range(Tail(writerQueue[a]))

\* The end of a connection is on its way to the shim, or was handled.
CloseOnItsWay(a) ==
    \/ [kind |-> "closed", on |-> a] \in Range(commands)
    \/ [on |-> a, io |-> TRUE] \in Range(closeQueue)
    \/ a \in ioClosed

CloseLost(a) == connection[a] = "closed" /\ ~CloseOnItsWay(a)

\* A step loses the end of a connection only when the command queue is full, or when it
\* stops the runtime.
CloseLossExcused ==
    \A a \in Associations : CloseLost(a)' =>
        CloseLost(a) \/ Len(commands) = IoCapacity \/ Stop

\* The elements of a queue that takes one more, and of one that gives the first away
LEMMA AppendRange ==
    ASSUME NEW S, NEW q \in Seq(S), NEW x \in S
    PROVE  \A y : y \in Range(Append(q, x)) <=> y \in Range(q) \/ y = x
<1>1. /\ DOMAIN q = 1 .. Len(q) /\ DOMAIN Append(q, x) = 1 .. Len(q) + 1 /\ Len(q) \in Nat
      /\ \A i \in 1 .. Len(q) : Append(q, x)[i] = q[i]
      /\ Append(q, x)[Len(q) + 1] = x
  BY SMT
<1>2. \A i \in 1 .. Len(q) + 1 : i \in 1 .. Len(q) \/ i = Len(q) + 1
  BY SMT, <1>1
<1>3. Len(q) + 1 \in 1 .. Len(q) + 1 /\ \A i \in 1 .. Len(q) : i \in 1 .. Len(q) + 1
  BY SMT, <1>1
<1> QED
  BY <1>1, <1>2, <1>3 DEF Range

\* ... and taking the first off a queue takes nothing else.
LEMMA TailRange ==
    ASSUME NEW S, NEW q \in Seq(S), q # <<>>
    PROVE  \A y \in Range(q) : y = Head(q) \/ y \in Range(Tail(q))
<1>1. /\ DOMAIN q = 1 .. Len(q) /\ DOMAIN Tail(q) = 1 .. Len(q) - 1
      /\ Len(q) \in Nat \ {0} /\ Head(q) = q[1]
      /\ \A i \in 1 .. Len(q) - 1 : Tail(q)[i] = q[i + 1]
  BY SMT
<1>2. ASSUME NEW i \in 1 .. Len(q), i # 1
      PROVE  i - 1 \in 1 .. Len(q) - 1 /\ (i - 1) + 1 = i
  BY SMT, <1>1, <1>2
<1>3. \A i \in 1 .. Len(q) : i # 1 => \E j \in DOMAIN Tail(q) : Tail(q)[j] = q[i]
  BY <1>1, <1>2
<1>4. \A i \in DOMAIN q : q[i] = Head(q) \/ q[i] \in Range(Tail(q))
  BY <1>1, <1>3 DEF Range
<1> QED
  BY <1>4 DEF Range

\* try_send into a queue that is not full
LEMMA TrySendRange ==
    ASSUME TypeOK, NEW command \in Commands, TrySend(command), Len(commands) # IoCapacity
    PROVE  \A y : y \in Range(commands') <=> y \in Range(commands) \/ y = command
<1>1. commands \in Seq(Commands) /\ Len(commands) <= IoCapacity /\ IoCapacity \in Nat
  BY CapacitiesAssumption DEF TypeOK
<1>2. Len(commands) < IoCapacity
  BY SMT, <1>1
<1> QED
  BY <1>1, <1>2, AppendRange DEF TrySend

\* A step in which every pending send was pending and stays on its way
LEMMA NoneLost ==
    ASSUME \A s \in Sends : s \in pendingSends' =>
              s \in pendingSends /\ (OnItsWay(s) => OnItsWay(s)')
    PROVE  ResultLossExcused
BY DEF ResultLossExcused, ResultLost

\* The tasks of the socket thread (io.rs)
LEMMA SocketLoses ==
    ASSUME TypeOK, Socket PROVE ResultLossExcused
<1>1. /\ transmits \in Seq(Sends) /\ commands \in Seq(Commands)
      /\ writerQueue \in [Associations -> Seq(Sends)] /\ sendChannel \in [Sends -> Channels]
  BY DEF TypeOK
<1>2. UNCHANGED <<pendingSends, completionQueue>>
  BY DEF Socket, AcceptTcp, ReaderExit, WriterWrites, WriterFails, ReadPacket, WriteTransmit,
         sendVars, queueVars
<1>3. ASSUME NEW a \in Associations, AcceptTcp(a) PROVE ResultLossExcused
  BY <1>2, <1>3, NoneLost DEF AcceptTcp, OnItsWay
<1>4. ASSUME NEW command \in Commands, TrySend(command), UNCHANGED <<transmits, writerQueue>>
      PROVE  ResultLossExcused
  <2>1. CASE Len(commands) = IoCapacity
    BY <2>1 DEF ResultLossExcused
  <2>2. CASE Len(commands) # IoCapacity
    <3>1. \A y : y \in Range(commands) => y \in Range(commands')
      BY <1>4, <2>2, TrySendRange
    <3> QED
      BY <1>2, <1>4, <3>1, NoneLost DEF OnItsWay
  <2> QED
    BY <2>1, <2>2
<1>5. ASSUME NEW a \in Associations, ReaderExit(a) PROVE ResultLossExcused
  BY <1>4, <1>5, CommandsMade DEF ReaderExit
<1>6. ASSUME NEW c \in Channels, ReadPacket(c) PROVE ResultLossExcused
  BY <1>4, <1>6, CommandsMade DEF ReadPacket
<1>7. ASSUME NEW a \in Associations, WriterWrites(a) \/ WriterFails(a) PROVE ResultLossExcused
  <2> DEFINE q == writerQueue[a]
  <2>1. q \in Seq(Sends) /\ q # <<>> /\ Head(q) \in Sends
    BY <1>1, <1>7, TailFacts DEF WriterWrites, WriterFails
  <2>2. /\ TrySend([kind |-> "sent", send |-> Head(q)]) /\ UNCHANGED transmits
        /\ \A b \in Associations : b # a => writerQueue'[b] = writerQueue[b]
        /\ writerQueue'[a] = Tail(q) \/ WriterFails(a)
    BY <1>1, <1>7 DEF WriterWrites, WriterFails
  <2>3. CASE Len(commands) = IoCapacity
    BY <2>3 DEF ResultLossExcused
  <2>4. CASE Len(commands) # IoCapacity
    <3>1. /\ \A y : y \in Range(commands) => y \in Range(commands')
          /\ [kind |-> "sent", send |-> Head(q)] \in Range(commands')
      BY <2>1, <2>2, <2>4, CommandsMade, TrySendRange
    <3>2. \A s \in Range(q) : s = Head(q) \/ s \in Range(Tail(q))
      BY <2>1, TailRange
    <3> SUFFICES ASSUME NEW s \in Sends, s \in pendingSends, OnItsWay(s), ~OnItsWay(s)'
                 PROVE  WriterFails(a) /\ s \in Range(Tail(q))
      BY <1>2 DEF ResultLossExcused, ResultLost
    <3>3. s \in Range(q)
      BY <1>2, <2>2, <3>1 DEF OnItsWay
    <3>4. s # Head(q)
      BY <3>1 DEF OnItsWay
    <3>5. writerQueue'[a] # Tail(q)
      BY <3>2, <3>3, <3>4 DEF OnItsWay
    <3> QED
      BY <2>2, <3>2, <3>3, <3>4, <3>5
  <2> QED
    BY <2>3, <2>4
<1>8. CASE WriteTransmit
  <2> DEFINE h == Head(transmits)
             c == sendChannel[h]
  <2>1. h \in Sends /\ transmits # <<>> /\ transmits' = Tail(transmits)
    BY <1>1, <1>8, TailFacts DEF WriteTransmit
  <2>2. \A s \in Range(transmits) : s = h \/ s \in Range(Tail(transmits))
    BY <1>1, <2>1, TailRange
  <2>3. CASE c # Udp /\ writerQueue' = [writerQueue EXCEPT ![c] = Append(@, h)]
             /\ UNCHANGED commands
    <3>1. c \in Associations /\ writerQueue'[c] = Append(writerQueue[c], h)
      BY <1>1, <2>1, <2>3, ChannelFacts
    <3>2. \A b \in Associations : b # c => writerQueue'[b] = writerQueue[b]
      BY <1>1, <2>3
    <3>3. \A y : y \in Range(writerQueue'[c]) <=> y \in Range(writerQueue[c]) \/ y = h
      BY <1>1, <2>1, <3>1, AppendRange
    <3> HIDE DEF h, c
    <3>4. ASSUME NEW s \in Sends, OnItsWay(s) PROVE OnItsWay(s)'
      <4>1. CASE s \in Range(transmits)
        BY <2>1, <2>2, <3>1, <3>3, <4>1 DEF OnItsWay
      <4>2. CASE \E b \in Associations : s \in Range(writerQueue[b])
        BY <3>1, <3>2, <3>3, <4>2 DEF OnItsWay
      <4>3. CASE s \in Range(completionQueue) \/ [kind |-> "sent", send |-> s] \in Range(commands)
        BY <1>2, <2>3, <4>3 DEF OnItsWay
      <4> QED
        BY <3>4, <4>1, <4>2, <4>3 DEF OnItsWay
    <3> QED
      BY <1>2, <3>4, NoneLost
  <2>4. CASE TrySend([kind |-> "sent", send |-> h]) /\ UNCHANGED writerQueue
    <3>1. CASE Len(commands) = IoCapacity
      BY <3>1 DEF ResultLossExcused
    <3>2. CASE Len(commands) # IoCapacity
      <4>1. /\ \A y : y \in Range(commands) => y \in Range(commands')
            /\ [kind |-> "sent", send |-> h] \in Range(commands')
        BY <2>1, <2>4, <3>2, CommandsMade, TrySendRange
      <4> HIDE DEF h
      <4>2. \A s \in Sends : OnItsWay(s) => OnItsWay(s)'
        BY <1>2, <2>1, <2>2, <2>4, <4>1 DEF OnItsWay
      <4> QED
        BY <1>2, <4>2, NoneLost
    <3> QED
      BY <3>1, <3>2
  <2> QED
    BY <1>8, <2>3, <2>4 DEF WriteTransmit
<1> QED
  BY <1>3, <1>5, <1>6, <1>7, <1>8 DEF Socket

\* A poll takes a result off the way only with the send that waits for it.
LEMMA PollLoses ==
    ASSUME TypeOK, Poll PROVE ResultLossExcused
<1>1. /\ commands \in Seq(Commands) /\ completionQueue \in Seq(Sends)
  BY DEF TypeOK
<1>2. UNCHANGED <<transmits, writerQueue>>
  BY DEF Poll, BeginPoll, DrainCommand, NextPhase, ProcessCompletion, ProcessReceive,
         ProcessClose, socketVars
<1>3. CASE UNCHANGED <<commands, completionQueue>> /\ pendingSends' \subseteq pendingSends
  BY <1>2, <1>3, NoneLost DEF OnItsWay
<1>4. CASE BeginPoll \/ NextPhase \/ ProcessReceive \/ ProcessClose
  BY <1>3, <1>4 DEF BeginPoll, NextPhase, ProcessReceive, ProcessClose, queueVars, sendVars
<1>5. CASE DrainCommand
  <2> DEFINE h == Head(commands)
  <2>1. /\ h \in Commands /\ commands # <<>> /\ commands' = Tail(commands)
        /\ UNCHANGED pendingSends
    BY <1>1, <1>5, TailFacts DEF DrainCommand, sendVars
  <2>2. \A y \in Range(commands) : y = h \/ y \in Range(Tail(commands))
    BY <1>1, <2>1, TailRange
  <2>3. \/ UNCHANGED completionQueue /\ h.kind # "sent"
        \/ completionQueue' = Append(completionQueue, h.send) /\ h.kind = "sent"
    BY <1>5 DEF DrainCommand, ReceivePacket, CompleteSend, TransportClosed
  <2>4. ASSUME NEW s \in Sends, [kind |-> "sent", send |-> s] = h
        PROVE  s \in Range(completionQueue')
    <3>1. h.kind = "sent" /\ h.send = s
      BY SMT, <2>4
    <3>2. completionQueue' = Append(completionQueue, s)
      BY <2>3, <3>1
    <3> QED
      BY <1>1, <3>2, AppendRange
  <2>5. \A y : y \in Range(completionQueue) => y \in Range(completionQueue')
    <3>1. CASE completionQueue' = Append(completionQueue, h.send) /\ h.kind = "sent"
      <4>1. h.send \in Sends
        BY <2>1, <3>1, CommandFacts
      <4> QED
        BY <1>1, <3>1, <4>1, AppendRange
    <3> QED
      BY <2>3, <3>1
  <2> HIDE DEF h
  <2>6. \A s \in Sends : OnItsWay(s) => OnItsWay(s)'
    BY <1>2, <2>1, <2>2, <2>4, <2>5 DEF OnItsWay
  <2> QED
    BY <2>1, <2>6, NoneLost
<1>6. CASE ProcessCompletion
  <2>1. /\ completionQueue # <<>> /\ completionQueue' = Tail(completionQueue)
        /\ pendingSends' = pendingSends \ {Head(completionQueue)} /\ UNCHANGED commands
    BY <1>6 DEF ProcessCompletion
  <2>2. \A y \in Range(completionQueue) :
           y = Head(completionQueue) \/ y \in Range(Tail(completionQueue))
    BY <1>1, <2>1, TailRange
  <2>3. \A s \in Sends : s \in pendingSends' => s \in pendingSends /\ s # Head(completionQueue)
    BY <2>1
  <2>4. \A s \in Sends : s \in pendingSends' /\ OnItsWay(s) => OnItsWay(s)'
    BY <1>2, <2>1, <2>2, <2>3 DEF OnItsWay
  <2> QED
    BY <2>3, <2>4, NoneLost
<1> QED
  BY <1>4, <1>5, <1>6 DEF Poll

\* A new send is on its way; a stop leaves none waiting.
LEMMA OwnerLoses ==
    ASSUME TypeOK, (\E c \in Channels : TransportSend(c)) \/ Application PROVE ResultLossExcused
<1>1. ASSUME NEW c \in Channels, TransportSend(c) PROVE ResultLossExcused
  <2> DEFINE n == sendSequence + 1
  <2>1. UNCHANGED <<completionQueue, commands, writerQueue>>
    BY <1>1 DEF TransportSend, socketVars, queueVars
  <2>2. \/ UNCHANGED <<transmits, pendingSends>>
        \/ transmits' = Append(transmits, n) /\ pendingSends' = pendingSends \cup {n}
    BY <1>1 DEF TransportSend
  <2>3. n \in Sends /\ transmits \in Seq(Sends)
    BY SMT, <1>1, CapacitiesAssumption DEF TransportSend, TypeOK, Sends
  <2> HIDE DEF n
  <2>4. CASE UNCHANGED <<transmits, pendingSends>>
    BY <2>1, <2>4, NoneLost DEF OnItsWay
  <2>5. CASE transmits' = Append(transmits, n) /\ pendingSends' = pendingSends \cup {n}
    <3>1. \A y : y \in Range(transmits') <=> y \in Range(transmits) \/ y = n
      BY <2>3, <2>5, AppendRange
    <3>2. \A s \in Sends : s = n \/ OnItsWay(s) => OnItsWay(s)'
      BY <2>1, <3>1 DEF OnItsWay
    <3>3. \A s \in Sends : s \in pendingSends' => s \in pendingSends \/ s = n
      BY <2>5
    <3> QED
      BY <3>2, <3>3 DEF ResultLossExcused, ResultLost
  <2> QED
    BY <2>2, <2>4, <2>5
<1>2. ASSUME NEW a \in Associations, AppClose(a) PROVE ResultLossExcused
  BY <1>2, NoneLost DEF AppClose, OnItsWay, socketVars, sendVars
<1>3. CASE Stop
  BY <1>3 DEF Stop, ResultLossExcused, ResultLost
<1> QED
  BY <1>1, <1>2, <1>3 DEF Application

\* Every step of the runtime.
LEMMA ResultStays ==
    ASSUME TypeOK, [Next]_vars PROVE ResultLossExcused
<1>1. CASE UNCHANGED vars
  <2>1. UNCHANGED <<transmits, commands, completionQueue, writerQueue, pendingSends>>
    BY <1>1 DEF vars, socketVars, queueVars, sendVars
  <2> QED
    BY <2>1, NoneLost DEF OnItsWay
<1> QED
  BY <1>1, SocketLoses, PollLoses, OwnerLoses DEF Next

\* As long as the command queue is not full, the result of a send is lost only with a
\* writer that fails before it comes to it (handle_tcp_stream): through the transmit queue, the
\* channel of the writer, drain_io_commands and the completion queue it keeps its
\* way, for any capacities and any number of sends and associations.
THEOREM ResultLossExcusedCorrect == Spec => [][ResultLossExcused]_vars
BY ResultStays, IoTypeCorrect, PTL DEF Spec

\* The same for the end of a connection: only the reader can lose it, when the command
\* queue is full as it exits, or the stop of the runtime.
LEMMA CloseStays ==
    ASSUME TypeOK, [Next]_vars PROVE CloseLossExcused
<1> SUFFICES ASSUME NEW a \in Associations, CloseLost(a)', Len(commands) # IoCapacity, ~Stop
             PROVE  CloseLost(a)
  BY DEF CloseLossExcused
<1> DEFINE command == [kind |-> "closed", on |-> a]
           close == [on |-> a, io |-> TRUE]
<1>1. /\ commands \in Seq(Commands) /\ closeQueue \in Seq([on : Associations, io : BOOLEAN])
      /\ connection \in [Associations -> {"none", "open", "closed"}]
  BY DEF TypeOK
<1>2. /\ connection'[a] = "closed" /\ command \notin Range(commands')
      /\ close \notin Range(closeQueue') /\ a \notin ioClosed'
  BY DEF CloseLost, CloseOnItsWay
<1>3. connection[a] = "closed" \/ ReaderExit(a)
  BY <1>1, <1>2 DEF Next, Socket, Poll, Application, AcceptTcp, ReaderExit, WriterWrites,
     WriterFails, ReadPacket, WriteTransmit, BeginPoll, DrainCommand, NextPhase,
     ProcessCompletion, ProcessReceive, ProcessClose, TransportSend, AppClose, Stop, vars,
     socketVars
<1>4. ~ReaderExit(a)
  <2>1. command \in Commands
    BY CommandsMade
  <2> QED
    BY <1>2, <2>1, TrySendRange DEF ReaderExit
<1>5. a \notin ioClosed
  BY <1>2 DEF Next, Socket, Poll, Application, AcceptTcp, ReaderExit, WriterWrites,
     WriterFails, ReadPacket, WriteTransmit, BeginPoll, DrainCommand, NextPhase,
     ProcessCompletion, ProcessReceive, ProcessClose, TransportSend, AppClose, Stop, vars,
     historyVars
<1>6. ASSUME command \in Range(commands) PROVE FALSE
  <2>1. CASE DrainCommand
    <3> DEFINE h == Head(commands)
    <3>1. h \in Commands /\ commands # <<>> /\ commands' = Tail(commands)
      BY <1>1, <2>1, TailFacts DEF DrainCommand
    <3>2. command = h
      BY <1>1, <1>2, <1>6, <3>1, TailRange
    <3>3. h.kind = "closed" /\ h.on = a
      BY SMT, <3>2
    <3>4. closeQueue' = Append(closeQueue, [on |-> h.on, io |-> TRUE])
      BY <2>1, <3>3 DEF DrainCommand, ReceivePacket, CompleteSend, TransportClosed
    <3>5. close \in [on : Associations, io : BOOLEAN]
      OBVIOUS
    <3>6. closeQueue' = Append(closeQueue, close)
      BY <3>3, <3>4
    <3>7. \A m \in [on : Associations, io : BOOLEAN] : m \in Range(Append(closeQueue, m))
      BY <1>1, AppendRange
    <3>8. close \in Range(closeQueue')
      BY <3>5, <3>6, <3>7
    <3> QED
      BY <1>2, <3>8
  <2>2. CASE UNCHANGED commands
    BY <1>2, <1>6, <2>2
  <2>3. ASSUME NEW m \in Commands, TrySend(m) PROVE FALSE
    BY <1>2, <1>6, <2>3, TrySendRange
  <2> QED
    <3>1. \/ DrainCommand \/ UNCHANGED commands \/ \E m \in Commands : TrySend(m)
      <4>1. Socket => UNCHANGED commands \/ \E m \in Commands : TrySend(m)
        <5>1. ASSUME NEW b \in Associations, WriterWrites(b) \/ WriterFails(b)
              PROVE  \E m \in Commands : TrySend(m)
          <6>1. Head(writerQueue[b]) \in Sends
            BY <5>1, TailFacts DEF WriterWrites, WriterFails, TypeOK
          <6> QED
            BY <5>1, <6>1, CommandsMade DEF WriterWrites, WriterFails
        <5>2. WriteTransmit => UNCHANGED commands \/ \E m \in Commands : TrySend(m)
          <6>1. WriteTransmit => Head(transmits) \in Sends
            BY TailFacts DEF WriteTransmit, TypeOK
          <6> QED
            BY <6>1, CommandsMade DEF WriteTransmit
        <5>3. ASSUME NEW b \in Associations, AcceptTcp(b) \/ ReaderExit(b)
              PROVE  UNCHANGED commands \/ \E m \in Commands : TrySend(m)
          BY <5>3, CommandsMade DEF AcceptTcp, ReaderExit
        <5>4. ASSUME NEW c \in Channels, ReadPacket(c) PROVE \E m \in Commands : TrySend(m)
          BY <5>4, CommandsMade DEF ReadPacket
        <5> QED
          BY <5>1, <5>2, <5>3, <5>4 DEF Socket
      <4>2. Poll => DrainCommand \/ UNCHANGED commands
        BY DEF Poll, BeginPoll, NextPhase, ProcessCompletion, ProcessReceive, ProcessClose
      <4> QED
        BY <4>1, <4>2 DEF Next, Application, TransportSend, AppClose, vars
    <3> QED
      BY <2>1, <2>2, <2>3, <3>1
<1>7. ASSUME close \in Range(closeQueue) PROVE FALSE
  <2>1. CASE ProcessClose
    <3> DEFINE h == Head(closeQueue)
    <3>1. closeQueue # <<>> /\ closeQueue' = Tail(closeQueue)
      BY <2>1 DEF ProcessClose
    <3>2. close = h
      BY <1>1, <1>2, <1>7, <3>1, TailRange
    <3>3. h.on = a /\ h.io
      BY SMT, <3>2
    <3> QED
      BY <1>2, <2>1, <3>3 DEF ProcessClose
  <2>2. CASE UNCHANGED closeQueue
    BY <1>2, <1>7, <2>2
  <2>3. ASSUME NEW m \in [on : Associations, io : BOOLEAN],
               closeQueue' = Append(closeQueue, m)
        PROVE  FALSE
    BY <1>1, <1>2, <1>7, <2>3, AppendRange
  <2>4. CASE DrainCommand
    <3>1. Head(commands) \in Commands
      BY <1>1, <2>4, TailFacts DEF DrainCommand
    <3>2. Head(commands).kind = "closed" =>
             [on |-> Head(commands).on, io |-> TRUE] \in [on : Associations, io : BOOLEAN]
      BY <3>1, CommandFacts
    <3> QED
      BY <2>2, <2>3, <2>4, <3>2 DEF DrainCommand, ReceivePacket, CompleteSend, TransportClosed
  <2>5. ASSUME NEW b \in Associations, AppClose(b) PROVE FALSE
    <3>1. [on |-> b, io |-> FALSE] \in [on : Associations, io : BOOLEAN]
      OBVIOUS
    <3> QED
      BY <2>3, <2>5, <3>1 DEF AppClose
  <2>6. Socket => UNCHANGED closeQueue
    BY DEF Socket, AcceptTcp, ReaderExit, WriterWrites, WriterFails, ReadPacket,
           WriteTransmit, queueVars
  <2>7. BeginPoll \/ NextPhase \/ ProcessCompletion \/ ProcessReceive => UNCHANGED closeQueue
    BY DEF BeginPoll, NextPhase, ProcessCompletion, ProcessReceive, queueVars
  <2> QED
    BY <2>1, <2>2, <2>4, <2>5, <2>6, <2>7
       DEF Next, Poll, Application, TransportSend, vars, queueVars
<1> QED
  BY <1>3, <1>4, <1>5, <1>6, <1>7 DEF CloseLost, CloseOnItsWay

\* As long as the command queue is not full, the end of a connection reaches the shim,
\* or the stop of the runtime comes first (handle_tcp_stream, drain_io_commands,
\* gmv_process_close_commands).
THEOREM CloseLossExcusedCorrect == Spec => [][CloseLossExcused]_vars
BY CloseStays, IoTypeCorrect, PTL DEF Spec

=============================================================================
