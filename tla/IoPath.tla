------------------------------- MODULE IoPath -------------------------------
(***************************************************************************)
(* How packets, write results and closed connections travel between the    *)
(* socket thread (io.rs) and the PJSIP owner thread (SipRuntime::poll in   *)
(* runtime.rs, gmv_process_io_commands in shim.c, the custom transport in  *)
(* shim_transport.inc).                                                    *)
(*                                                                         *)
(* The socket thread owns the sockets: one reader and one writer task per  *)
(* TCP association, one UDP socket, and a task that takes SipTransmits     *)
(* from the bounded transmit queue.  It reports everything through one     *)
(* bounded command queue with try_send, which drops what does not fit.     *)
(* The owner thread drains that queue into the C queues at the start of a  *)
(* poll and then handles write results, packets and closes, in this order. *)
(*                                                                         *)
(* A memory allocation that fails in the shim is not modelled here, nor    *)
(* are the calls, subscriptions and parked REGISTERs a close or a stop     *)
(* ends.                                                                   *)
(***************************************************************************)
EXTENDS Integers, Sequences, FiniteSets, Functions

CONSTANTS
    IoCapacity,       \* config.io_queue_capacity: transmit and command queue
    WriterCapacity,   \* per-connection writer channel, 128 in the code
    \* Bounds of the model, not of the program:
    MaxAssociations,  \* TCP connections accepted
    MaxReads,         \* packets read from the sockets
    MaxSends,         \* send_msg calls of PJSIP
    MaxAppCloses      \* SipRuntime::close_transport calls

ASSUME CapacitiesAssumption ==
    /\ IoCapacity \in Nat \ {0} /\ WriterCapacity \in Nat \ {0}
    /\ MaxAssociations \in Nat /\ MaxReads \in Nat /\ MaxSends \in Nat
    /\ MaxAppCloses \in Nat

VARIABLES
    \* socket thread
    connection,      \* reader task of each association
    writers,         \* the DashMap from association id to writer channel
    writerUp,        \* associations whose writer task has not exited
    writerQueue,     \* content of each writer channel
    reads,           \* packets read so far
    lastWritten,     \* history: last send id written on each association
    \* queues between the threads
    transmits,       \* SipTransmit queue, owner to socket thread
    commands,        \* RuntimeIoCommand queue, socket to owner thread
    \* owner thread
    phase,           \* where the owner thread is in the poll
    receiveQueue, completionQueue, closeQueue, \* runtime->*_head .. *_tail
    transport,       \* transport_id of a channel's transport in the list, or 0
    transportSequence, sendSequence,
    sendChannel,     \* channel of each send
    sendTransport,   \* pending->transport of each send, as its transport_id
    pendingSends,    \* runtime->pending_sends
    refusedSends,    \* sends refused at once (ETOOMANY)
    callbacks,       \* history: completion callbacks of each send
    delivered,       \* history: packets given to PJSIP per channel
    closedEvents,    \* history: TransportClosed events emitted
    ioClosed,        \* history: associations whose end the shim has handled
    appCloses

socketVars == <<connection, writers, writerUp, writerQueue, reads, lastWritten>>
queueVars  == <<receiveQueue, completionQueue, closeQueue>>
transportVars == <<transport, transportSequence>>
sendVars   == <<sendSequence, sendChannel, sendTransport, pendingSends,
                refusedSends, callbacks>>
historyVars == <<delivered, closedEvents, ioClosed>>
vars == <<socketVars, transmits, commands, phase, queueVars, transportVars,
          sendVars, historyVars, appCloses>>

Udp == 0
Associations == 1 .. MaxAssociations
Channels == {Udp} \cup Associations
Sends == 1 .. MaxSends

Commands ==
    [kind : {"receive"}, on : Channels] \cup [kind : {"sent"}, send : Sends]
        \cup [kind : {"closed"}, on : Associations]

Phases == {"idle", "drain", "completions", "receives", "closes", "send", "stopped"}

Init ==
    /\ connection = [a \in Associations |-> "none"]
    /\ writers = {} /\ writerUp = {}
    /\ writerQueue = [a \in Associations |-> <<>>]
    /\ reads = 0
    /\ lastWritten = [a \in Associations |-> 0]
    /\ transmits = <<>> /\ commands = <<>>
    /\ phase = "idle"
    /\ receiveQueue = <<>> /\ completionQueue = <<>> /\ closeQueue = <<>>
    /\ transport = [c \in Channels |-> IF c = Udp THEN 1 ELSE 0]
    /\ transportSequence = 1
    /\ sendSequence = 0
    /\ sendChannel = [s \in Sends |-> Udp]
    /\ sendTransport = [s \in Sends |-> 0]
    /\ pendingSends = {} /\ refusedSends = {}
    /\ callbacks = [s \in Sends |-> 0]
    /\ delivered = [c \in Channels |-> 0]
    /\ closedEvents = {} /\ ioClosed = {}
    /\ appCloses = 0

-----------------------------------------------------------------------------
(* Socket thread (io.rs).                                                   *)

\* Faulty: the queue is not bounded.
SendUnbounded(command) == commands' = Append(commands, command)

\* SyncSender::try_send: a command that does not fit is dropped.
TrySend(command) ==
    commands' = IF Len(commands) < IoCapacity THEN Append(commands, command)
                ELSE commands

\* accept_tcp and the start of handle_tcp_stream; ids are handed out in order.
AcceptTcp(a) ==
    /\ connection[a] = "none"
    /\ \A b \in Associations : b < a => connection[b] # "none"
    /\ connection' = [connection EXCEPT ![a] = "open"]
    /\ writers' = writers \cup {a} /\ writerUp' = writerUp \cup {a}
    /\ UNCHANGED <<writerQueue, reads, lastWritten, transmits, commands, phase,
                   queueVars, transportVars, sendVars, historyVars, appCloses>>

\* read_udp, or the read loop of handle_tcp_stream for one complete message.
ReadPacket(c) ==
    /\ reads < MaxReads
    /\ c # Udp => connection[c] = "open"
    /\ reads' = reads + 1
    /\ TrySend([kind |-> "receive", on |-> c])
    /\ UNCHANGED <<connection, writers, writerUp, writerQueue, lastWritten,
                   transmits, phase, queueVars, transportVars, sendVars,
                   historyVars, appCloses>>

\* End of file or read error: the writer is forgotten, the close is reported.
ReaderExit(a) ==
    /\ connection[a] = "open"
    /\ connection' = [connection EXCEPT ![a] = "closed"]
    /\ writers' = writers \ {a}
    /\ TrySend([kind |-> "closed", on |-> a])
    /\ UNCHANGED <<writerUp, writerQueue, reads, lastWritten, transmits, phase,
                   queueVars, transportVars, sendVars, historyVars, appCloses>>

\* Faulty: the newest request is written first.
WriterWritesLast(a) ==
    /\ a \in writerUp /\ writerQueue[a] # <<>>
    /\ LET last == writerQueue[a][Len(writerQueue[a])]
       IN  /\ writerQueue' = [writerQueue EXCEPT ![a] = SubSeq(@, 1, Len(@) - 1)]
           /\ lastWritten' = [lastWritten EXCEPT ![a] = last]
           /\ TrySend([kind |-> "sent", send |-> last])
    /\ UNCHANGED <<connection, writers, writerUp, reads, transmits, phase,
                   queueVars, transportVars, sendVars, historyVars, appCloses>>

\* The writer task writes the next request and reports it.
WriterWrites(a) ==
    /\ a \in writerUp /\ writerQueue[a] # <<>>
    /\ writerQueue' = [writerQueue EXCEPT ![a] = Tail(@)]
    /\ lastWritten' = [lastWritten EXCEPT ![a] = Head(writerQueue[a])]
    /\ TrySend([kind |-> "sent", send |-> Head(writerQueue[a])])
    /\ UNCHANGED <<connection, writers, writerUp, reads, transmits, phase,
                   queueVars, transportVars, sendVars, historyVars, appCloses>>

\* write_all fails: this request is reported, the task ends, and the requests
\* still in its channel go with it.
WriterFails(a) ==
    /\ a \in writerUp /\ writerQueue[a] # <<>>
    /\ writerUp' = writerUp \ {a}
    /\ writerQueue' = [writerQueue EXCEPT ![a] = <<>>]
    /\ TrySend([kind |-> "sent", send |-> Head(writerQueue[a])])
    /\ UNCHANGED <<connection, writers, reads, lastWritten, transmits, phase,
                   queueVars, transportVars, sendVars, historyVars, appCloses>>

\* writer.try_send of write_transmit: the channel is open and has room.
WriterAccepts(a) ==
    a \in writers /\ a \in writerUp /\ Len(writerQueue[a]) < WriterCapacity

\* write_transmit: a datagram is written and reported at once; a TCP message
\* goes to its writer, or is reported as failed.
WriteTransmit ==
    /\ transmits # <<>>
    /\ transmits' = Tail(transmits)
    /\ LET s == Head(transmits)
           c == sendChannel[s]
       IN  \/ /\ c # Udp /\ WriterAccepts(c)
              /\ writerQueue' = [writerQueue EXCEPT ![c] = Append(@, s)]
              /\ UNCHANGED commands
           \/ /\ c # Udp => ~WriterAccepts(c)
              /\ TrySend([kind |-> "sent", send |-> s])
              /\ UNCHANGED writerQueue
    /\ UNCHANGED <<connection, writers, writerUp, reads, lastWritten, phase,
                   queueVars, transportVars, sendVars, historyVars, appCloses>>

-----------------------------------------------------------------------------
(* Owner thread: SipRuntime::poll and gmv_process_io_commands.              *)

GoTo(from, to) == phase = from /\ phase' = to

BeginPoll ==
    /\ GoTo("idle", "drain")
    /\ UNCHANGED <<socketVars, transmits, commands, queueVars, transportVars,
                   sendVars, historyVars, appCloses>>

\* receive_packet.  Its checks of the packet hold for all that the readers queue: it is
\* not empty, from an IPv4 socket, and has an association if it is from TCP.
ReceivePacket(command) ==
    /\ command.kind = "receive"
    /\ receiveQueue' = Append(receiveQueue, command.on)
    /\ UNCHANGED <<completionQueue, closeQueue, closedEvents>>

\* complete_send: the number of bytes, or the error as a negative one, which make no
\* difference to who is called back.
CompleteSend(command) ==
    /\ command.kind = "sent"
    /\ completionQueue' = Append(completionQueue, command.send)
    /\ UNCHANGED <<receiveQueue, closeQueue, closedEvents>>

\* close_transport, and the TransportClosed event at once
TransportClosed(command) ==
    /\ command.kind = "closed"
    /\ closeQueue' = Append(closeQueue, [on |-> command.on, io |-> TRUE])
    /\ closedEvents' = closedEvents \cup {command.on}
    /\ UNCHANGED <<receiveQueue, completionQueue>>

\* One round of drain_io_commands: a command moves to its C queue.
DrainCommand ==
    /\ phase = "drain" /\ commands # <<>>
    /\ commands' = Tail(commands)
    /\ LET command == Head(commands)
       IN ReceivePacket(command) \/ CompleteSend(command) \/ TransportClosed(command)
    /\ UNCHANGED <<socketVars, transmits, phase, transportVars, sendVars,
                   delivered, ioClosed, appCloses>>

\* Faulty: closes are handled before packets.
NextPhaseCloseFirst ==
    /\ \/ commands = <<>> /\ GoTo("drain", "completions")
       \/ completionQueue = <<>> /\ GoTo("completions", "closes")
       \/ closeQueue = <<>> /\ GoTo("closes", "receives")
       \/ receiveQueue = <<>> /\ GoTo("receives", "send")
       \/ GoTo("send", "idle")
    /\ UNCHANGED <<socketVars, transmits, commands, queueVars, transportVars,
                   sendVars, historyVars, appCloses>>

\* The phases of gmv_process_io_commands, each until its queue is empty.
NextPhase ==
    /\ \/ commands = <<>> /\ GoTo("drain", "completions")
       \/ completionQueue = <<>> /\ GoTo("completions", "receives")
       \/ receiveQueue = <<>> /\ GoTo("receives", "closes")
       \/ closeQueue = <<>> /\ GoTo("closes", "send")
       \/ GoTo("send", "idle")
    /\ UNCHANGED <<socketVars, transmits, commands, queueVars, transportVars,
                   sendVars, historyVars, appCloses>>

CallBack(settled) ==
    callbacks' = [s \in Sends |-> IF s \in settled THEN callbacks[s] + 1 ELSE callbacks[s]]

\* gmv_process_send_completions: a result nobody waits for is ignored.
ProcessCompletion ==
    /\ phase = "completions" /\ completionQueue # <<>>
    /\ completionQueue' = Tail(completionQueue)
    /\ LET settled == pendingSends \cap {Head(completionQueue)}
       IN  pendingSends' = pendingSends \ settled /\ CallBack(settled)
    /\ UNCHANGED <<socketVars, transmits, commands, phase, receiveQueue, closeQueue,
                   transportVars, sendSequence, sendChannel, sendTransport,
                   refusedSends, historyVars, appCloses>>

\* gmv_process_receive_commands: a TCP packet makes its transport if there is
\* none; the packet is then handed to PJSIP.
ProcessReceive ==
    /\ phase = "receives" /\ receiveQueue # <<>>
    /\ receiveQueue' = Tail(receiveQueue)
    /\ LET c == Head(receiveQueue)
       IN  /\ delivered' = [delivered EXCEPT ![c] = @ + 1]
           /\ \/ transport[c] # 0 /\ UNCHANGED transportVars
              \/ /\ transport[c] = 0
                 /\ transportSequence' = transportSequence + 1
                 /\ transport' = [transport EXCEPT ![c] = transportSequence + 1]
    /\ UNCHANGED <<socketVars, transmits, commands, phase, completionQueue,
                   closeQueue, sendVars, closedEvents, ioClosed, appCloses>>

\* Faulty: sends that were called back before are included.
SendsOnEver(t) == {s \in 1 .. sendSequence : sendTransport[s] = t} \ refusedSends

\* Faulty: stops at the first match.
SendsOnFirst(t) ==
    {s \in pendingSends : /\ sendTransport[s] = t
                          /\ \A u \in pendingSends : sendTransport[u] = t => u <= s}

\* Faulty: the sends are left waiting.
SendsOnNone(t) == {}

SendsOn(t) == {s \in pendingSends : sendTransport[s] = t}

\* gmv_process_close_commands, gmv_close_custom_transport and
\* gmv_fail_transport_sends: the transport leaves the list and every send that
\* waits on it is failed.
ProcessClose ==
    /\ phase = "closes" /\ closeQueue # <<>>
    /\ closeQueue' = Tail(closeQueue)
    /\ LET close   == Head(closeQueue)
           settled == SendsOn(transport[close.on])
       IN  /\ pendingSends' = pendingSends \ settled /\ CallBack(settled)
           /\ transport' = [transport EXCEPT ![close.on] = 0]
           /\ ioClosed' = IF close.io THEN ioClosed \cup {close.on} ELSE ioClosed
    /\ UNCHANGED <<socketVars, transmits, commands, phase, receiveQueue,
                   completionQueue, transportSequence, sendSequence, sendChannel,
                   sendTransport, refusedSends, delivered, closedEvents, appCloses>>

\* gmv_custom_transport_send with runtime_send_callback: PJSIP sends on a live
\* transport (a response, a request of the application, a retransmission).
TransportSend(c) ==
    /\ phase \in {"completions", "receives", "closes", "send"}
    /\ transport[c] # 0
    /\ sendSequence < MaxSends
    /\ sendSequence' = sendSequence + 1
    /\ LET s == sendSequence + 1
       IN  /\ sendChannel' = [sendChannel EXCEPT ![s] = c]
           /\ sendTransport' = [sendTransport EXCEPT ![s] = transport[c]]
           /\ \/ /\ Len(transmits) < IoCapacity
                 /\ transmits' = Append(transmits, s)
                 /\ pendingSends' = pendingSends \cup {s}
                 /\ UNCHANGED refusedSends
              \/ /\ Len(transmits) >= IoCapacity
                 /\ refusedSends' = refusedSends \cup {s}
                 /\ UNCHANGED <<transmits, pendingSends>>
    /\ UNCHANGED <<socketVars, commands, phase, queueVars, transportVars,
                   callbacks, historyVars, appCloses>>

\* SipRuntime::close_transport called by the application.
AppClose(a) ==
    /\ phase = "idle"
    /\ appCloses < MaxAppCloses
    /\ appCloses' = appCloses + 1
    /\ closeQueue' = Append(closeQueue, [on |-> a, io |-> FALSE])
    /\ UNCHANGED <<socketVars, transmits, commands, phase, receiveQueue,
                   completionQueue, transportVars, sendVars, historyVars>>

\* SipRuntime::stop, gmv_runtime_release: the C queues are dropped, transports
\* are closed and every send is failed.  The socket thread runs on until drop.
Stop ==
    /\ GoTo("idle", "stopped")
    /\ receiveQueue' = <<>> /\ completionQueue' = <<>> /\ closeQueue' = <<>>
    /\ transport' = [c \in Channels |-> 0]
    /\ pendingSends' = {} /\ CallBack(pendingSends)
    /\ UNCHANGED <<socketVars, transmits, commands, transportSequence,
                   sendSequence, sendChannel, sendTransport, refusedSends,
                   historyVars, appCloses>>

-----------------------------------------------------------------------------
Socket ==
    \/ \E a \in Associations :
         AcceptTcp(a) \/ ReaderExit(a) \/ WriterWrites(a) \/ WriterFails(a)
    \/ \E c \in Channels : ReadPacket(c)
    \/ WriteTransmit

Poll ==
    \/ BeginPoll \/ DrainCommand \/ NextPhase
    \/ ProcessCompletion \/ ProcessReceive \/ ProcessClose

Application == (\E a \in Associations : AppClose(a)) \/ Stop

Next == Socket \/ Poll \/ (\E c \in Channels : TransportSend(c)) \/ Application

Spec == Init /\ [][Next]_vars

-----------------------------------------------------------------------------
(* Properties.                                                              *)

\* Every variable has its type, and no bounded queue exceeds its capacity.
TypeOK ==
    /\ connection \in [Associations -> {"none", "open", "closed"}]
    /\ writers \subseteq Associations /\ writerUp \subseteq Associations
    /\ writerQueue \in [Associations -> Seq(Sends)]
    /\ reads \in Nat /\ lastWritten \in [Associations -> Nat]
    /\ transmits \in Seq(Sends) /\ commands \in Seq(Commands)
    /\ phase \in Phases
    /\ receiveQueue \in Seq(Channels) /\ completionQueue \in Seq(Sends)
    /\ closeQueue \in Seq([on : Associations, io : BOOLEAN])
    /\ transport \in [Channels -> Nat] /\ transportSequence \in Nat
    /\ sendSequence \in 0 .. MaxSends
    /\ sendChannel \in [Sends -> Channels] /\ sendTransport \in [Sends -> Nat]
    /\ pendingSends \subseteq Sends /\ refusedSends \subseteq Sends
    /\ callbacks \in [Sends -> Nat]
    /\ delivered \in [Channels -> Nat]
    /\ closedEvents \subseteq Associations /\ ioClosed \subseteq Associations
    /\ appCloses \in Nat
    /\ Len(commands) <= IoCapacity /\ Len(transmits) <= IoCapacity
    /\ \A a \in Associations : Len(writerQueue[a]) <= WriterCapacity

\* A send that PJSIP was told is pending is called back exactly once, by its
\* write result, by the close of its transport or by the stop, in whatever
\* order these come; a send that was refused at once is never called back.
SettledExactlyOnce ==
    \A s \in 1 .. sendSequence :
        callbacks[s] = IF s \in pendingSends \cup refusedSends THEN 0 ELSE 1

\* A pending send refers to a transport that is still in the list: the callback
\* of a write result that comes late never runs on a transport that was closed,
\* not even when the association got a new transport meanwhile.
PendingOnLiveTransport ==
    \A s \in pendingSends : sendTransport[s] = transport[sendChannel[s]]

\* The end of a connection is final: once the shim has handled it, no packet
\* that was read before brings the association's transport back.
CloseIsFinal == \A a \in ioClosed : transport[a] = 0

\* The messages of an association leave in the order PJSIP sent them.
WrittenInOrder ==
    [][\A a \in Associations : lastWritten'[a] >= lastWritten[a]]_vars

\* What README.md says of outbound messages ("Rust IO reports the final write
\* result with SipRuntime::complete_send"): as long as a send is pending, its
\* result is still to be written or on its way to the owner thread.
ResultOnItsWay ==
    \A s \in pendingSends :
        \/ s \in Range(transmits) \cup Range(completionQueue)
        \/ [kind |-> "sent", send |-> s] \in Range(commands)
        \/ \E a \in Associations : s \in Range(writerQueue[a])

\* What README.md calls an ordered transport close: the application hears of no
\* packet of an association after it was told that the association is closed.
ClosedEventIsLast ==
    [][\A a \in closedEvents : delivered'[a] = delivered[a]]_vars

\* When the command queue never fills up, a connection that ended leaves no
\* transport behind.
ConnectionForgotten ==
    \A a \in Associations : connection[a] = "closed" ~> transport[a] = 0

=============================================================================
