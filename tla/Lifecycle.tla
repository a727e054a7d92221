------------------------------ MODULE Lifecycle ------------------------------
(***************************************************************************)
(* One SipRuntime after another: SipRuntime::start with its failures,      *)
(* stop, drop, the one runtime per process (RUNTIME_LOCK in runtime.rs and *)
(* g_active_runtime in shim.c), and the socket thread that a runtime       *)
(* spawns and joins (SocketIoRuntime in io.rs).  The runtime that is up    *)
(* runs IoPath; a new one begins with fresh queues, transports and sends.  *)
(*                                                                         *)
(* Field order decides the drop: stop and destroy of the shim, the boxes   *)
(* its callbacks write to, the receiver of the command queue, the socket   *)
(* thread, the lock.  `boxes' stands for EventState and TransmitState.     *)
(***************************************************************************)
EXTENDS IoPath

CONSTANTS
    Owners,        \* threads that call SipRuntime::start
    Configs,       \* configurations and sockets they may pass
    MaxMillis,     \* u32::MAX
    MaxStarts,     \* bound: calls of SipRuntime::start that take the lock
    Nobody

ASSUME LifecycleAssumption ==
    /\ Nobody \notin Owners /\ MaxStarts \in Nat /\ MaxMillis \in Nat \ {0}

VARIABLES
    stage,         \* where an owner is between start and the end of drop
    lock,          \* holder of RUNTIME_LOCK
    poisoned,      \* RUNTIME_LOCK was released by a panic
    boxes,         \* owners whose callback boxes are allocated
    shim,          \* gmv_sip_runtime_t of an owner
    active,        \* g_active_runtime
    socketThread,  \* the thread of an owner's SocketIoRuntime
    listening,     \* sockets given to the runtime, then the ones in use
    starts         \* calls of SipRuntime::start that took the lock

ioVars == vars
lifeVars == <<stage, lock, poisoned, boxes, shim, active, socketThread, listening,
              starts>>
lifecycleVars == <<ioVars, lifeVars>>

\* An owner's own state, without what it shares.
ownVars == <<boxes, shim, active, socketThread, listening>>

LifecycleInit ==
    /\ Init
    /\ stage = [o \in Owners |-> "out"]
    /\ lock = Nobody /\ poisoned = FALSE
    /\ boxes = {}
    /\ shim = [o \in Owners |-> "none"] /\ active = Nobody
    /\ socketThread = [o \in Owners |-> "none"]
    /\ listening = {}
    /\ starts = 0

Moves(o, from, to) == stage[o] = from /\ stage' = [stage EXCEPT ![o] = to]

-----------------------------------------------------------------------------
(* SipRuntime::start.                                                        *)

\* validate_sockets
ValidSockets(config) ==
    /\ config.sockets # {}
    /\ "udp" \in config.sockets => config.enableUdp
    /\ "tcp" \in config.sockets => config.enableTcp
    /\ "tls" \in config.sockets => config.tls

\* duration_millis succeeds
DurationMillis(millis) == millis \in 1 .. MaxMillis

\* SipRuntimeConfig::validate; counts is the least of async_count,
\* max_pending_auth and io_queue_capacity, texts the realm and the user agent.
Validate(config) ==
    /\ config.enableUdp \/ config.enableTcp
    /\ config.counts > 0
    /\ config.texts = "clean"
    /\ DurationMillis(config.pollTimeout) /\ DurationMillis(config.lookupTimeout)

\* Some configuration is one that start accepts.
ASSUME ConfigsAssumption ==
    \E config \in Configs : ValidSockets(config) /\ Validate(config)

\* Faulty: a lock that a panic has released counts as taken.
LockTakenOrPoisoned == lock # Nobody \/ poisoned

\* RUNTIME_LOCK.try_lock() is WouldBlock; a poisoned lock is taken all the same.
LockTaken == lock # Nobody

Accepted(config) == ValidSockets(config) /\ Validate(config) /\ ~LockTaken

\* start returns an error before it has made anything.
StartRefused(o, config) ==
    /\ stage[o] = "out" /\ ~Accepted(config)
    /\ UNCHANGED lifecycleVars

\* start takes the lock, makes the channels and boxes the callback state.
BeginStart(o, config) ==
    /\ Accepted(config) /\ starts < MaxStarts
    /\ Moves(o, "out", "locked")
    /\ lock' = o
    /\ boxes' = boxes \cup {o}
    /\ listening' = config.sockets
    /\ starts' = starts + 1
    /\ UNCHANGED <<ioVars, poisoned, shim, active, socketThread>>

\* gmv_sip_runtime_create
CreateShim(o) ==
    /\ Moves(o, "locked", "created")
    /\ shim' = [shim EXCEPT ![o] = "created"]
    /\ UNCHANGED <<ioVars, lock, poisoned, boxes, active, socketThread, listening, starts>>

\* The state of IoPath when a runtime comes up: only a UDP transport is there.
FreshIo ==
    LET udp == IF "udp" \in listening THEN 1 ELSE 0 IN
    /\ connection' = [a \in Associations |-> "none"]
    /\ writers' = {} /\ writerUp' = {}
    /\ writerQueue' = [a \in Associations |-> <<>>]
    /\ reads' = 0 /\ lastWritten' = [a \in Associations |-> 0]
    /\ transmits' = <<>> /\ commands' = <<>> /\ phase' = "idle"
    /\ receiveQueue' = <<>> /\ completionQueue' = <<>> /\ closeQueue' = <<>>
    /\ transport' = [c \in Channels |-> IF c = Udp THEN udp ELSE 0]
    /\ transportSequence' = udp
    /\ sendSequence' = 0
    /\ sendChannel' = [s \in Sends |-> Udp] /\ sendTransport' = [s \in Sends |-> 0]
    /\ pendingSends' = {} /\ refusedSends' = {} /\ callbacks' = [s \in Sends |-> 0]
    /\ delivered' = [c \in Channels |-> 0]
    /\ closedEvents' = {} /\ ioClosed' = {} /\ appCloses' = 0

\* gmv_sip_runtime_start; another active runtime is PJ_EBUSY.
StartShim(o) ==
    /\ Moves(o, "created", "started") /\ active \in {Nobody, o}
    /\ shim' = [shim EXCEPT ![o] = "started"] /\ active' = o
    /\ FreshIo
    /\ UNCHANGED <<lock, poisoned, boxes, socketThread, listening, starts>>

\* SocketIoRuntime::start spawns the thread and start returns the runtime.
SpawnSocketThread(o) ==
    /\ Moves(o, "started", "running")
    /\ socketThread' = [socketThread EXCEPT ![o] = "spawned"]
    /\ UNCHANGED <<ioVars, lock, poisoned, boxes, shim, active, listening, starts>>

Inactive(o) == IF active = o THEN Nobody ELSE active

\* create, start or spawn fails: the shim's runtime is released and destroyed if
\* there is one, then the locals of start go, the lock last.
StartFails(o) ==
    /\ stage[o] \in {"locked", "created", "started"}
    /\ stage' = [stage EXCEPT ![o] = "out"]
    /\ shim' = [shim EXCEPT ![o] = "none"] /\ active' = Inactive(o)
    /\ boxes' = boxes \ {o} /\ lock' = Nobody
    /\ IF stage[o] = "started" THEN Stop ELSE UNCHANGED ioVars
    /\ UNCHANGED <<poisoned, socketThread, listening, starts>>

-----------------------------------------------------------------------------
(* stop and drop.                                                            *)

\* SipRuntime::stop; a second stop does nothing.
StopRuntime(o) ==
    /\ Moves(o, "running", "stopped")
    /\ shim' = [shim EXCEPT ![o] = "released"] /\ active' = Inactive(o)
    /\ Stop
    /\ UNCHANGED <<lock, poisoned, boxes, socketThread, listening, starts>>

\* Faulty: the boxes go before the shim's runtime.
DropRuntimeBoxesFirst(o, panic) ==
    /\ stage[o] \in {"running", "stopped"} /\ phase \in {"idle", "stopped"}
    /\ stage' = [stage EXCEPT ![o] = "dropping"]
    /\ boxes' = boxes \ {o}
    /\ poisoned' = (poisoned \/ panic)
    /\ UNCHANGED <<ioVars, lock, shim, active, socketThread, listening, starts>>

\* Drop for SipRuntime, on shutdown, at the end of a scope or in a panic of the
\* owner between two calls: stop unless stopped, then destroy.
DropRuntime(o, panic) ==
    /\ stage[o] \in {"running", "stopped"}
    /\ stage' = [stage EXCEPT ![o] = "dropping"]
    /\ shim' = [shim EXCEPT ![o] = "none"] /\ active' = Inactive(o)
    /\ IF stage[o] = "running" THEN Stop ELSE UNCHANGED ioVars
    /\ poisoned' = (poisoned \/ panic)
    /\ UNCHANGED <<lock, boxes, socketThread, listening, starts>>

\* The fields behind it: the boxes, and with them the sender of SipTransmits, the
\* receiver of the commands; then Drop for SocketIoRuntime asks the thread to end.
DropFields(o) ==
    /\ Moves(o, "dropping", "joining")
    /\ boxes' = boxes \ {o}
    /\ UNCHANGED <<ioVars, lock, poisoned, shim, active, socketThread, listening, starts>>

\* Faulty: does not wait for the thread.
NotJoined(o) ==
    /\ Moves(o, "joining", "out")
    /\ lock' = Nobody
    /\ UNCHANGED <<ioVars, poisoned, ownVars, starts>>

\* thread.join() returns, and the guard is dropped.
Joined(o) ==
    /\ Moves(o, "joining", "out") /\ socketThread[o] \in {"failed", "ended"}
    /\ socketThread' = [socketThread EXCEPT ![o] = "none"]
    /\ lock' = Nobody
    /\ UNCHANGED <<ioVars, poisoned, boxes, shim, active, listening, starts>>

-----------------------------------------------------------------------------
(* The socket thread.                                                        *)

\* The thread builds its executor and run_io adopts the sockets; a socket it
\* cannot prepare is left out with a warning, TLS always is.
SocketThreadBegins(o) ==
    /\ socketThread[o] = "spawned"
    /\ socketThread' = [socketThread EXCEPT ![o] = "running"]
    /\ \E adopted \in SUBSET (listening \ {"tls"}) : listening' = adopted
    /\ UNCHANGED <<ioVars, stage, lock, poisoned, boxes, shim, active, starts>>

\* The executor cannot be built: the thread ends, its queue ends with it.
SocketThreadFails(o) ==
    /\ socketThread[o] = "spawned"
    /\ socketThread' = [socketThread EXCEPT ![o] = "failed"]
    /\ UNCHANGED <<ioVars, stage, lock, poisoned, boxes, shim, active, listening, starts>>

\* Faulty: the thread waits for the readers of its connections.
SocketThreadEndsLast(o) ==
    /\ socketThread[o] = "running" /\ stage[o] = "joining"
    /\ \A a \in Associations : connection[a] # "open"
    /\ socketThread' = [socketThread EXCEPT ![o] = "ended"]
    /\ UNCHANGED <<ioVars, stage, lock, poisoned, boxes, shim, active, listening, starts>>

\* The select loop of run_io sees the request to end.
SocketThreadEnds(o) ==
    /\ socketThread[o] = "running" /\ stage[o] = "joining"
    /\ socketThread' = [socketThread EXCEPT ![o] = "ended"]
    /\ UNCHANGED <<ioVars, stage, lock, poisoned, boxes, shim, active, listening, starts>>

SocketUp == \E o \in Owners : socketThread[o] = "running"

\* The tasks of the thread, for the sockets it has adopted.
Serve ==
    /\ SocketUp
    /\ \/ \E a \in Associations :
             \/ "tcp" \in listening /\ AcceptTcp(a)
             \/ ReadPacket(a) \/ ReaderExit(a) \/ WriterWrites(a) \/ WriterFails(a)
       \/ "udp" \in listening /\ ReadPacket(Udp)
    /\ UNCHANGED lifeVars

TakeTransmit == SocketUp /\ WriteTransmit /\ UNCHANGED lifeVars

\* runtime_send_callback when the thread has ended: try_send fails.
SendToNobody(c) ==
    /\ phase \in {"completions", "receives", "closes", "send"}
    /\ transport[c] # 0 /\ sendSequence < MaxSends
    /\ sendSequence' = sendSequence + 1
    /\ refusedSends' = refusedSends \cup {sendSequence + 1}
    /\ UNCHANGED <<socketVars, transmits, commands, phase, queueVars, transportVars,
                   sendChannel, sendTransport, pendingSends, callbacks, historyVars,
                   appCloses>>

Send(c) ==
    /\ IF \E o \in Owners : socketThread[o] = "failed" THEN SendToNobody(c)
                                                       ELSE TransportSend(c)
    /\ UNCHANGED lifeVars

RuntimeUp == \E o \in Owners : stage[o] = "running"

PollRuntime == RuntimeUp /\ Poll /\ UNCHANGED lifeVars

CloseTransport(a) == RuntimeUp /\ AppClose(a) /\ UNCHANGED lifeVars

-----------------------------------------------------------------------------
Starting(o) == CreateShim(o) \/ StartShim(o) \/ SpawnSocketThread(o) \/ StartFails(o)

Dropping(o) == DropFields(o) \/ Joined(o)

LifecycleNext ==
    \/ \E o \in Owners :
          \/ \E config \in Configs : StartRefused(o, config) \/ BeginStart(o, config)
          \/ Starting(o) \/ StopRuntime(o) \/ Dropping(o)
          \/ \E panic \in BOOLEAN : DropRuntime(o, panic)
          \/ SocketThreadBegins(o) \/ SocketThreadFails(o) \/ SocketThreadEnds(o)
    \/ Serve \/ TakeTransmit \/ PollRuntime
    \/ \E c \in Channels : Send(c)
    \/ \E a \in Associations : CloseTransport(a)

\* The owner of a running runtime keeps polling, a start and a drop run to their
\* end, and the socket thread is scheduled.  A connection that cannot be written is
\* also seen to end by its reader.  A writer may wait for its peer for ever: write_all
\* has no timeout.
LifecycleFairness ==
    /\ WF_lifecycleVars(PollRuntime) /\ WF_lifecycleVars(TakeTransmit)
    /\ \A o \in Owners :
          /\ WF_lifecycleVars(Starting(o)) /\ WF_lifecycleVars(Dropping(o))
          /\ WF_lifecycleVars(SocketThreadBegins(o) \/ SocketThreadFails(o))
          /\ WF_lifecycleVars(SocketThreadEnds(o))
    /\ \A a \in Associations :
          WF_lifecycleVars(SocketUp /\ a \notin writerUp /\ ReaderExit(a)
                           /\ UNCHANGED lifeVars)

LifecycleSpec ==
    LifecycleInit /\ [][LifecycleNext]_lifecycleVars /\ LifecycleFairness

-----------------------------------------------------------------------------
(* Properties.                                                              *)

\* The callbacks of the shim never find their state gone: as long as an owner's
\* C runtime exists, from create to destroy and on every failing path of start,
\* the boxes that its callbacks write to are allocated.
CallbackStateOutlivesShim == \A o \in Owners : shim[o] # "none" => o \in boxes

\* There is one runtime in the process at a time, whatever start fails or panics:
\* one owner inside start or with a runtime, one C runtime, one socket thread, and
\* g_active_runtime is nobody or one that is started.
OneRuntime ==
    /\ \A o, p \in Owners :
          /\ stage[o] # "out" /\ stage[p] # "out" => o = p
          /\ shim[o] # "none" /\ shim[p] # "none" => o = p
          /\ socketThread[o] # "none" => lock = o
    /\ active # Nobody => shim[active] = "started"

\* Nothing of a runtime stands in the way of the next: when none is left, after
\* a drop, a failed start or a panic that poisoned the lock, a start gets the lock
\* and the shim knows of no active runtime.
NextMayStart ==
    (\A o \in Owners : stage[o] = "out")
        => /\ \E config \in Configs : Accepted(config)
           /\ active = Nobody /\ boxes = {}

\* A drop comes to its end and frees the lock: the thread it joins never waits
\* for the owner or for a peer.
DropEnds == \A o \in Owners : stage[o] \in {"dropping", "joining"} ~> stage[o] = "out"

\* When the command queue never fills up, every send settles, with two exceptions:
\* the socket thread could not set up its executor, and the sends it had been given
\* are lost; or the send waits for good in the channel of the writer of a connection
\* that stays open, because the peer does not read.
SendSettlesOrPeerStalls ==
    \A s \in Sends :
        s \in pendingSends
            ~> \/ s \notin pendingSends
               \/ \E o \in Owners : socketThread[o] = "failed"
               \/ [](\E a \in Associations :
                        connection[a] = "open" /\ s \in Range(writerQueue[a]))
==============================================================================
