----------------------------- MODULE SourceGate -----------------------------
(***************************************************************************)
(* What the shim lets in besides REGISTER (gmv_on_rx_request): MESSAGE and *)
(* OPTIONS from a source the application allowed, an INVITE it announced   *)
(* beforehand, and each request once although clients repeat them.  The    *)
(* application edits the lists between two polls; they are cleaned up      *)
(* lazily, at a poll or when a request or a call looks at them.            *)
(*                                                                         *)
(* Everything runs on the owner thread, so a call is one step.  Recovery   *)
(* sources expire on the monotonic clock, the other lists on the wall      *)
(* clock.  A list that grows at its head is a set of numbered records: the *)
(* higher the number, the nearer to the head.  A memory allocation that    *)
(* fails is not modelled.                                                  *)
(***************************************************************************)
EXTENDS Integers, FiniteSets

CONSTANTS
    Devices,          \* device ids in From
    Places,           \* transport type and remote address of a packet
    CallIds, CSeqs,   \* Call-ID and CSeq number of a REGISTER
    SyncCSeqs,        \* CSeqs the application may pass with a source
    RecoveryTTLs,     \* ttl_ms of a recovery source
    Calls,            \* source_id and target_id of an announced INVITE
    InviteTTLs,       \* ttl_ms of an announced INVITE
    \* keys of requests (transport, association, Call-ID, CSeq, method, branch):
    MessageKeys, OptionsKeys, DialogKeys,
    DuplicateTTL,     \* GMV_SIP_DUPLICATE_REQUEST_TTL_MS
    DuplicateMax,     \* GMV_SIP_DUPLICATE_REQUEST_MAX
    \* Bounds of the model, not of the program:
    MaxClock,         \* largest clock value
    MaxSetBacks,      \* times the wall clock is set back
    MaxGrants,        \* calls of the application
    MaxEvents         \* requests that reach the application, per key

ASSUME GateAssumption ==
    /\ RecoveryTTLs \subseteq Nat \ {0} /\ InviteTTLs \subseteq Nat \ {0}
    /\ DuplicateTTL \in Nat \ {0} /\ DuplicateMax \in Nat \ {0}
    /\ MaxClock \in Nat /\ MaxSetBacks \in Nat /\ MaxGrants \in Nat /\ MaxEvents \in Nat
    /\ CSeqs \subseteq Nat \ {0} /\ SyncCSeqs \subseteq CSeqs

VARIABLES
    mono,             \* gmv_monotonic_ms
    wall,             \* gmv_now_ms
    setBacks,         \* how often the wall clock was set back
    sources,          \* runtime->registered_sources, by device
    registerOrder,    \* runtime->register_orders, by device
    allows,           \* runtime->incoming_invite_allows
    recent,           \* runtime->recent_requests
    recentCount,      \* runtime->recent_request_count
    grants,           \* calls of the application so far
    gate,             \* history: the last call or request, and its verdict
    accepted,         \* history: order of the last REGISTER that stands
    announced,        \* history: allow_incoming_invite calls per call and place
    invited,          \* history: INVITEs let in per call and place
    events,           \* history: REQUEST_RECEIVED events per key
    seenAt,           \* history: wall time a key was last seen
    recorded,         \* history: records made so far
    recordedAt,       \* history: number of the last record of a key
    lapsed            \* history: keys not seen for DuplicateTTL

clockVars  == <<mono, wall, setBacks>>
sourceVars == <<sources, registerOrder, gate, accepted>>
inviteVars == <<allows, announced, invited>>
recentVars == <<recent, recentCount, events, seenAt, recorded, recordedAt, lapsed>>
vars == <<clockVars, sourceVars, inviteVars, recentVars, grants>>

Orders     == [callId : CallIds, cseq : CSeqs]
SyncOrders == [callId : CallIds, cseq : SyncCSeqs]
NoOrder   == [callId |-> "none", cseq |-> 0]
NoSource  == [place |-> "nowhere", expires |-> 0]
NoVerdict == [dev |-> "none", place |-> "nowhere", method |-> "none", passed |-> FALSE]

Keys == MessageKeys \cup OptionsKeys \cup DialogKeys

Init ==
    /\ mono = 0 /\ wall = 1 /\ setBacks = 0
    /\ sources = [d \in Devices |-> NoSource]
    /\ registerOrder = [d \in Devices |-> NoOrder]
    /\ allows = {}
    /\ recent = {} /\ recentCount = 0
    /\ grants = 0
    /\ gate = NoVerdict
    /\ accepted = [d \in Devices |-> NoOrder]
    /\ announced = [c \in Calls \X Places |-> 0]
    /\ invited = [c \in Calls \X Places |-> 0]
    /\ events = [k \in Keys |-> 0]
    /\ seenAt = [k \in Keys |-> 0]
    /\ recorded = 0 /\ recordedAt = [k \in Keys |-> 0]
    /\ lapsed = {}

-----------------------------------------------------------------------------
(* Clocks.                                                                  *)

Lapsed(time) == {k \in Keys : seenAt[k] # 0 /\ seenAt[k] + DuplicateTTL <= time}

Tick ==
    /\ mono < MaxClock
    /\ mono' = mono + 1 /\ wall' = wall + 1
    /\ lapsed' = lapsed \cup Lapsed(wall + 1)
    /\ UNCHANGED <<setBacks, sourceVars, inviteVars, recent, recentCount, events,
                   seenAt, recorded, recordedAt, grants>>

SetClockBack ==
    /\ setBacks < MaxSetBacks
    /\ setBacks' = setBacks + 1
    /\ wall' \in 1 .. wall - 1
    /\ UNCHANGED <<mono, sourceVars, inviteVars, recentVars, grants>>

-----------------------------------------------------------------------------
(* Sources.                                                                 *)

\* gmv_cleanup_recovery_sources drops these devices, and their orders.
Ended(d) == sources[d].expires > 0 /\ sources[d].expires <= mono

SourcesSwept == [d \in Devices |-> IF Ended(d) THEN NoSource ELSE sources[d]]

\* Faulty: a source without an expiry counts as expired.
OrdersSweptZero ==
    [d \in Devices |-> IF sources[d].expires <= mono THEN NoOrder ELSE registerOrder[d]]

OrdersSwept == [d \in Devices |-> IF Ended(d) THEN NoOrder ELSE registerOrder[d]]

\* gmv_sip_runtime_poll sweeps after the timeouts.
PollSweep ==
    /\ sources' = SourcesSwept /\ registerOrder' = OrdersSwept
    /\ UNCHANGED <<clockVars, gate, accepted, inviteVars, recentVars, grants>>

\* Faulty: the Call-ID is not copied.
SyncedCSeq(kept, d, order) ==
    IF order = NoOrder THEN kept ELSE [kept EXCEPT ![d].cseq = order.cseq]

\* gmv_sync_register_order, on the orders "kept".
Synced(kept, d, order) == IF order = NoOrder THEN kept ELSE [kept EXCEPT ![d] = order]

Says(d, p, method, passed) ==
    gate' = [dev |-> d, place |-> p, method |-> method, passed |-> passed]

\* A call of the application.
Call ==
    /\ grants < MaxGrants
    /\ grants' = grants + 1

\* Faulty: a recovery source keeps its expiry when it is promoted.
AllowRegisteredExpiring(d, p, order) ==
    /\ Call
    /\ sources' = [sources EXCEPT ![d] = [place |-> p, expires |-> @.expires]]
    /\ registerOrder' = Synced(registerOrder, d, order)
    /\ Says(d, p, "register", TRUE)
    /\ UNCHANGED <<clockVars, accepted, inviteVars, recentVars>>

AllowRegistered(d, p, order) ==
    /\ Call
    /\ sources' = [sources EXCEPT ![d] = [place |-> p, expires |-> 0]]
    /\ registerOrder' = Synced(registerOrder, d, order)
    /\ Says(d, p, "register", TRUE)
    /\ UNCHANGED <<clockVars, accepted, inviteVars, recentVars>>

IsRegistered(d) == sources[d] # NoSource /\ sources[d].expires = 0

\* A recovery source does not touch a registered one.
AllowRecovery(d, p, order, ttl) ==
    /\ Call
    /\ \/ /\ IsRegistered(d)
          /\ sources' = SourcesSwept /\ registerOrder' = OrdersSwept
       \/ /\ ~IsRegistered(d)
          /\ sources' = [SourcesSwept EXCEPT ![d] = [place |-> p, expires |-> mono + ttl]]
          /\ registerOrder' = Synced(OrdersSwept, d, order)
    /\ Says(d, p, "recover", ~IsRegistered(d))
    /\ UNCHANGED <<clockVars, accepted, inviteVars, recentVars>>

RemoveRegistered(d) ==
    /\ Call
    /\ sources' = [sources EXCEPT ![d] = NoSource]
    /\ registerOrder' = [registerOrder EXCEPT ![d] = NoOrder]
    /\ accepted' = [accepted EXCEPT ![d] = NoOrder]
    /\ Says(d, "nowhere", "remove", TRUE)
    /\ UNCHANGED <<clockVars, inviteVars, recentVars>>

\* gmv_register_order_is_stale and gmv_commit_register_order: a REGISTER of the
\* device is answered with 200 (RegisterAuth has the rest of its story).
AcceptRegister(d, order, unregister) ==
    /\ registerOrder[d].callId = order.callId => order.cseq >= registerOrder[d].cseq
    /\ LET after == IF unregister THEN NoOrder ELSE order
       IN  /\ registerOrder' = [registerOrder EXCEPT ![d] = after]
           /\ accepted' = [accepted EXCEPT ![d] = after]
    /\ UNCHANGED <<clockVars, sources, gate, inviteVars, recentVars, grants>>

-----------------------------------------------------------------------------
(* Repeated requests.                                                       *)

\* gmv_cleanup_recent_requests
RecentSwept == {r \in recent : r.expires > wall}

CountSwept == recentCount - Cardinality(recent \ RecentSwept)

Known(k) == \E r \in RecentSwept : r.key = k

\* Faulty: the time of a known key does not start again.
RefreshNot(k) ==
    /\ recent' = RecentSwept /\ recentCount' = CountSwept
    /\ UNCHANGED <<events, recorded, recordedAt>>

\* gmv_recent_request_seen finds the key: its time starts again, its place in
\* the list stays.
Refresh(k) ==
    /\ recent' = {IF r.key = k THEN [r EXCEPT !.expires = wall + DuplicateTTL] ELSE r :
                    r \in RecentSwept}
    /\ recentCount' = CountSwept
    /\ UNCHANGED <<events, recorded, recordedAt>>

\* Faulty: one record too many is kept.
TrimOneMore(longer, count) ==
    \/ count <= DuplicateMax + 1 /\ recent' = longer /\ recentCount' = count
    \/ /\ count > DuplicateMax + 1
       /\ \E oldest \in longer :
            /\ \A r \in longer : oldest.number <= r.number
            /\ recent' = longer \ {oldest} /\ recentCount' = count - 1

\* gmv_trim_recent_requests drops the record at the end of the list; with one
\* call for each record its loop runs once at most.
Trim(longer, count) ==
    \/ count <= DuplicateMax /\ recent' = longer /\ recentCount' = count
    \/ /\ count > DuplicateMax
       /\ \E oldest \in longer :
            /\ \A r \in longer : oldest.number <= r.number
            /\ recent' = longer \ {oldest} /\ recentCount' = count - 1

\* ... or the key is recorded at the head of the list.
Record(k) ==
    /\ events[k] < MaxEvents
    /\ Trim(RecentSwept \cup
              {[key |-> k, expires |-> wall + DuplicateTTL, number |-> recorded + 1]},
            CountSwept + 1)
    /\ events' = [events EXCEPT ![k] = @ + 1]
    /\ recorded' = recorded + 1
    /\ recordedAt' = [recordedAt EXCEPT ![k] = recorded + 1]

\* gmv_recent_request_seen and the REQUEST_RECEIVED event of a fresh request.
See(k) ==
    /\ (Known(k) /\ Refresh(k)) \/ (~Known(k) /\ Record(k))
    /\ seenAt' = [seenAt EXCEPT ![k] = wall]
    /\ lapsed' = lapsed \ {k}

-----------------------------------------------------------------------------
(* gmv_on_rx_request.                                                       *)

\* gmv_registered_source_allowed
Allowed(d, p, method) ==
    LET source == SourcesSwept[d]
    IN  /\ source # NoSource /\ source.place = p
        /\ source.expires = 0 \/ method = "MESSAGE"

\* A MESSAGE or OPTIONS is dropped without a trace, or answered with 200.
RxRequest(d, p, method, k) ==
    /\ Says(d, p, method, Allowed(d, p, method))
    /\ sources' = SourcesSwept /\ registerOrder' = OrdersSwept
    /\ \/ Allowed(d, p, method) /\ See(k)
       \/ ~Allowed(d, p, method) /\ UNCHANGED recentVars
    /\ UNCHANGED <<clockVars, accepted, inviteVars, grants>>

\* ACK, BYE and CANCEL pass to PJSIP's own layers whether repeated or not.
RxInDialog(k) ==
    /\ See(k)
    /\ UNCHANGED <<clockVars, sourceVars, inviteVars, grants>>

\* gmv_cleanup_incoming_invite_allows
AllowsSwept == {a \in allows : a.expires > wall}

AllowIncomingInvite(c, p, ttl) ==
    /\ Call
    /\ allows' = AllowsSwept \cup
         {[call |-> c, place |-> p, expires |-> wall + ttl, number |-> grants + 1]}
    /\ announced' = [announced EXCEPT ![<<c, p>>] = @ + 1]
    /\ UNCHANGED <<clockVars, sourceVars, invited, recentVars>>

Matching(c, p) == {a \in AllowsSwept : a.call = c /\ a.place = p}

\* Faulty: the announcement is not used up.
RxInviteKeeps(c, p) ==
    /\ allows' = AllowsSwept
    /\ invited' = [invited EXCEPT ![<<c, p>>] = @ + IF Matching(c, p) = {} THEN 0 ELSE 1]
    /\ UNCHANGED <<clockVars, sourceVars, announced, recentVars, grants>>

\* gmv_consume_incoming_invite_allow: the first match is used up; without one
\* the INVITE is dropped.
RxInvite(c, p) ==
    /\ \/ Matching(c, p) = {} /\ allows' = AllowsSwept /\ UNCHANGED invited
       \/ \E first \in Matching(c, p) :
            /\ \A a \in Matching(c, p) : a.number <= first.number
            /\ allows' = AllowsSwept \ {first}
            /\ invited' = [invited EXCEPT ![<<c, p>>] = @ + 1]
    /\ UNCHANGED <<clockVars, sourceVars, announced, recentVars, grants>>

-----------------------------------------------------------------------------
Application ==
    \/ \E d \in Devices :
         \/ RemoveRegistered(d)
         \/ \E p \in Places, order \in SyncOrders \cup {NoOrder} :
              \/ AllowRegistered(d, p, order)
              \/ \E ttl \in RecoveryTTLs : AllowRecovery(d, p, order, ttl)
    \/ \E c \in Calls, p \in Places, ttl \in InviteTTLs : AllowIncomingInvite(c, p, ttl)

Rx ==
    \/ \E d \in Devices, p \in Places :
         \/ \E k \in MessageKeys : RxRequest(d, p, "MESSAGE", k)
         \/ \E k \in OptionsKeys : RxRequest(d, p, "OPTIONS", k)
    \/ \E k \in DialogKeys : RxInDialog(k)
    \/ \E c \in Calls, p \in Places : RxInvite(c, p)
    \/ \E d \in Devices, order \in Orders, unregister \in BOOLEAN :
         AcceptRegister(d, order, unregister)

Next == Tick \/ SetClockBack \/ PollSweep \/ Application \/ Rx

Spec == Init /\ [][Next]_vars

-----------------------------------------------------------------------------
(* Properties.                                                              *)

\* Every variable has its type.
TypeOK ==
    /\ mono \in Nat /\ wall \in Nat /\ setBacks \in Nat /\ grants \in Nat
    /\ sources \in [Devices -> [place : Places \cup {"nowhere"}, expires : Nat]]
    /\ registerOrder \in [Devices -> Orders \cup {NoOrder}]
    /\ accepted \in [Devices -> Orders \cup {NoOrder}]
    /\ allows \subseteq [call : Calls, place : Places, expires : Nat, number : Nat]
    /\ recent \subseteq [key : Keys, expires : Nat, number : Nat] /\ recentCount \in Int
    /\ events \in [Keys -> Nat] /\ seenAt \in [Keys -> Nat]
    /\ recorded \in Nat /\ recordedAt \in [Keys -> Nat]
    /\ announced \in [Calls \X Places -> Nat] /\ invited \in [Calls \X Places -> Nat]
    /\ lapsed \subseteq Keys
    /\ gate.passed \in BOOLEAN

\* The list of sources, cleaned up now and then, keeps the promise
\* of SourceGrants at every moment.
Grants == INSTANCE SourceGrants WITH
    clock   <- mono,
    grant   <- [d \in Devices |->
                  IF sources[d] = NoSource \/ Ended(d)
                  THEN [place |-> "nowhere", until |-> 0]
                  ELSE [place |-> sources[d].place, until |-> sources[d].expires]],
    verdict <- gate

GateKeepsPromise == Grants!Spec

\* The clean-up of recovery sources (gmv_cleanup_recovery_sources) never takes
\* the order of a registered device: while a device stays registered its order
\* is lost only to an unregister.
OrderKeptWhileRegistered ==
    [][\A d \in Devices :
           /\ IsRegistered(d) /\ sources'[d] = sources[d]
           /\ registerOrder[d] # NoOrder /\ registerOrder'[d] = NoOrder
           => \E order \in Orders : AcceptRegister(d, order, TRUE)]_vars

\* An announcement lets in one INVITE: those let in and those still announced
\* are never more than the calls of allow_incoming_invite.
InviteOncePerAllow ==
    \A c \in Calls, p \in Places :
        invited[<<c, p>>] + Cardinality({a \in allows : a.call = c /\ a.place = p})
            <= announced[<<c, p>>]

\* The record of recent requests names a key once, its counter is its size,
\* and neither exceeds DuplicateMax.
RecentAccounting ==
    /\ recentCount = Cardinality(recent) /\ recentCount <= DuplicateMax
    /\ \A r, s \in recent : r.key = s.key => r = s

\* The application hears of a repeated request again only after the request
\* was not seen for DuplicateTTL, or after DuplicateMax other requests were
\* recorded since it was.
DuplicateSuppressed ==
    [][\A k \in Keys : events'[k] > events[k] /\ events[k] > 0 =>
           k \in lapsed \/ recorded - recordedAt[k] >= DuplicateMax]_vars

\* What runtime_rejects_register_cseq_rollback_before_success_response shows of
\* two REGISTERs in a row: while a registration stands, none of its Call-ID is
\* accepted with a lower CSeq.
RollbackRejected ==
    [][\A d \in Devices :
           accepted[d] # NoOrder /\ accepted'[d].callId = accepted[d].callId =>
               accepted'[d].cseq >= accepted[d].cseq]_vars

=============================================================================
