-------------------------- MODULE SourceGateProofs --------------------------
(***************************************************************************)
(* Theorems about SourceGate for every value of its constants: the list of *)
(* sources keeps the promise of SourceGrants, the orders of registered     *)
(* devices stay, an announcement lets in one INVITE, and a repeated        *)
(* request is kept from the application.                                   *)
(***************************************************************************)
EXTENDS SourceGate, FiniteSetTheorems, TLAPS

\* A leaf that does not name its prover is first-order reasoning, for Zenon.
USE ZenonT(20)

-----------------------------------------------------------------------------
(* Type correctness, list by list.                                           *)

ClockType ==
    mono \in Nat /\ wall \in Nat \ {0} /\ setBacks \in Nat /\ grants \in Nat

SourceType ==
    /\ sources \in [Devices -> [place : Places \cup {"nowhere"}, expires : Nat]]
    /\ registerOrder \in [Devices -> Orders \cup {NoOrder}]
    /\ accepted \in [Devices -> Orders \cup {NoOrder}]
    /\ gate.passed \in BOOLEAN

InviteType ==
    /\ allows \subseteq [call : Calls, place : Places, expires : Nat, number : Nat]
    /\ announced \in [Calls \X Places -> Nat] /\ invited \in [Calls \X Places -> Nat]

RecentType ==
    /\ recent \subseteq [key : Keys, expires : Nat, number : Nat]
    /\ IsFiniteSet(recent) /\ recentCount \in Int
    /\ events \in [Keys -> Nat] /\ seenAt \in [Keys -> Nat]
    /\ recorded \in Nat /\ recordedAt \in [Keys -> Nat]
    /\ lapsed \subseteq Keys

Types == ClockType /\ SourceType /\ InviteType /\ RecentType

\* An order of a call is one of the orders.
LEMMA SyncedType ==
    ASSUME NEW kept \in [Devices -> Orders \cup {NoOrder}], NEW d \in Devices,
           NEW order \in SyncOrders \cup {NoOrder}
    PROVE  Synced(kept, d, order) \in [Devices -> Orders \cup {NoOrder}]
<1>1. order \in Orders \cup {NoOrder}
  BY GateAssumption DEF SyncOrders, Orders
<1> QED BY <1>1 DEF Synced

\* The clean-up keeps the types of the sources and their orders.
LEMMA SweptType ==
    ASSUME SourceType
    PROVE  /\ SourcesSwept \in [Devices -> [place : Places \cup {"nowhere"}, expires : Nat]]
           /\ OrdersSwept \in [Devices -> Orders \cup {NoOrder}]
<1>1. NoSource \in [place : Places \cup {"nowhere"}, expires : Nat]
  BY DEF NoSource
<1> QED BY <1>1 DEF SourceType, SourcesSwept, OrdersSwept

\* What is let through is a truth value.
LEMMA SaysType ==
    ASSUME NEW d, NEW p, NEW method, NEW passed \in BOOLEAN, Says(d, p, method, passed)
    PROVE  gate'.passed \in BOOLEAN
BY DEF Says

\* A call of the application counts.
LEMMA CallType ==
    ASSUME ClockType, Call, UNCHANGED clockVars
    PROVE  ClockType'
BY SMT DEF ClockType, Call, clockVars

\* The clean-up at a poll keeps the types, ...
LEMMA PollSweepType ==
    ASSUME ClockType, SourceType, PollSweep
    PROVE  ClockType' /\ SourceType' /\ UNCHANGED <<inviteVars, recentVars>>
BY SweptType DEF PollSweep, ClockType, SourceType, clockVars

\* ... and so do the calls about sources: gmv_sip_runtime_remove_registered_source,
LEMMA RemoveRegisteredType ==
    ASSUME ClockType, SourceType, NEW d \in Devices, RemoveRegistered(d)
    PROVE  ClockType' /\ SourceType' /\ UNCHANGED <<inviteVars, recentVars>>
<1> USE DEF SourceType
<1>1. ClockType' /\ UNCHANGED <<inviteVars, recentVars>>
  BY CallType DEF RemoveRegistered
<1>2. gate'.passed \in BOOLEAN
  BY SaysType DEF RemoveRegistered
<1>3. sources' \in [Devices -> [place : Places \cup {"nowhere"}, expires : Nat]]
  BY DEF RemoveRegistered, NoSource
<1>4. /\ registerOrder' \in [Devices -> Orders \cup {NoOrder}]
      /\ accepted' \in [Devices -> Orders \cup {NoOrder}]
  BY DEF RemoveRegistered
<1> QED BY <1>1, <1>2, <1>3, <1>4

\* the one that allows a registered source,
LEMMA AllowRegisteredType ==
    ASSUME ClockType, SourceType, NEW d \in Devices, NEW p \in Places,
           NEW order \in SyncOrders \cup {NoOrder}, AllowRegistered(d, p, order)
    PROVE  ClockType' /\ SourceType' /\ UNCHANGED <<inviteVars, recentVars>>
<1> USE DEF SourceType
<1>1. ClockType' /\ UNCHANGED <<inviteVars, recentVars, accepted>>
  BY CallType DEF AllowRegistered
<1>2. gate'.passed \in BOOLEAN
  BY SaysType DEF AllowRegistered
<1>3. sources' \in [Devices -> [place : Places \cup {"nowhere"}, expires : Nat]]
  BY DEF AllowRegistered
<1>4. registerOrder' \in [Devices -> Orders \cup {NoOrder}]
  BY SyncedType DEF AllowRegistered
<1> QED BY <1>1, <1>2, <1>3, <1>4

\* and the one that allows a recovery source.
LEMMA AllowRecoveryType ==
    ASSUME ClockType, SourceType, NEW d \in Devices, NEW p \in Places,
           NEW order \in SyncOrders \cup {NoOrder}, NEW ttl \in RecoveryTTLs,
           AllowRecovery(d, p, order, ttl)
    PROVE  ClockType' /\ SourceType' /\ UNCHANGED <<inviteVars, recentVars>>
<1> USE DEF SourceType
<1>1. ClockType' /\ UNCHANGED <<inviteVars, recentVars, accepted>>
  BY CallType DEF AllowRecovery
<1>2. gate'.passed \in BOOLEAN
  BY SaysType DEF AllowRecovery, IsRegistered
<1>3. [place |-> p, expires |-> mono + ttl] \in [place : Places \cup {"nowhere"}, expires : Nat]
  BY SMT, GateAssumption DEF ClockType
<1>4. sources' \in [Devices -> [place : Places \cup {"nowhere"}, expires : Nat]]
  <2>1. \/ sources' = SourcesSwept
        \/ sources' = [SourcesSwept EXCEPT ![d] = [place |-> p, expires |-> mono + ttl]]
    BY DEF AllowRecovery
  <2>2. SourcesSwept \in [Devices -> [place : Places \cup {"nowhere"}, expires : Nat]]
    BY SweptType
  <2> QED BY <1>3, <2>1, <2>2
<1>5. registerOrder' \in [Devices -> Orders \cup {NoOrder}]
  <2>1. OrdersSwept \in [Devices -> Orders \cup {NoOrder}]
    BY SweptType
  <2>2. Synced(OrdersSwept, d, order) \in [Devices -> Orders \cup {NoOrder}]
    BY <2>1, SyncedType
  <2> QED BY <2>1, <2>2 DEF AllowRecovery
<1> QED BY <1>1, <1>2, <1>4, <1>5

\* A REGISTER that is accepted keeps them too.
LEMMA AcceptType ==
    ASSUME SourceType, NEW d \in Devices, NEW order \in Orders, NEW unregister \in BOOLEAN,
           AcceptRegister(d, order, unregister)
    PROVE  SourceType' /\ UNCHANGED <<clockVars, sources, gate, inviteVars, recentVars, grants>>
BY DEF SourceType, AcceptRegister

\* The record with the time of one key started again.
Refreshed(S, k, time) == {IF r.key = k THEN [r EXCEPT !.expires = time] ELSE r : r \in S}

\* Starting a time again makes no record more ...
LEMMA RefreshedSize ==
    ASSUME NEW S, IsFiniteSet(S), NEW k, NEW time
    PROVE  IsFiniteSet(Refreshed(S, k, time)) /\ Cardinality(Refreshed(S, k, time)) <= Cardinality(S)
<1> DEFINE f == [r \in S |-> IF r.key = k THEN [r EXCEPT !.expires = time] ELSE r]
<1>1. f \in Surjection(S, Refreshed(S, k, time))
  BY DEF Surjection, Refreshed
<1> QED BY <1>1, FS_Surjection

\* What is left of the record of recent requests, with the key in it, has the
\* types of the record.
LEMMA SeeType ==
    ASSUME ClockType, RecentType, NEW k \in Keys, See(k)
    PROVE  RecentType'
<1> DEFINE R == [key : Keys, expires : Nat, number : Nat]
<1>1. RecentSwept \subseteq R /\ IsFiniteSet(RecentSwept) /\ CountSwept \in Int
  <2>1. RecentSwept \subseteq recent /\ recent \ RecentSwept \subseteq recent
    BY DEF RecentSwept
  <2>2. IsFiniteSet(RecentSwept) /\ IsFiniteSet(recent \ RecentSwept)
    BY <2>1, FS_Subset DEF RecentType
  <2>3. Cardinality(recent \ RecentSwept) \in Nat
    BY <2>2, FS_CardinalityType
  <2> QED BY SMT, <2>1, <2>2, <2>3 DEF CountSwept, RecentType
<1>2. wall + DuplicateTTL \in Nat /\ wall \in Nat
  BY SMT, GateAssumption DEF ClockType
<1>3. seenAt' \in [Keys -> Nat] /\ lapsed' \subseteq Keys
  BY <1>2 DEF See, RecentType
<1>4. CASE Refresh(k)
  <2>1. recent' \subseteq R
    BY <1>1, <1>2, <1>4 DEF Refresh
  <2>2. IsFiniteSet(recent')
    <3>1. recent' = Refreshed(RecentSwept, k, wall + DuplicateTTL)
      BY <1>4 DEF Refresh, Refreshed
    <3> QED BY <1>1, <3>1, RefreshedSize
  <2> QED BY <1>1, <1>3, <1>4, <2>1, <2>2 DEF Refresh, RecentType
<1>5. CASE Record(k)
  <2> DEFINE fresh == [key |-> k, expires |-> wall + DuplicateTTL, number |-> recorded + 1]
             longer == RecentSwept \cup {fresh}
  <2>1. fresh \in R
    BY SMT, <1>2 DEF RecentType
  <2>2. /\ Trim(longer, CountSwept + 1)
        /\ events' \in [Keys -> Nat] /\ recorded' \in Nat /\ recordedAt' \in [Keys -> Nat]
    BY SMT, <1>5 DEF Record, RecentType
  <2>3. longer \subseteq R /\ IsFiniteSet(longer)
    BY <1>1, <2>1, FS_AddElement
  <2> HIDE DEF longer
  <2>4. recent' \subseteq R /\ recentCount' \in Int /\ IsFiniteSet(recent')
    BY SMT, <1>1, <2>2, <2>3, FS_RemoveElement DEF Trim
  <2> QED BY <1>3, <2>2, <2>4 DEF RecentType
<1> QED BY <1>4, <1>5 DEF See

\* Announcing an INVITE keeps the types, ...
LEMMA AllowInviteType ==
    ASSUME ClockType, InviteType, NEW c \in Calls, NEW p \in Places, NEW ttl \in InviteTTLs,
           AllowIncomingInvite(c, p, ttl)
    PROVE  ClockType' /\ InviteType' /\ UNCHANGED <<sourceVars, recentVars>>
<1> DEFINE A == [call : Calls, place : Places, expires : Nat, number : Nat]
<1>0. AllowsSwept \subseteq A
  BY DEF AllowsSwept, InviteType
<1>1. [call |-> c, place |-> p, expires |-> wall + ttl, number |-> grants + 1] \in A
  BY SMT, GateAssumption DEF ClockType
<1>2. allows' \subseteq A
  BY <1>0, <1>1 DEF AllowIncomingInvite
<1>3. ClockType' /\ UNCHANGED <<sourceVars, recentVars>>
  BY CallType DEF AllowIncomingInvite
<1>4. announced' \in [Calls \X Places -> Nat] /\ invited' \in [Calls \X Places -> Nat]
  BY SMT DEF AllowIncomingInvite, InviteType
<1> QED BY <1>2, <1>3, <1>4 DEF InviteType

\* ... and so does an INVITE.
LEMMA RxInviteType ==
    ASSUME ClockType, InviteType, NEW c \in Calls, NEW p \in Places, RxInvite(c, p)
    PROVE  ClockType' /\ InviteType' /\ UNCHANGED <<sourceVars, recentVars>>
<1> DEFINE A == [call : Calls, place : Places, expires : Nat, number : Nat]
<1>0. AllowsSwept \subseteq A
  BY DEF AllowsSwept, InviteType
<1>1. allows' \subseteq A
  BY <1>0 DEF RxInvite
<1>2. announced' \in [Calls \X Places -> Nat] /\ invited' \in [Calls \X Places -> Nat]
  BY SMT DEF RxInvite, InviteType
<1>3. ClockType' /\ UNCHANGED <<sourceVars, recentVars>>
  BY DEF RxInvite, ClockType, clockVars
<1> QED BY <1>1, <1>2, <1>3 DEF InviteType

\* A MESSAGE or OPTIONS keeps them.
LEMMA RxRequestType ==
    ASSUME Types, NEW d \in Devices, NEW p \in Places, NEW method, NEW k \in Keys,
           RxRequest(d, p, method, k)
    PROVE  Types'
<1> USE DEF Types
<1>1. ClockType' /\ InviteType'
  BY DEF RxRequest, clockVars, inviteVars, ClockType, InviteType
<1>2. SourceType'
  <2>1. sources' = SourcesSwept /\ registerOrder' = OrdersSwept /\ UNCHANGED accepted
    BY DEF RxRequest
  <2>2. gate'.passed \in BOOLEAN
    BY SaysType DEF RxRequest, Allowed
  <2> QED BY <2>1, <2>2, SweptType DEF SourceType
<1>3. RecentType'
  <2>1. CASE See(k)
    BY <2>1, SeeType
  <2>2. CASE UNCHANGED recentVars
    BY <2>2 DEF recentVars, RecentType
  <2> QED BY <2>1, <2>2 DEF RxRequest
<1> QED BY <1>1, <1>2, <1>3

\* Lists that a step does not touch keep their types.
LEMMA QuietTypes ==
    /\ ClockType /\ UNCHANGED <<clockVars, grants>> => ClockType'
    /\ SourceType /\ UNCHANGED sourceVars => SourceType'
    /\ InviteType /\ UNCHANGED inviteVars => InviteType'
    /\ RecentType /\ UNCHANGED recentVars => RecentType'
<1>1. ClockType /\ UNCHANGED <<clockVars, grants>> => ClockType'
  BY DEF ClockType, clockVars
<1>2. SourceType /\ UNCHANGED sourceVars => SourceType'
  BY DEF SourceType, sourceVars
<1>3. InviteType /\ UNCHANGED inviteVars => InviteType'
  BY DEF InviteType, inviteVars
<1>4. RecentType /\ UNCHANGED recentVars => RecentType'
  BY DEF RecentType, recentVars
<1> QED BY <1>1, <1>2, <1>3, <1>4

\* Time keeps them.
LEMMA ClockStepType ==
    ASSUME Types, Tick \/ SetClockBack
    PROVE  Types'
<1>1. SourceType' /\ InviteType'
  BY QuietTypes DEF Types, Tick, SetClockBack
<1>2. ClockType'
  BY SMT DEF Types, ClockType, Tick, SetClockBack
<1>3. RecentType'
  <2>1. CASE Tick
    BY <2>1 DEF Types, RecentType, Tick, Lapsed
  <2>2. CASE SetClockBack
    BY <2>2, QuietTypes DEF Types, SetClockBack
  <2> QED BY <2>1, <2>2
<1> QED BY <1>1, <1>2, <1>3 DEF Types

\* Every step keeps the types.
LEMMA TypeStep ==
    ASSUME Types, [Next]_vars
    PROVE  Types'
<1>1. CASE Tick \/ SetClockBack
  BY <1>1, ClockStepType
<1>2. CASE PollSweep
  BY <1>2, PollSweepType, QuietTypes DEF Types
<1>3. ASSUME NEW d \in Devices, RemoveRegistered(d)
      PROVE  Types'
  BY <1>3, RemoveRegisteredType, QuietTypes DEF Types
<1>4. ASSUME NEW d \in Devices, NEW p \in Places, NEW order \in SyncOrders \cup {NoOrder},
             AllowRegistered(d, p, order)
      PROVE  Types'
  BY <1>4, AllowRegisteredType, QuietTypes DEF Types
<1>5. ASSUME NEW d \in Devices, NEW p \in Places, NEW order \in SyncOrders \cup {NoOrder},
             NEW ttl \in RecoveryTTLs, AllowRecovery(d, p, order, ttl)
      PROVE  Types'
  BY <1>5, AllowRecoveryType, QuietTypes DEF Types
<1>6. ASSUME NEW c \in Calls, NEW p \in Places, NEW ttl \in InviteTTLs,
             AllowIncomingInvite(c, p, ttl)
      PROVE  Types'
  BY <1>6, AllowInviteType, QuietTypes DEF Types
<1>7. ASSUME NEW d \in Devices, NEW p \in Places, NEW method, NEW k \in Keys,
             RxRequest(d, p, method, k)
      PROVE  Types'
  BY <1>7, RxRequestType
<1>8. ASSUME NEW k \in Keys, RxInDialog(k)
      PROVE  Types'
  BY <1>8, SeeType, QuietTypes DEF Types, RxInDialog
<1>9. ASSUME NEW c \in Calls, NEW p \in Places, RxInvite(c, p)
      PROVE  Types'
  BY <1>9, RxInviteType, QuietTypes DEF Types
<1>10. ASSUME NEW d \in Devices, NEW order \in Orders, NEW unregister \in BOOLEAN,
              AcceptRegister(d, order, unregister)
       PROVE  Types'
  BY <1>10, AcceptType, QuietTypes DEF Types
<1>11. CASE UNCHANGED vars
  BY <1>11, QuietTypes DEF vars, Types
<1> QED
  BY <1>1, <1>2, <1>3, <1>4, <1>5, <1>6, <1>7, <1>8, <1>9, <1>10, <1>11
  DEF Next, Application, Rx, Keys

\* The types hold at every moment; the clean-ups and the trim of a list put
\* nothing else in it.
THEOREM TypesCorrect == Spec => []Types
<1>1. Init => Types
  BY SMT, GateAssumption, FS_EmptySet DEF Init, Types, ClockType, SourceType, InviteType, RecentType,
     NoSource, NoVerdict
<1>2. Types /\ [Next]_vars => Types'
  BY TypeStep
<1> QED BY <1>1, <1>2, PTL DEF Spec

\* Every variable of SourceGate has its type.
THEOREM GateTypeCorrect == Spec => []TypeOK
<1>1. Types => TypeOK
  BY DEF Types, ClockType, SourceType, InviteType, RecentType, TypeOK
<1> QED BY <1>1, TypesCorrect, PTL

-----------------------------------------------------------------------------
(* The sources refine SourceGrants.                                          *)

\* The grant of a device that the list of sources stands for.
GrantOf(d) ==
    IF sources[d] = NoSource \/ Ended(d)
    THEN [place |-> "nowhere", until |-> 0]
    ELSE [place |-> sources[d].place, until |-> sources[d].expires]

GrantsOf == [d \in Devices |-> GrantOf(d)]

\* A source is its two fields.
LEMMA SourceFields ==
    ASSUME SourceType, NEW d \in Devices
    PROVE  /\ sources[d].expires \in Nat
           /\ sources[d] = [place |-> sources[d].place, expires |-> sources[d].expires]
BY DEF SourceType

\* A device is registered in the list just when its grant has no end.
LEMMA SameRegistered ==
    ASSUME SourceType, NEW d \in Devices
    PROVE  IsRegistered(d) <=> GrantOf(d) # [place |-> "nowhere", until |-> 0]
                               /\ GrantOf(d).until = 0
<1>1. /\ sources[d].expires \in Nat
      /\ sources[d] = [place |-> sources[d].place, expires |-> sources[d].expires]
  BY SourceFields
<1> QED BY SMT, <1>1 DEF IsRegistered, GrantOf, NoSource, Ended

\* The gate lets through what the grant lets through.
LEMMA SameVerdict ==
    ASSUME SourceType, NEW d \in Devices, NEW p, NEW method
    PROVE  Allowed(d, p, method) <=>
             /\ GrantOf(d) # [place |-> "nowhere", until |-> 0] /\ GrantOf(d).place = p
             /\ IsRegistered(d) \/ method = "MESSAGE"
<1>1. /\ sources[d].expires \in Nat
      /\ sources[d] = [place |-> sources[d].place, expires |-> sources[d].expires]
  BY SourceFields
<1>2. SourcesSwept[d] = IF Ended(d) THEN NoSource ELSE sources[d]
  BY DEF SourcesSwept
<1>3. CASE Ended(d)
  BY <1>2, <1>3 DEF Allowed, GrantOf
<1>4. CASE ~Ended(d)
  BY <1>1, <1>2, <1>4 DEF Allowed, GrantOf, IsRegistered, NoSource
<1> QED BY <1>3, <1>4

\* The clean-up takes no grant away: it drops sources whose grant has ended.
LEMMA SweepKeepsGrants ==
    ASSUME SourceType, NEW D \in SUBSET Devices, UNCHANGED mono,
           \A d \in D : sources'[d] = SourcesSwept[d]
    PROVE  \A d \in D : GrantOf(d)' = GrantOf(d)
<1> SUFFICES ASSUME NEW d \in D PROVE GrantOf(d)' = GrantOf(d)
  OBVIOUS
<1>1. sources'[d] = IF Ended(d) THEN NoSource ELSE sources[d]
  BY DEF SourcesSwept
<1> QED BY <1>1 DEF GrantOf, Ended, NoSource

\* A step of the gate that leaves the sources, the monotonic clock and the
\* verdict alone changes no grant.
LEMMA QuietGrants ==
    ASSUME UNCHANGED <<mono, sources, gate>>
    PROVE  UNCHANGED <<mono, GrantsOf, gate>>
BY DEF GrantsOf, GrantOf, Ended

\* Time ends the recovery grants whose time has come, at that moment.
LEMMA TickAdvances ==
    ASSUME ClockType, SourceType, Tick
    PROVE  Grants!Advance
<1>1. mono' = mono + 1 /\ UNCHANGED <<sources, gate>> /\ mono \in Nat
  BY DEF Tick, sourceVars, ClockType
<1>2. ASSUME NEW d \in Devices
      PROVE  GrantOf(d)' = IF GrantOf(d).until = mono + 1
                           THEN [place |-> "nowhere", until |-> 0] ELSE GrantOf(d)
  <2>1. sources[d].expires \in Nat
    BY <1>2, SourceFields
  <2> QED BY SMT, <1>1, <2>1 DEF GrantOf, Ended, NoSource
<1>3. GrantsOf' = [d \in Devices |-> IF GrantsOf[d].until = mono + 1
                     THEN [place |-> "nowhere", until |-> 0] ELSE GrantsOf[d]]
  BY <1>2 DEF GrantsOf
<1> QED BY <1>1, <1>3 DEF Grants!Advance, Grants!NoGrant, GrantsOf, GrantOf

\* A call about one device gives that device a grant and no other.
LEMMA OneGrant ==
    ASSUME NEW d \in Devices, NEW g, GrantOf(d)' = g,
           \A e \in Devices \ {d} : GrantOf(e)' = GrantOf(e)
    PROVE  GrantsOf' = [GrantsOf EXCEPT ![d] = g]
BY DEF GrantsOf

\* gmv_sip_runtime_allow_registered_source grants for good.
LEMMA AllowRegisteredGrants ==
    ASSUME SourceType, NEW d \in Devices, NEW p \in Places, NEW order,
           AllowRegistered(d, p, order)
    PROVE  Grants!Register(d, p)
<1>1. sources' = [sources EXCEPT ![d] = [place |-> p, expires |-> 0]] /\ UNCHANGED mono
  BY DEF AllowRegistered, clockVars
<1>2. sources'[d] = [place |-> p, expires |-> 0]
      /\ \A e \in Devices \ {d} : sources'[e] = sources[e]
  BY <1>1 DEF SourceType
<1>3. GrantOf(d)' = [place |-> p, until |-> 0]
  BY SMT, <1>2 DEF GrantOf, NoSource, Ended
<1>4. \A e \in Devices \ {d} : GrantOf(e)' = GrantOf(e)
  BY <1>1, <1>2 DEF GrantOf, Ended
<1>5. GrantsOf' = [GrantsOf EXCEPT ![d] = [place |-> p, until |-> 0]]
  BY <1>3, <1>4, OneGrant
<1>6. gate' = [dev |-> d, place |-> p, method |-> "register", passed |-> TRUE]
  BY DEF AllowRegistered, Says
<1> QED BY <1>1, <1>5, <1>6 DEF Grants!Register, Grants!Says, Grants!Forever, GrantsOf, GrantOf

\* gmv_sip_runtime_allow_recovery_source grants for a time, unless the device is
\* registered.
LEMMA AllowRecoveryGrants ==
    ASSUME ClockType, SourceType, NEW d \in Devices, NEW p \in Places, NEW order,
           NEW ttl \in RecoveryTTLs, AllowRecovery(d, p, order, ttl)
    PROVE  Grants!Recover(d, p, ttl)
<1>1. UNCHANGED mono /\ mono \in Nat /\ ttl \in Nat \ {0}
  BY GateAssumption DEF AllowRecovery, clockVars, ClockType
<1>2. gate' = [dev |-> d, place |-> p, method |-> "recover", passed |-> ~IsRegistered(d)]
  BY DEF AllowRecovery, Says
<1>3. IsRegistered(d) <=> Grants!IsRegistered(d)
  BY SameRegistered DEF Grants!IsRegistered, Grants!NoGrant, Grants!Forever, GrantOf
<1>4. Grants!Says(d, p, "recover", ~Grants!IsRegistered(d))
  <2>1. (~IsRegistered(d)) = (~Grants!IsRegistered(d))
    BY <1>3
  <2> QED BY <1>2, <2>1 DEF Grants!Says
<1>5. CASE IsRegistered(d)
  <2>1. sources' = SourcesSwept
    BY <1>5 DEF AllowRecovery
  <2>2. \A e \in Devices : GrantOf(e)' = GrantOf(e)
    BY <1>1, <2>1, SweepKeepsGrants
  <2>3. GrantsOf' = [GrantsOf EXCEPT ![d] = @]
    BY <2>2 DEF GrantsOf
  <2> QED BY <1>1, <1>3, <1>4, <1>5, <2>3 DEF Grants!Recover, GrantsOf, GrantOf
<1>6. CASE ~IsRegistered(d)
  <2>1. sources' = [SourcesSwept EXCEPT ![d] = [place |-> p, expires |-> mono + ttl]]
    BY <1>6 DEF AllowRecovery
  <2>2. sources'[d] = [place |-> p, expires |-> mono + ttl]
        /\ \A e \in Devices \ {d} : sources'[e] = SourcesSwept[e]
    BY <2>1 DEF SourcesSwept
  <2>3. GrantOf(d)' = [place |-> p, until |-> mono + ttl]
    BY SMT, <1>1, <2>2 DEF GrantOf, NoSource, Ended
  <2>4. \A e \in Devices \ {d} : GrantOf(e)' = GrantOf(e)
    BY <1>1, <2>2, SweepKeepsGrants
  <2>5. GrantsOf' = [GrantsOf EXCEPT ![d] = [place |-> p, until |-> mono + ttl]]
    BY <2>3, <2>4, OneGrant
  <2> QED BY <1>1, <1>3, <1>4, <1>6, <2>5 DEF Grants!Recover, GrantsOf, GrantOf
<1> QED BY <1>5, <1>6

\* gmv_sip_runtime_remove_registered_source takes the grant back.
LEMMA RemoveRegisteredGrants ==
    ASSUME SourceType, NEW d \in Devices, RemoveRegistered(d)
    PROVE  Grants!Forget(d)
<1>1. sources' = [sources EXCEPT ![d] = NoSource] /\ UNCHANGED mono
  BY DEF RemoveRegistered, clockVars
<1>2. sources'[d] = NoSource /\ \A e \in Devices \ {d} : sources'[e] = sources[e]
  BY <1>1 DEF SourceType
<1>3. GrantOf(d)' = [place |-> "nowhere", until |-> 0]
  BY <1>2 DEF GrantOf
<1>4. \A e \in Devices \ {d} : GrantOf(e)' = GrantOf(e)
  BY <1>1, <1>2 DEF GrantOf, Ended
<1>5. GrantsOf' = [GrantsOf EXCEPT ![d] = [place |-> "nowhere", until |-> 0]]
  BY <1>3, <1>4, OneGrant
<1>6. gate' = [dev |-> d, place |-> "nowhere", method |-> "remove", passed |-> TRUE]
  BY DEF RemoveRegistered, Says
<1> QED BY <1>1, <1>5, <1>6 DEF Grants!Forget, Grants!Says, Grants!NoGrant, GrantsOf, GrantOf

\* gmv_registered_source_allowed answers as the grants say, whatever is still in
\* the list.
LEMMA RxRequestAsks ==
    ASSUME SourceType, NEW d \in Devices, NEW p \in Places, NEW method, NEW k,
           RxRequest(d, p, method, k)
    PROVE  Grants!Ask(d, p, method)
<1>1. UNCHANGED mono /\ sources' = SourcesSwept
      /\ gate' = [dev |-> d, place |-> p, method |-> method, passed |-> Allowed(d, p, method)]
  BY DEF RxRequest, Says, clockVars
<1>2. IsRegistered(d) <=> Grants!IsRegistered(d)
  BY SameRegistered DEF Grants!IsRegistered, Grants!NoGrant, Grants!Forever, GrantOf
<1>3. Allowed(d, p, method) <=> Grants!Passes(d, p, method)
  BY SMT, <1>2, SameVerdict DEF Grants!Passes, Grants!NoGrant, GrantOf
<1>4. Grants!Says(d, p, method, Grants!Passes(d, p, method))
  <2>1. Allowed(d, p, method) = Grants!Passes(d, p, method)
    BY <1>3 DEF Allowed, Grants!Passes
  <2> QED BY <1>1, <2>1 DEF Grants!Says
<1>5. UNCHANGED GrantsOf
  BY <1>1, SweepKeepsGrants DEF GrantsOf
<1> QED BY <1>1, <1>4, <1>5 DEF Grants!Ask, GrantsOf, GrantOf

\* Every step of the gate is a step of SourceGrants, or changes no grant.
LEMMA GateStep ==
    ASSUME Types, [Next]_vars
    PROVE  Grants!Next \/ UNCHANGED <<mono, GrantsOf, gate>>
<1> USE DEF Types
<1>1. CASE Tick
  BY <1>1, TickAdvances DEF Grants!Next
<1>2. CASE SetClockBack
  BY <1>2, QuietGrants DEF SetClockBack, sourceVars
<1>3. CASE PollSweep
  <2>1. sources' = SourcesSwept /\ UNCHANGED <<mono, gate>>
    BY <1>3 DEF PollSweep, clockVars
  <2> QED BY <2>1, SweepKeepsGrants DEF GrantsOf
<1>4. ASSUME NEW d \in Devices, RemoveRegistered(d)
      PROVE  Grants!Next
  BY <1>4, RemoveRegisteredGrants DEF Grants!Next
<1>5. ASSUME NEW d \in Devices, NEW p \in Places, NEW order, AllowRegistered(d, p, order)
      PROVE  Grants!Next
  BY <1>5, AllowRegisteredGrants DEF Grants!Next
<1>6. ASSUME NEW d \in Devices, NEW p \in Places, NEW order, NEW ttl \in RecoveryTTLs,
             AllowRecovery(d, p, order, ttl)
      PROVE  Grants!Next
  BY <1>6, AllowRecoveryGrants DEF Grants!Next
<1>7. ASSUME NEW d \in Devices, NEW p \in Places, NEW method \in {"MESSAGE", "OPTIONS"}, NEW k,
             RxRequest(d, p, method, k)
      PROVE  Grants!Next
  BY <1>7, RxRequestAsks DEF Grants!Next
<1>8. ASSUME \/ \E c \in Calls, p \in Places :
                   \/ \E ttl \in InviteTTLs : AllowIncomingInvite(c, p, ttl)
                   \/ RxInvite(c, p)
             \/ \E k \in DialogKeys : RxInDialog(k)
             \/ \E d \in Devices, order \in Orders, unregister \in BOOLEAN :
                   AcceptRegister(d, order, unregister)
             \/ UNCHANGED vars
      PROVE  UNCHANGED <<mono, GrantsOf, gate>>
  <2>1. UNCHANGED <<mono, sources, gate>>
    BY <1>8 DEF AllowIncomingInvite, RxInvite, RxInDialog, AcceptRegister, vars, clockVars, sourceVars
  <2> QED BY <2>1, QuietGrants
<1> QED
  BY <1>1, <1>2, <1>3, <1>4, <1>5, <1>6, <1>7, <1>8 DEF Next, Application, Rx

\* The list of sources, cleaned up now and then, keeps the promise of
\* SourceGrants at every moment.
THEOREM GateKeepsPromiseCorrect == Spec => GateKeepsPromise
<1>1. Init => Grants!Init
  BY DEF Init, Grants!Init, Grants!NoGrant, Grants!NoVerdict, NoVerdict
<1>2. Types /\ [Next]_vars => [Grants!Next]_<<mono, GrantsOf, gate>>
  BY GateStep
<1> QED BY <1>1, <1>2, TypesCorrect, PTL DEF Spec, GateKeepsPromise, Grants!Spec, GrantsOf, GrantOf

-----------------------------------------------------------------------------
(* The orders of registered devices.                                         *)

\* The clean-up of recovery sources never takes the order of a registered device:
\* while a device stays registered its order is lost only to an unregister.
THEOREM OrderKeptWhileRegisteredCorrect == Spec => OrderKeptWhileRegistered
<1> DEFINE Lost(d) ==
              /\ IsRegistered(d) /\ sources'[d] = sources[d]
              /\ registerOrder[d] # NoOrder /\ registerOrder'[d] = NoOrder
           Kept == \A d \in Devices : Lost(d) => \E order \in Orders : AcceptRegister(d, order, TRUE)
<1>1. ASSUME Types, Next
      PROVE  Kept
  <2> SUFFICES ASSUME NEW d \in Devices, Lost(d)
               PROVE  \E order \in Orders : AcceptRegister(d, order, TRUE)
    OBVIOUS
  <2>1. /\ registerOrder \in [Devices -> Orders \cup {NoOrder}]
        /\ sources \in [Devices -> [place : Places \cup {"nowhere"}, expires : Nat]]
    BY <1>1 DEF Types, SourceType
  <2>2. OrdersSwept[d] = registerOrder[d]
    BY SMT DEF OrdersSwept, IsRegistered, Ended
  <2>3. registerOrder'[d] # registerOrder[d] /\ registerOrder'[d] # OrdersSwept[d]
    BY <2>2
  <2>4. ASSUME NEW kept, kept[d] = registerOrder[d], kept \in [Devices -> Orders \cup {NoOrder}],
               NEW e \in Devices, NEW order \in SyncOrders \cup {NoOrder}
        PROVE  registerOrder' # Synced(kept, e, order)
    BY <2>3, <2>4 DEF Synced
  <2>5. ~(Tick \/ SetClockBack \/ PollSweep)
    BY <2>3 DEF Tick, SetClockBack, PollSweep, sourceVars
  <2>6. ASSUME NEW e \in Devices PROVE ~RemoveRegistered(e)
    <3> SUFFICES ASSUME RemoveRegistered(e) PROVE FALSE
      OBVIOUS
    <3>1. CASE e = d
      BY <2>1, <3>1 DEF RemoveRegistered, IsRegistered
    <3>2. CASE e # d
      BY <2>1, <2>3, <3>2 DEF RemoveRegistered
    <3> QED BY <3>1, <3>2
  <2>7. ASSUME NEW e \in Devices, NEW p \in Places, NEW order \in SyncOrders \cup {NoOrder}
        PROVE  ~AllowRegistered(e, p, order)
    BY <2>1, <2>4 DEF AllowRegistered
  <2>8. ASSUME NEW e \in Devices, NEW p \in Places, NEW order \in SyncOrders \cup {NoOrder}, NEW ttl
        PROVE  ~AllowRecovery(e, p, order, ttl)
    <3>1. OrdersSwept \in [Devices -> Orders \cup {NoOrder}]
      BY <1>1, SweptType DEF Types
    <3> QED BY <2>2, <2>3, <2>4, <3>1 DEF AllowRecovery
  <2>9. ASSUME NEW c \in Calls, NEW p \in Places
        PROVE  ~RxInvite(c, p) /\ \A ttl \in InviteTTLs : ~AllowIncomingInvite(c, p, ttl)
    BY <2>3 DEF RxInvite, AllowIncomingInvite, sourceVars
  <2>10. ASSUME NEW e, NEW p, NEW method, NEW k
         PROVE  ~RxRequest(e, p, method, k) /\ ~RxInDialog(k)
    BY <2>3 DEF RxRequest, RxInDialog, sourceVars
  <2>11. ASSUME NEW e \in Devices, NEW order \in Orders, NEW unregister \in BOOLEAN,
                AcceptRegister(e, order, unregister)
         PROVE  e = d /\ unregister = TRUE
    <3>1. order # NoOrder
      BY SMT, GateAssumption DEF Orders, NoOrder
    <3>2. registerOrder' = [registerOrder EXCEPT ![e] = IF unregister THEN NoOrder ELSE order]
      BY <2>11 DEF AcceptRegister
    <3> QED BY <2>1, <2>3, <3>1, <3>2
  <2> QED
    BY <1>1, <2>5, <2>6, <2>7, <2>8, <2>9, <2>10, <2>11 DEF Next, Application, Rx
<1>2. Types /\ [Next]_vars => [Kept]_vars
  BY <1>1
<1> QED BY <1>2, TypesCorrect, PTL DEF Spec, OrderKeptWhileRegistered

-----------------------------------------------------------------------------
(* Announced INVITEs.                                                        *)

\* The announcements of an INVITE that are still in the list
Open(c, p) == {a \in allows : a.call = c /\ a.place = p}

\* The list is finite, and what is left of an announcement was not used.
InviteInv == IsFiniteSet(allows) /\ InviteOncePerAllow

\* The clean-up leaves a part of the list.
LEMMA AllowsSweptSize ==
    ASSUME IsFiniteSet(allows), NEW c, NEW p
    PROVE  /\ IsFiniteSet(AllowsSwept) /\ IsFiniteSet(Open(c, p)) /\ IsFiniteSet(Matching(c, p))
           /\ Cardinality(Open(c, p)) \in Nat /\ Cardinality(Matching(c, p)) \in Nat
           /\ Cardinality(Matching(c, p)) <= Cardinality(Open(c, p))
<1>1. AllowsSwept \subseteq allows /\ Open(c, p) \subseteq allows /\ Matching(c, p) \subseteq Open(c, p)
  BY DEF AllowsSwept, Open, Matching
<1>2. IsFiniteSet(AllowsSwept) /\ IsFiniteSet(Open(c, p))
  BY <1>1, FS_Subset
<1>3. IsFiniteSet(Matching(c, p)) /\ Cardinality(Matching(c, p)) <= Cardinality(Open(c, p))
  BY <1>1, <1>2, FS_Subset
<1> QED BY <1>2, <1>3, FS_CardinalityType

\* An element more makes a set larger by one at most.
LEMMA OneMore ==
    ASSUME NEW S, IsFiniteSet(S), NEW x
    PROVE  /\ Cardinality(S) \in Nat /\ Cardinality(S \cup {x}) \in Nat
           /\ Cardinality(S \cup {x}) <= Cardinality(S) + 1
<1>1. Cardinality(S) \in Nat
  BY FS_CardinalityType
<1>2. Cardinality(S \cup {x}) = IF x \in S THEN Cardinality(S) ELSE Cardinality(S) + 1
  BY FS_AddElement
<1> QED BY SMT, <1>1, <1>2

\* gmv_sip_runtime_allow_incoming_invite announces one INVITE.
LEMMA AllowInviteKeeps ==
    ASSUME InviteType, InviteInv, NEW c \in Calls, NEW p \in Places, NEW ttl,
           AllowIncomingInvite(c, p, ttl)
    PROVE  InviteInv'
<1> DEFINE new == [call |-> c, place |-> p, expires |-> wall + ttl, number |-> grants + 1]
<1>1. /\ allows' = AllowsSwept \cup {new} /\ UNCHANGED invited
      /\ announced' = [announced EXCEPT ![<<c, p>>] = @ + 1]
  BY DEF AllowIncomingInvite
<1>2. IsFiniteSet(allows')
  BY <1>1, AllowsSweptSize, FS_AddElement DEF InviteInv
<1>3. ASSUME NEW d \in Calls, NEW q \in Places
      PROVE  invited'[<<d, q>>] + Cardinality(Open(d, q)') <= announced'[<<d, q>>]
  <2>1. /\ invited[<<d, q>>] \in Nat /\ announced[<<d, q>>] \in Nat
        /\ invited[<<d, q>>] + Cardinality(Open(d, q)) <= announced[<<d, q>>]
    BY DEF InviteType, InviteInv, InviteOncePerAllow, Open
  <2>2. /\ IsFiniteSet(Matching(d, q)) /\ Cardinality(Matching(d, q)) <= Cardinality(Open(d, q))
        /\ Cardinality(Matching(d, q)) \in Nat /\ Cardinality(Open(d, q)) \in Nat
    BY AllowsSweptSize DEF InviteInv
  <2>3. CASE d = c /\ q = p
    <3>1. Open(d, q)' = Matching(d, q) \cup {new}
      BY SMT, <1>1, <2>3 DEF Open, Matching
    <3>2. Cardinality(Open(d, q)') <= Cardinality(Matching(d, q)) + 1
          /\ Cardinality(Open(d, q)') \in Nat
      BY <2>2, <3>1, OneMore
    <3>3. announced'[<<d, q>>] = announced[<<d, q>>] + 1 /\ invited' = invited
      BY <1>1, <2>3 DEF InviteType
    <3> QED BY SMT, <2>1, <2>2, <3>2, <3>3
  <2>4. CASE ~(d = c /\ q = p)
    <3>1. Open(d, q)' = Matching(d, q)
      BY SMT, <1>1, <2>4 DEF Open, Matching
    <3>2. announced'[<<d, q>>] = announced[<<d, q>>] /\ invited' = invited
      BY <1>1, <2>4 DEF InviteType
    <3> QED BY SMT, <2>1, <2>2, <3>1, <3>2
  <2> QED BY <2>3, <2>4
<1> QED BY <1>2, <1>3 DEF InviteInv, InviteOncePerAllow, Open

\* An INVITE that is let in uses up one announcement.
LEMMA RxInviteUses ==
    ASSUME InviteType, InviteInv, NEW c \in Calls, NEW p \in Places, RxInvite(c, p)
    PROVE  InviteInv'
<1>1. UNCHANGED announced
  BY DEF RxInvite
<1>2. ASSUME NEW d \in Calls, NEW q \in Places
      PROVE  /\ invited[<<d, q>>] \in Nat /\ announced[<<d, q>>] \in Nat
             /\ invited[<<d, q>>] + Cardinality(Open(d, q)) <= announced[<<d, q>>]
             /\ IsFiniteSet(AllowsSwept)
             /\ IsFiniteSet(Matching(d, q)) /\ Cardinality(Matching(d, q)) <= Cardinality(Open(d, q))
             /\ Cardinality(Matching(d, q)) \in Nat /\ Cardinality(Open(d, q)) \in Nat
  BY SMT, AllowsSweptSize DEF InviteType, InviteInv, InviteOncePerAllow, Open
<1>3. CASE allows' = AllowsSwept /\ UNCHANGED invited
  <2>1. \A d \in Calls, q \in Places : Open(d, q)' = Matching(d, q)
    BY <1>3 DEF Open, Matching
  <2>2. ASSUME NEW d \in Calls, NEW q \in Places
        PROVE  invited'[<<d, q>>] + Cardinality(Open(d, q)') <= announced'[<<d, q>>]
    BY SMT, <1>1, <1>2, <1>3, <2>1
  <2>3. IsFiniteSet(allows')
    BY <1>3, AllowsSweptSize DEF InviteInv
  <2> QED BY <2>2, <2>3 DEF InviteInv, InviteOncePerAllow, Open
<1>4. ASSUME NEW first \in Matching(c, p), allows' = AllowsSwept \ {first},
             invited' = [invited EXCEPT ![<<c, p>>] = @ + 1]
      PROVE  InviteInv'
  <2>1. IsFiniteSet(allows')
    BY <1>2, <1>4, FS_RemoveElement
  <2>2. ASSUME NEW d \in Calls, NEW q \in Places
        PROVE  invited'[<<d, q>>] + Cardinality(Open(d, q)') <= announced'[<<d, q>>]
    <3>1. CASE d = c /\ q = p
      <4>1. Open(d, q)' = Matching(d, q) \ {first}
        BY <1>4, <3>1 DEF Open, Matching
      <4>2. Cardinality(Open(d, q)') = Cardinality(Matching(d, q)) - 1
        BY <1>2, <1>4, <3>1, <4>1, FS_RemoveElement
      <4>3. invited'[<<d, q>>] = invited[<<d, q>>] + 1
        BY <1>4, <3>1 DEF InviteType
      <4> QED BY SMT, <1>1, <1>2, <4>2, <4>3
    <3>2. CASE ~(d = c /\ q = p)
      <4>1. Open(d, q)' = Matching(d, q)
        BY <1>4, <3>2 DEF Open, Matching
      <4>2. invited'[<<d, q>>] = invited[<<d, q>>]
        BY <1>4, <3>2 DEF InviteType
      <4> QED BY SMT, <1>1, <1>2, <4>1, <4>2
    <3> QED BY <3>1, <3>2
  <2> QED BY <2>1, <2>2 DEF InviteInv, InviteOncePerAllow, Open
<1> QED BY <1>3, <1>4 DEF RxInvite

-----------------------------------------------------------------------------
(* Repeated requests.                                                        *)

\* A record says when its key was recorded, and that it lasts for DuplicateTTL
\* since the key was seen; no two records have a number.
RecordInv ==
    /\ \A r \in recent :
          /\ r.number = recordedAt[r.key] /\ r.number \in 1 .. recorded
          /\ r.expires = seenAt[r.key] + DuplicateTTL
    /\ \A r, s \in recent : r.number = s.number => r = s

\* A key that the application heard of, and that was seen within DuplicateTTL, is
\* in the record or has been driven out of it by DuplicateMax others.
HeardInv ==
    \A k \in Keys : events[k] > 0 /\ k \notin lapsed =>
        /\ seenAt[k] > 0 /\ wall < seenAt[k] + DuplicateTTL
        /\ (\E r \in recent : r.key = k) \/ recorded - recordedAt[k] >= DuplicateMax

RecentInv == RecentAccounting /\ RecordInv /\ HeardInv

\* Numbers between a and b that differ are at most b - a.
LEMMA NumbersApart ==
    ASSUME NEW S, IsFiniteSet(S), NEW a \in Nat, NEW b \in Nat, a <= b,
           \A r \in S : r.number \in a + 1 .. b,
           \A r, s \in S : r.number = s.number => r = s
    PROVE  Cardinality(S) <= b - a
<1> DEFINE f == [r \in S |-> r.number]
<1>1. f \in Injection(S, a + 1 .. b)
  BY DEF Injection, IsInjective
<1>2. IsFiniteSet(a + 1 .. b)
      /\ Cardinality(a + 1 .. b) = IF a + 1 > b THEN 0 ELSE b - (a + 1) + 1
  BY SMT, FS_Interval
<1>3. Cardinality(S) <= Cardinality(a + 1 .. b)
  BY SMT, <1>1, <1>2, FS_Injection
<1>4. Cardinality(S) \in Nat
  BY FS_CardinalityType
<1> QED BY SMT, <1>2, <1>3, <1>4

\* gmv_cleanup_recent_requests counts down what it drops.
LEMMA SweptCount ==
    ASSUME RecentType, recentCount = Cardinality(recent)
    PROVE  /\ IsFiniteSet(RecentSwept) /\ CountSwept = Cardinality(RecentSwept)
           /\ CountSwept \in Nat /\ CountSwept <= recentCount
<1> DEFINE old == recent \ RecentSwept
<1>1. RecentSwept \subseteq recent /\ old \subseteq recent
      /\ RecentSwept \cup old = recent /\ RecentSwept \cap old = {}
  BY DEF RecentSwept
<1>2. IsFiniteSet(RecentSwept) /\ IsFiniteSet(old)
  BY <1>1, FS_Subset DEF RecentType
<1>3. Cardinality(RecentSwept) \in Nat /\ Cardinality(old) \in Nat
  BY <1>2, FS_CardinalityType
<1>4. Cardinality(recent) = Cardinality(RecentSwept) + Cardinality(old) - Cardinality({})
  BY <1>1, <1>2, FS_Union
<1>5. Cardinality({}) = 0
  BY FS_EmptySet
<1>6. CountSwept = recentCount - Cardinality(old)
  BY DEF CountSwept
<1> HIDE DEF old
<1> QED BY SMT, <1>2, <1>3, <1>4, <1>5, <1>6

\* Starting the time of a key again changes nothing else of a record ...
LEMMA RefreshedFields ==
    ASSUME NEW S \in SUBSET [key : Keys, expires : Nat, number : Nat], NEW k, NEW time \in Nat
    PROVE  /\ \A q \in Refreshed(S, k, time) : \E r \in S :
                 /\ q = IF r.key = k THEN [r EXCEPT !.expires = time] ELSE r
                 /\ q.key = r.key /\ q.number = r.number
                 /\ q.expires = IF r.key = k THEN time ELSE r.expires
           /\ \A r \in S : \E q \in Refreshed(S, k, time) : q.key = r.key
<1> DEFINE g(r) == IF r.key = k THEN [r EXCEPT !.expires = time] ELSE r
<1>1. ASSUME NEW r \in S
      PROVE  /\ g(r).key = r.key /\ g(r).number = r.number
             /\ g(r).expires = IF r.key = k THEN time ELSE r.expires
  OBVIOUS
<1>2. Refreshed(S, k, time) = {g(r) : r \in S}
  BY DEF Refreshed
<1>3. ASSUME NEW q \in Refreshed(S, k, time)
      PROVE  \E r \in S : /\ q = g(r) /\ q.key = r.key /\ q.number = r.number
                          /\ q.expires = IF r.key = k THEN time ELSE r.expires
  <2>1. PICK r \in S : q = g(r)
    BY <1>2, <1>3
  <2> HIDE DEF g
  <2> QED BY <1>1, <2>1
<1>4. ASSUME NEW r \in S PROVE \E q \in Refreshed(S, k, time) : q.key = r.key
  <2>1. g(r) \in Refreshed(S, k, time)
    BY <1>2, <1>4
  <2> HIDE DEF g
  <2> QED BY <1>1, <2>1
<1> QED BY <1>3, <1>4

\* ... and keeps the number of records.
LEMMA RefreshedCount ==
    ASSUME NEW S \in SUBSET [key : Keys, expires : Nat, number : Nat], IsFiniteSet(S),
           \A r, s \in S : r.key = s.key => r = s, NEW k, NEW time \in Nat
    PROVE  Cardinality(Refreshed(S, k, time)) = Cardinality(S)
<1> DEFINE f == [r \in S |-> IF r.key = k THEN [r EXCEPT !.expires = time] ELSE r]
<1>1. f \in Surjection(S, Refreshed(S, k, time))
  BY DEF Surjection, Refreshed
<1>2. \A r \in S : f[r].key = r.key
  OBVIOUS
<1>3. f \in [S -> Refreshed(S, k, time)]
  BY DEF Refreshed
<1> HIDE DEF f
<1>4. f \in Injection(S, Refreshed(S, k, time))
  BY SMT, <1>2, <1>3 DEF Injection, IsInjective
<1> QED BY <1>1, <1>4, FS_Surjection

\* A record of a key that counts as seen is not dropped by the clean-up.
LEMMA StillKnown ==
    ASSUME ClockType, RecentType, RecentInv, NEW k \in Keys, events[k] > 0, k \notin lapsed,
           NEW r \in recent, r.key = k
    PROVE  r \in RecentSwept
<1>1. r.expires = seenAt[k] + DuplicateTTL /\ wall < seenAt[k] + DuplicateTTL
  BY DEF RecentInv, RecordInv, HeardInv
<1>2. wall \in Nat /\ r.expires \in Nat
  BY DEF ClockType, RecentType
<1> QED BY <1>1, <1>2 DEF RecentSwept

\* gmv_recent_request_seen on a key it knows keeps what is said of the record.
LEMMA RefreshKeeps ==
    ASSUME ClockType, RecentType, RecentInv, NEW k \in Keys, Known(k), Refresh(k),
           seenAt' = [seenAt EXCEPT ![k] = wall], lapsed' = lapsed \ {k}, UNCHANGED wall
    PROVE  RecentInv'
<1> DEFINE time == wall + DuplicateTTL
<1>1. /\ recent' = Refreshed(RecentSwept, k, time) /\ recentCount' = CountSwept
      /\ UNCHANGED <<events, recorded, recordedAt>>
  BY DEF Refresh, Refreshed
<1>2. /\ RecentSwept \subseteq recent /\ wall \in Nat \ {0} /\ time \in Nat
      /\ RecentSwept \in SUBSET [key : Keys, expires : Nat, number : Nat]
      /\ DuplicateTTL \in Nat \ {0}
  BY SMT, GateAssumption DEF RecentSwept, RecentType, ClockType
<1>3. \A r, s \in RecentSwept : r.key = s.key => r = s
  BY <1>2 DEF RecentInv, RecentAccounting
<1>4. /\ IsFiniteSet(RecentSwept) /\ CountSwept = Cardinality(RecentSwept)
      /\ CountSwept \in Nat /\ CountSwept <= recentCount
  BY SweptCount DEF RecentInv, RecentAccounting
<1>5. recentCount' = Cardinality(recent') /\ recentCount' <= DuplicateMax
  <2>1. Cardinality(recent') = Cardinality(RecentSwept)
    BY <1>1, <1>2, <1>3, <1>4, RefreshedCount
  <2> QED BY SMT, <1>1, <1>4, <2>1, GateAssumption DEF RecentInv, RecentAccounting, RecentType
<1>6. /\ \A q \in recent' : \E r \in RecentSwept :
           /\ q = IF r.key = k THEN [r EXCEPT !.expires = time] ELSE r
           /\ q.key = r.key /\ q.number = r.number
           /\ q.expires = IF r.key = k THEN time ELSE r.expires
      /\ \A r \in RecentSwept : \E q \in recent' : q.key = r.key
  BY SMT, <1>1, <1>2, RefreshedFields
<1> HIDE DEF time
<1>7. \A q, t \in recent' : q.key = t.key => q = t
  BY SMT, <1>3, <1>6
<1>8. \A q, t \in recent' : q.number = t.number => q = t
  <2>1. \A r, t \in RecentSwept : r.number = t.number => r = t
    BY <1>2 DEF RecentInv, RecordInv
  <2> QED BY SMT, <1>6, <2>1
<1>9. ASSUME NEW q \in recent'
      PROVE  /\ q.number = recordedAt'[q.key] /\ q.number \in 1 .. recorded'
             /\ q.expires = seenAt'[q.key] + DuplicateTTL
  <2>1. PICK r \in RecentSwept : /\ q.key = r.key /\ q.number = r.number
                                 /\ q.expires = IF r.key = k THEN time ELSE r.expires
    BY <1>6
  <2>2. /\ r.number = recordedAt[r.key] /\ r.number \in 1 .. recorded
        /\ r.expires = seenAt[r.key] + DuplicateTTL /\ r.key \in Keys
    BY <1>2 DEF RecentInv, RecordInv
  <2>3. seenAt'[r.key] = IF r.key = k THEN wall ELSE seenAt[r.key]
    BY <2>2 DEF RecentType
  <2> QED BY <1>1, <2>1, <2>2, <2>3 DEF time
<1>10. ASSUME NEW j \in Keys, events'[j] > 0, j \notin lapsed'
       PROVE  /\ seenAt'[j] > 0 /\ wall < seenAt'[j] + DuplicateTTL
              /\ (\E q \in recent' : q.key = j) \/ recorded - recordedAt[j] >= DuplicateMax
  <2>1. CASE j = k
    <3>1. seenAt'[j] = wall
      BY <2>1 DEF RecentType
    <3>2. \E q \in recent' : q.key = j
      BY SMT, <1>6, <2>1 DEF Known
    <3> QED BY SMT, <1>2, <3>1, <3>2
  <2>2. CASE j # k
    <3>1. seenAt'[j] = seenAt[j] /\ j \notin lapsed /\ events[j] > 0
      BY <1>1, <1>10, <2>2 DEF RecentType
    <3>2. \A r \in recent : r.key = j => r \in RecentSwept
      BY <3>1, StillKnown
    <3> QED BY <1>6, <3>1, <3>2 DEF RecentInv, HeardInv
  <2> QED BY <2>1, <2>2
<1>11. RecentAccounting'
  BY <1>5, <1>7 DEF RecentAccounting
<1>12. RecordInv'
  BY <1>8, <1>9 DEF RecordInv
<1>13. HeardInv'
  BY <1>1, <1>10 DEF HeardInv
<1> QED BY <1>11, <1>12, <1>13 DEF RecentInv

\* What is in the list once a fresh key is at its head, before the trim.
LEMMA LongerFacts ==
    ASSUME ClockType, RecentType, RecentInv, NEW k \in Keys, ~Known(k), NEW fresh,
           fresh = [key |-> k, expires |-> wall + DuplicateTTL, number |-> recorded + 1],
           seenAt' = [seenAt EXCEPT ![k] = wall],
           recordedAt' = [recordedAt EXCEPT ![k] = recorded + 1]
    PROVE  LET longer == RecentSwept \cup {fresh}
           IN  /\ IsFiniteSet(longer) /\ Cardinality(longer) = CountSwept + 1
               /\ CountSwept \in Nat /\ CountSwept <= DuplicateMax
               /\ \A r, s \in longer : r.key = s.key \/ r.number = s.number => r = s
               /\ \A r \in RecentSwept : r.number \in 1 .. recorded
               /\ \A r \in longer :
                     /\ r.number = recordedAt'[r.key] /\ r.number \in 1 .. recorded + 1
                     /\ r.expires = seenAt'[r.key] + DuplicateTTL
<1> DEFINE longer == RecentSwept \cup {fresh}
<1>1. RecentSwept \subseteq recent /\ recorded \in Nat /\ wall \in Nat
  BY DEF RecentSwept, RecentType, ClockType
<1>2. /\ IsFiniteSet(RecentSwept) /\ CountSwept = Cardinality(RecentSwept)
      /\ CountSwept \in Nat /\ CountSwept <= recentCount
  BY SweptCount DEF RecentInv, RecentAccounting
<1>3. CountSwept <= DuplicateMax
  BY SMT, <1>2, GateAssumption DEF RecentInv, RecentAccounting, RecentType
<1>4. fresh.key = k /\ fresh.number = recorded + 1 /\ fresh.expires = wall + DuplicateTTL
  OBVIOUS
<1>5. ASSUME NEW r \in RecentSwept
      PROVE  /\ r.key \in Keys \ {k} /\ r.number = recordedAt[r.key] /\ r.number \in 1 .. recorded
             /\ r.expires = seenAt[r.key] + DuplicateTTL
  BY <1>1 DEF RecentInv, RecordInv, RecentType, Known
<1>6. fresh \notin RecentSwept
  BY <1>4, <1>5
<1>7. IsFiniteSet(longer) /\ Cardinality(longer) = CountSwept + 1
  BY <1>2, <1>6, FS_AddElement
<1>8. \A r, s \in RecentSwept : r.key = s.key \/ r.number = s.number => r = s
  BY <1>1 DEF RecentInv, RecentAccounting, RecordInv
<1>9. \A r \in RecentSwept : r.key # fresh.key /\ r.number # fresh.number
  BY SMT, <1>1, <1>4, <1>5
<1>10. \A r, s \in longer : r.key = s.key \/ r.number = s.number => r = s
  BY <1>8, <1>9
<1>11. ASSUME NEW r \in longer
       PROVE  /\ r.number = recordedAt'[r.key] /\ r.number \in 1 .. recorded + 1
              /\ r.expires = seenAt'[r.key] + DuplicateTTL
  <2>1. CASE r = fresh
    BY SMT, <1>1, <1>4, <2>1 DEF RecentType
  <2>2. CASE r \in RecentSwept
    <3>1. recordedAt'[r.key] = recordedAt[r.key] /\ seenAt'[r.key] = seenAt[r.key]
      BY <1>5, <2>2 DEF RecentType
    <3> QED BY SMT, <1>1, <1>5, <2>2, <3>1
  <2> QED BY <2>1, <2>2
<1> QED BY <1>2, <1>3, <1>5, <1>7, <1>10, <1>11

\* gmv_recent_request_seen on a key it does not know keeps it too, the trim
\* included: the record that is driven out has DuplicateMax younger ones.
LEMMA RecordKeeps ==
    ASSUME ClockType, RecentType, RecentInv, NEW k \in Keys, ~Known(k), Record(k),
           seenAt' = [seenAt EXCEPT ![k] = wall], lapsed' = lapsed \ {k}, UNCHANGED wall
    PROVE  RecentInv'
<1> DEFINE fresh == [key |-> k, expires |-> wall + DuplicateTTL, number |-> recorded + 1]
           longer == RecentSwept \cup {fresh}
<1>1. /\ Trim(longer, CountSwept + 1) /\ events' = [events EXCEPT ![k] = @ + 1]
      /\ recorded' = recorded + 1 /\ recordedAt' = [recordedAt EXCEPT ![k] = recorded + 1]
  BY DEF Record
<1>2. /\ IsFiniteSet(longer) /\ Cardinality(longer) = CountSwept + 1
      /\ CountSwept \in Nat /\ CountSwept <= DuplicateMax
      /\ \A r, s \in longer : r.key = s.key \/ r.number = s.number => r = s
      /\ \A r \in RecentSwept : r.number \in 1 .. recorded
      /\ \A r \in longer :
            /\ r.number = recordedAt'[r.key] /\ r.number \in 1 .. recorded + 1
            /\ r.expires = seenAt'[r.key] + DuplicateTTL
  BY <1>1, LongerFacts
<1>3. fresh \in longer /\ RecentSwept \subseteq longer /\ fresh.key = k
      /\ fresh.number = recorded + 1 /\ \A r \in longer : r # fresh => r \in RecentSwept
  OBVIOUS
<1>4. /\ wall \in Nat \ {0} /\ recorded \in Nat /\ DuplicateTTL \in Nat \ {0}
      /\ DuplicateMax \in Nat \ {0} /\ recordedAt \in [Keys -> Nat]
  BY GateAssumption DEF ClockType, RecentType
<1> HIDE DEF fresh, longer
\* The trim: what is left, and what is known of a record that is not.
<1> DEFINE Trimmed ==
              /\ recent' \subseteq longer /\ recentCount' = Cardinality(recent')
              /\ recentCount' <= DuplicateMax /\ fresh \in recent'
              /\ \A r \in longer : r \in recent' \/ recorded + 1 - r.number >= DuplicateMax
<1>5. Trimmed
  <2> DEFINE count == CountSwept + 1
  <2>1. Trim(longer, count) /\ count = CountSwept + 1
    BY <1>1
  <2> HIDE DEF count
  <2>2. CASE count <= DuplicateMax /\ recent' = longer /\ recentCount' = count
    BY <1>2, <1>3, <2>1, <2>2
  <2>3. ASSUME count > DuplicateMax, NEW oldest \in longer,
               \A r \in longer : oldest.number <= r.number,
               recent' = longer \ {oldest}, recentCount' = count - 1
        PROVE  Trimmed
    <3>1. IsFiniteSet(recent') /\ Cardinality(recent') = Cardinality(longer) - 1
      BY <1>2, <2>3, FS_RemoveElement
    <3>2. CountSwept = DuplicateMax
      BY SMT, <1>2, <1>4, <2>1, <2>3
    <3>3. Cardinality(recent') = DuplicateMax /\ recentCount' = DuplicateMax
      BY SMT, <1>2, <2>1, <2>3, <3>1, <3>2
    <3>4. recent' # {}
      BY <1>4, <3>3, FS_EmptySet
    <3>5. oldest # fresh
      BY SMT, <1>2, <1>3, <1>4, <2>3, <3>4
    <3>6. oldest.number \in Nat /\ oldest.number <= recorded + 1
      BY SMT, <1>2, <1>4
    <3>7. ASSUME NEW r \in recent'
          PROVE  r.number \in oldest.number + 1 .. recorded + 1
      BY SMT, <1>2, <1>4, <2>3, <3>6
    <3>8. \A r, s \in recent' : r.number = s.number => r = s
      BY <1>2, <2>3
    <3>9. Cardinality(recent') <= recorded + 1 - oldest.number
      BY SMT, <1>4, <3>1, <3>6, <3>7, <3>8, NumbersApart
    <3> QED BY SMT, <1>3, <1>4, <2>3, <3>3, <3>5, <3>6, <3>9
  <2> HIDE DEF Trimmed
  <2> QED BY <2>1, <2>2, <2>3 DEF Trim
<1>6. RecentAccounting'
  BY <1>2, <1>5 DEF RecentAccounting
<1>7. RecordInv'
  BY <1>1, <1>2, <1>5 DEF RecordInv
<1>8. ASSUME NEW j \in Keys, events'[j] > 0, j \notin lapsed'
      PROVE  /\ seenAt'[j] > 0 /\ wall < seenAt'[j] + DuplicateTTL
             /\ \/ \E q \in recent' : q.key = j
                \/ recorded' - recordedAt'[j] >= DuplicateMax
  <2>1. CASE j = k
    <3>1. seenAt'[j] = wall
      BY <2>1 DEF RecentType
    <3> QED BY SMT, <1>3, <1>4, <1>5, <2>1, <3>1
  <2>2. CASE j # k
    <3>1. /\ seenAt'[j] = seenAt[j] /\ j \notin lapsed /\ events[j] > 0
          /\ recordedAt'[j] = recordedAt[j] /\ recordedAt[j] \in Nat
      BY <1>1, <1>4, <1>8, <2>2 DEF RecentType
    <3>2. /\ seenAt[j] > 0 /\ wall < seenAt[j] + DuplicateTTL
          /\ (\E r \in recent : r.key = j) \/ recorded - recordedAt[j] >= DuplicateMax
      BY <3>1 DEF RecentInv, HeardInv
    <3>3. CASE recorded - recordedAt[j] >= DuplicateMax
      BY SMT, <1>1, <1>4, <3>1, <3>2, <3>3
    <3>4. ASSUME NEW r \in recent, r.key = j
          PROVE  (\E q \in recent' : q.key = j) \/ recorded' - recordedAt'[j] >= DuplicateMax
      <4>1. r \in longer
        BY <1>3, <3>1, <3>4, StillKnown
      <4>2. r.number = recordedAt'[j]
        BY <1>2, <3>4, <4>1
      <4>3. r \in recent' \/ recorded + 1 - r.number >= DuplicateMax
        BY <1>5, <4>1
      <4>4. recorded' = recorded + 1
        BY <1>1
      <4>5. r.number \in Nat
        BY SMT, <1>2, <1>4, <4>1
      <4> QED BY SMT, <1>4, <3>4, <4>2, <4>3, <4>4, <4>5
    <3>5. seenAt'[j] > 0 /\ wall < seenAt'[j] + DuplicateTTL
      BY <3>1, <3>2
    <3> QED BY <3>2, <3>3, <3>4, <3>5
  <2> QED BY <2>1, <2>2
<1>9. HeardInv'
  BY <1>8 DEF HeardInv
<1> QED BY <1>6, <1>7, <1>9 DEF RecentInv

\* Seeing a key keeps what is said of the record.
LEMMA SeeKeeps ==
    ASSUME ClockType, RecentType, RecentInv, NEW k \in Keys, See(k), UNCHANGED wall
    PROVE  RecentInv'
<1>1. CASE Known(k) /\ Refresh(k)
  BY <1>1, RefreshKeeps DEF See
<1>2. CASE ~Known(k) /\ Record(k)
  BY <1>2, RecordKeeps DEF See
<1> QED BY <1>1, <1>2 DEF See

\* A step that sees no key, and moves no clock, leaves the record alone.
LEMMA QuietRecent ==
    ASSUME RecentInv, UNCHANGED <<wall, recentVars>>
    PROVE  RecentInv'
<1>1. RecentAccounting' /\ RecordInv'
  BY DEF RecentInv, RecentAccounting, RecordInv, recentVars
<1>2. HeardInv'
  BY DEF RecentInv, HeardInv, recentVars
<1> QED BY <1>1, <1>2 DEF RecentInv

\* Time: a key lapses at the moment its record may be dropped, and a clock that
\* is set back only makes records last.
LEMMA ClockKeeps ==
    ASSUME Types, RecentInv, Tick \/ SetClockBack
    PROVE  RecentInv'
<1>1. UNCHANGED <<recent, recentCount, events, seenAt, recorded, recordedAt>>
  BY DEF Tick, SetClockBack, recentVars
<1>2. RecentAccounting' /\ RecordInv'
  BY <1>1 DEF RecentInv, RecentAccounting, RecordInv
<1>3. ASSUME NEW k \in Keys, events[k] > 0, k \notin lapsed'
      PROVE  k \notin lapsed /\ wall' < seenAt[k] + DuplicateTTL
  <2>1. wall \in Nat /\ seenAt[k] \in Nat /\ DuplicateTTL \in Nat
    BY GateAssumption DEF Types, ClockType, RecentType
  <2>2. k \notin lapsed
    BY <1>3 DEF Tick, SetClockBack, recentVars
  <2>3. seenAt[k] > 0 /\ wall < seenAt[k] + DuplicateTTL
    BY <1>3, <2>2 DEF RecentInv, HeardInv
  <2>4. CASE Tick
    BY SMT, <1>3, <2>1, <2>2, <2>3, <2>4 DEF Tick, Lapsed
  <2>5. CASE SetClockBack
    BY SMT, <2>1, <2>2, <2>3, <2>5 DEF SetClockBack
  <2> QED BY <2>4, <2>5
<1>4. HeardInv'
  BY <1>1, <1>3 DEF RecentInv, HeardInv
<1> QED BY <1>2, <1>4 DEF RecentInv

\* Every step keeps what is said of the announcements and of the record.
LEMMA ListsStep ==
    ASSUME Types, InviteInv, RecentInv, [Next]_vars
    PROVE  InviteInv' /\ RecentInv'
<1> USE DEF Types
<1>1. ASSUME UNCHANGED inviteVars PROVE InviteInv'
  BY <1>1 DEF InviteInv, InviteOncePerAllow, inviteVars
<1>2. CASE Tick \/ SetClockBack
  BY <1>1, <1>2, ClockKeeps DEF Tick, SetClockBack
<1>3. ASSUME \/ PollSweep
             \/ \E d \in Devices : \/ RemoveRegistered(d)
                  \/ \E p \in Places, order \in SyncOrders \cup {NoOrder} :
                       \/ AllowRegistered(d, p, order)
                       \/ \E ttl \in RecoveryTTLs : AllowRecovery(d, p, order, ttl)
             \/ \E d \in Devices, order \in Orders, unregister \in BOOLEAN :
                   AcceptRegister(d, order, unregister)
             \/ UNCHANGED vars
      PROVE  InviteInv' /\ RecentInv'
  <2>1. UNCHANGED <<inviteVars, recentVars, wall>>
    BY <1>3 DEF PollSweep, RemoveRegistered, AllowRegistered, AllowRecovery, AcceptRegister, vars,
                clockVars
  <2> QED BY <1>1, <2>1, QuietRecent
<1>4. ASSUME NEW c \in Calls, NEW p \in Places, NEW ttl \in InviteTTLs,
             AllowIncomingInvite(c, p, ttl)
      PROVE  InviteInv' /\ RecentInv'
  <2>1. UNCHANGED <<wall, recentVars>>
    BY <1>4 DEF AllowIncomingInvite, clockVars
  <2> QED BY <1>4, <2>1, AllowInviteKeeps, QuietRecent
<1>5. ASSUME NEW c \in Calls, NEW p \in Places, RxInvite(c, p)
      PROVE  InviteInv' /\ RecentInv'
  <2>1. UNCHANGED <<wall, recentVars>>
    BY <1>5 DEF RxInvite, clockVars
  <2> QED BY <1>5, <2>1, RxInviteUses, QuietRecent
<1>6. ASSUME NEW k \in Keys, See(k) \/ UNCHANGED recentVars, UNCHANGED <<wall, inviteVars>>
      PROVE  InviteInv' /\ RecentInv'
  BY <1>1, <1>6, SeeKeeps, QuietRecent
<1>7. ASSUME NEW d \in Devices, NEW p \in Places, NEW method, NEW k \in Keys,
             RxRequest(d, p, method, k)
      PROVE  InviteInv' /\ RecentInv'
  BY <1>6, <1>7 DEF RxRequest, clockVars
<1>8. ASSUME NEW k \in Keys, RxInDialog(k)
      PROVE  InviteInv' /\ RecentInv'
  BY <1>6, <1>8 DEF RxInDialog, clockVars
<1> QED
  BY <1>2, <1>3, <1>4, <1>5, <1>7, <1>8 DEF Next, Application, Rx, Keys

\* The announcements and the record of recent requests are as described at every
\* moment.
THEOREM ListsCorrect == Spec => [](InviteInv /\ RecentInv)
<1>1. Init => InviteInv /\ RecentInv
  <2> SUFFICES ASSUME Init PROVE InviteInv /\ RecentInv
    OBVIOUS
  <2>1. allows = {} /\ recent = {} /\ recentCount = 0 /\ events = [k \in Keys |-> 0]
        /\ announced = [c \in Calls \X Places |-> 0] /\ invited = [c \in Calls \X Places |-> 0]
    BY DEF Init
  <2>2. IsFiniteSet({}) /\ Cardinality({}) = 0
    BY FS_EmptySet
  <2>3. \A c \in Calls, p \in Places : {a \in allows : a.call = c /\ a.place = p} = {}
    BY <2>1
  <2>4. InviteInv
    BY SMT, <2>1, <2>2, <2>3 DEF InviteInv, InviteOncePerAllow
  <2>5. RecentAccounting
    BY SMT, <2>1, <2>2, GateAssumption DEF RecentAccounting
  <2>6. RecordInv /\ HeardInv
    BY SMT, <2>1 DEF RecordInv, HeardInv
  <2> QED BY <2>4, <2>5, <2>6 DEF RecentInv
<1>2. Types /\ InviteInv /\ RecentInv /\ [Next]_vars => (InviteInv /\ RecentInv)'
  BY ListsStep
<1> QED BY <1>1, <1>2, TypesCorrect, PTL DEF Spec

\* An announcement lets in one INVITE: those let in and those still announced are
\* never more than the calls of allow_incoming_invite.
THEOREM InviteOncePerAllowCorrect == Spec => []InviteOncePerAllow
<1>1. InviteInv => InviteOncePerAllow
  BY DEF InviteInv
<1> QED BY <1>1, ListsCorrect, PTL

\* The record of recent requests names a key once, its counter is its size, and
\* neither exceeds DuplicateMax.
THEOREM RecentAccountingCorrect == Spec => []RecentAccounting
<1>1. RecentInv => RecentAccounting
  BY DEF RecentInv
<1> QED BY <1>1, ListsCorrect, PTL

\* Only the record of a key makes an event of it, and only for that key.
LEMMA EventOfRecord ==
    ASSUME RecentType, [Next]_vars, NEW k \in Keys, events'[k] > events[k]
    PROVE  ~Known(k)
<1>1. events[k] \in Nat
  BY DEF RecentType
<1>2. ~UNCHANGED events
  BY SMT, <1>1
<1>3. ASSUME NEW j \in Keys, See(j)
      PROVE  ~Known(k)
  <2>1. ~Known(j) /\ events' = [events EXCEPT ![j] = @ + 1]
    BY <1>2, <1>3 DEF See, Refresh, Record
  <2>2. j = k
    BY SMT, <1>1, <2>1 DEF RecentType
  <2> QED BY <2>1, <2>2
<1>4. ~(Tick \/ SetClockBack \/ PollSweep \/ UNCHANGED vars)
  BY <1>2 DEF Tick, SetClockBack, PollSweep, recentVars, vars
<1>5. ~Application
  BY <1>2 DEF Application, RemoveRegistered, AllowRegistered, AllowRecovery, AllowIncomingInvite,
              recentVars
<1>6. CASE Rx
  <2>1. ASSUME NEW d, NEW p, NEW method, NEW j \in Keys, RxRequest(d, p, method, j)
        PROVE  ~Known(k)
    BY <1>2, <1>3, <2>1 DEF RxRequest, recentVars
  <2>2. ASSUME NEW j \in Keys, RxInDialog(j)
        PROVE  ~Known(k)
    BY <1>3, <2>2 DEF RxInDialog
  <2>3. ASSUME \/ \E c \in Calls, p \in Places : RxInvite(c, p)
               \/ \E d \in Devices, order \in Orders, unregister \in BOOLEAN :
                     AcceptRegister(d, order, unregister)
        PROVE  FALSE
    BY <1>2, <2>3 DEF RxInvite, AcceptRegister, recentVars
  <2> QED BY <1>6, <2>1, <2>2, <2>3 DEF Rx, Keys
<1> QED BY <1>4, <1>5, <1>6 DEF Next

\* The application hears of a repeated request again only after the request was
\* not seen for DuplicateTTL, or after DuplicateMax other requests were recorded
\* since it was.
THEOREM DuplicateSuppressedCorrect == Spec => DuplicateSuppressed
<1> DEFINE Suppressed == \A k \in Keys : events'[k] > events[k] /\ events[k] > 0 =>
                             k \in lapsed \/ recorded - recordedAt[k] >= DuplicateMax
<1>1. ASSUME Types, RecentInv, [Next]_vars
      PROVE  Suppressed
  <2> SUFFICES ASSUME NEW k \in Keys, events'[k] > events[k], events[k] > 0, k \notin lapsed
               PROVE  recorded - recordedAt[k] >= DuplicateMax
    OBVIOUS
  <2>1. ~Known(k)
    BY <1>1, EventOfRecord DEF Types
  <2>2. ASSUME NEW r \in recent, r.key = k PROVE FALSE
    BY <1>1, <2>1, <2>2, StillKnown DEF Types, Known
  <2> QED BY <1>1, <2>2 DEF RecentInv, HeardInv
<1>2. Types /\ RecentInv /\ [Next]_vars => [Suppressed]_vars
  BY <1>1
<1> QED BY <1>2, TypesCorrect, ListsCorrect, PTL DEF Spec, DuplicateSuppressed

=============================================================================
