--------------------------- MODULE RegisterProofs ---------------------------
(***************************************************************************)
(* Theorems about RegisterAuth for every value of its constants: types,    *)
(* the pending list with its counter and lookups, final outcomes, answers  *)
(* against timeouts, the order of registrations, what is recorded of the   *)
(* Digests that were counted, why REGISTERs are accepted, and what a poll  *)
(* leaves parked.                                                          *)
(***************************************************************************)
EXTENDS RegisterAuth, FiniteSetTheorems, TLAPS

\* A leaf that does not name its prover is first-order reasoning, for Zenon.
USE ZenonT(20)

-----------------------------------------------------------------------------
(* Type correctness.                                                        *)

\* A challenge, sent or not, keeps the types of what gmv_issue_nonce assigns.
LEMMA SendChallengeType ==
    ASSUME TypeOK, NEW listed \in SUBSET Nonces, NEW sent, SendChallenge(listed, sent)
    PROVE  /\ nonceSequence' \in 0 .. MaxNonces /\ authNonces' \subseteq Nonces
           /\ nonceExpires' \in [Nonces -> Nat]
<1>1. CASE IssueNonce(listed)
  BY SMT, <1>1, ConstantsAssumption DEF IssueNonce, TypeOK, Nonces
<1>2. CASE ~sent /\ authNonces' = listed /\ UNCHANGED <<nonceSequence, nonceExpires>>
  BY <1>2 DEF TypeOK
<1> QED BY <1>1, <1>2 DEF SendChallenge

\* A response gives its REGISTER one of the outcomes.
LEMMA RespondNowType ==
    ASSUME TypeOK, NEW r \in Requests, NEW sent,
           NEW code \in Outcomes, RespondNow(r, code, sent)
    PROVE  outcome' \in [Requests -> Outcomes]
BY DEF TypeOK, RespondNow, Outcomes

\* The walk of gmv_nonce_status invents no nonce ...
LEMMA WalkedType ==
    ASSUME TypeOK, NEW n
    PROVE  NoncesWalked(n) \subseteq Nonces
BY DEF TypeOK, NoncesWalked

\* ... nor does the check of an Authorization header.
LEMMA NoncesAfterType ==
    ASSUME TypeOK, NEW auth
    PROVE  NoncesAfter(auth) \subseteq Nonces
BY WalkedType DEF TypeOK, NoncesAfter

\* The response codes gmv_complete_pending_auth can choose.
LEMMA VerdictType ==
    ASSUME NEW reg, NEW command
    PROVE  Verdict(reg, command) \in {"200", "401", "403", "500"}
BY DEF Verdict

\* Counting a Digest (gmv_commit_nonce_usage) keeps the type of the usages.
LEMMA UsageAfterType ==
    ASSUME TypeOK, NEW reg \in Registers, reg.auth.digest
    PROVE  UsageAfter(reg) \in
             [UsageKeys -> [seen : BOOLEAN, lastNc : Nat, withoutQop : BOOLEAN]]
<1> DEFINE k == UsageKey(reg)
           U == [seen : BOOLEAN, lastNc : Nat, withoutQop : BOOLEAN]
           v == [seen |-> TRUE,
             lastNc |-> IF reg.auth.nc > usage[k].lastNc THEN reg.auth.nc ELSE usage[k].lastNc,
             withoutQop |-> usage[k].withoutQop \/ reg.auth.nc = 0]
<1>1. reg.auth \in Digests /\ reg.dev \in Devices
  BY SMT DEF Registers, NoAuth
<1>2. reg.auth.nonce \in Nonces /\ reg.auth.cnonce \in Cnonces /\ reg.auth.nc \in Nat
  BY <1>1, ConstantsAssumption DEF Digests
<1>3. k \in UsageKeys
  BY <1>1, <1>2 DEF UsageKey, UsageKeys
<1>4. usage \in [UsageKeys -> U]
  BY DEF TypeOK
<1>5. usage[k] \in U
  BY <1>3, <1>4
<1>6. v \in U
  BY <1>2, <1>5
<1>7. [usage EXCEPT ![k] = v] \in [UsageKeys -> U]
  BY <1>4, <1>6
<1>8. UsageAfter(reg) = IF UsageEntry(reg) THEN [usage EXCEPT ![k] = v] ELSE usage
  BY <1>3, <1>4 DEF UsageAfter
<1> QED BY <1>4, <1>7, <1>8

\* Committing an order (gmv_commit_register_order) keeps the type of the orders.
LEMMA OrderAfterType ==
    ASSUME TypeOK, NEW reg \in Registers
    PROVE  OrderAfter(reg) \in [Devices -> [callId : CallIds, cseq : CSeqs] \cup {NoOrder}]
BY DEF TypeOK, OrderAfter, Registers

\* The CSeq kept for a device is a number, also where none is kept.
LEMMA OrderIsNumber ==
    ASSUME TypeOK, NEW d \in Devices
    PROVE  registerOrder[d].cseq \in Nat
<1>1. registerOrder[d] \in [callId : CallIds, cseq : CSeqs] \cup {NoOrder}
  BY DEF TypeOK
<1>2. NoOrder.cseq \in Nat
  BY DEF NoOrder
<1> QED BY <1>1, <1>2, ConstantsAssumption

\* The verdict 200 is given to no REGISTER that is behind the order.
LEMMA AcceptedInOrder ==
    ASSUME NEW reg, NEW command, Verdict(reg, command) = "200"
    PROVE  Admits(reg, command) /\ ~OrderIsStale(reg)
BY DEF Verdict

\* Committing an order that is not stale does not move the CSeq of a Call-ID back.
LEMMA OrderForward ==
    ASSUME TypeOK, NEW reg \in Registers, ~OrderIsStale(reg), NEW d \in Devices,
           OrderAfter(reg)[d] # NoOrder, OrderAfter(reg)[d].callId = registerOrder[d].callId
    PROVE  OrderAfter(reg)[d].cseq >= registerOrder[d].cseq
<1>1. reg.dev \in Devices /\ reg.cseq \in Nat
  BY ConstantsAssumption DEF Registers
<1>2. registerOrder[d].cseq \in Nat
  BY OrderIsNumber
<1>3. CASE d # reg.dev
  <2>1. OrderAfter(reg)[d] = registerOrder[d]
    BY <1>1, <1>3 DEF OrderAfter, TypeOK
  <2> QED BY SMT, <1>2, <2>1
<1>4. CASE d = reg.dev
  <2>1. OrderAfter(reg)[d] = [callId |-> reg.callId, cseq |-> reg.cseq]
    BY <1>4 DEF OrderAfter, TypeOK
  <2>2. CASE registerOrder[d] # NoOrder
    <3>1. registerOrder[d].callId = reg.callId
      BY SMT, <2>1
    <3>2. ~(reg.cseq < registerOrder[d].cseq)
      BY <1>4, <2>2, <3>1 DEF OrderIsStale
    <3> QED BY SMT, <1>1, <1>2, <2>1, <3>2
  <2>3. CASE registerOrder[d] = NoOrder
    BY SMT, <1>1, <2>1, <2>3 DEF NoOrder
  <2> QED BY <2>2, <2>3
<1> QED BY <1>3, <1>4

\* An arriving REGISTER is one of the REGISTERs, and the last so far.
LEMMA ArriveType ==
    ASSUME TypeOK, NEW r, Arrive(r)
    PROVE  arrived' \in 0 .. MaxRequests /\ r \in Requests
BY SMT, ConstantsAssumption DEF TypeOK, Arrive, Requests

\* Answering a parked REGISTER keeps the types of all it assigns.
LEMMA AnswerPendingType ==
    ASSUME TypeOK, NEW r \in Requests, NEW command, NEW sent \in BOOLEAN,
           register[r] \in Registers, AnswerPending(r, command, sent)
    PROVE  /\ outcome' \in [Requests -> Outcomes]
           /\ nonceSequence' \in 0 .. MaxNonces /\ authNonces' \subseteq Nonces
           /\ nonceExpires' \in [Nonces -> Nat] /\ nonceCleanupAt' \in Nat
           /\ usage' \in [UsageKeys -> [seen : BOOLEAN, lastNc : Nat, withoutQop : BOOLEAN]]
           /\ verifiedAt' \in [Requests -> Nat]
           /\ registerOrder' \in [Devices -> [callId : CallIds, cseq : CSeqs] \cup {NoOrder}]
<1> DEFINE reg == register[r]
           code == Verdict(reg, command)
<1>1. code \in Outcomes
  BY VerdictType DEF Outcomes
<1>2. outcome' \in [Requests -> Outcomes]
  <2>1. RespondNow(r, code, sent)
    BY DEF AnswerPending
  <2> HIDE DEF code
  <2> QED BY <1>1, <2>1, RespondNowType
<1>3. nonceSequence' \in 0 .. MaxNonces /\ authNonces' \subseteq Nonces
        /\ nonceExpires' \in [Nonces -> Nat]
  <2>1. CASE SendChallenge(authNonces, sent)
    BY <2>1, SendChallengeType DEF TypeOK
  <2>2. CASE UNCHANGED <<nonceSequence, authNonces, nonceExpires>>
    BY <2>2 DEF TypeOK
  <2> QED BY <2>1, <2>2 DEF AnswerPending
<1>4. usage' \in [UsageKeys -> [seen : BOOLEAN, lastNc : Nat, withoutQop : BOOLEAN]]
  <2>1. CASE ChecksDigest(reg, command)
    <3>1. reg.auth.digest /\ reg \in Registers
      BY <2>1 DEF ChecksDigest
    <3>2. usage' = UsageAfter(reg)
      BY <2>1 DEF AnswerPending
    <3> QED BY <3>1, <3>2, UsageAfterType
  <2>2. CASE ~ChecksDigest(reg, command)
    BY <2>2 DEF AnswerPending, TypeOK
  <2> QED BY <2>1, <2>2
<1>5. verifiedAt' \in [Requests -> Nat]
  BY DEF AnswerPending, TypeOK
<1>6. registerOrder' \in [Devices -> [callId : CallIds, cseq : CSeqs] \cup {NoOrder}]
  <2>1. registerOrder' = OrderAfter(reg) \/ registerOrder' = registerOrder
    BY DEF AnswerPending
  <2> QED BY <2>1, OrderAfterType DEF TypeOK
<1>7. nonceCleanupAt' \in Nat
  BY DEF AnswerPending, TypeOK
<1> QED BY <1>2, <1>3, <1>4, <1>5, <1>6, <1>7

\* A pending REGISTER has been stored.
PendingStored ==
    \A r \in pendingAuth : register[r] \in Registers

\* Every step preserves the types; a parked REGISTER must be one that was stored.
LEMMA TypeStep ==
    ASSUME TypeOK, PendingStored, [Next]_vars
    PROVE  TypeOK'
<1> USE DEF timeVars, pendingVars, lookupVars, answerVars, nonceVars
<1>1. CASE Tick
  BY SMT, <1>1 DEF Tick, TypeOK
<1>2. CASE SetClockBack
  BY SMT, <1>2 DEF SetClockBack, TypeOK
<1>3. ASSUME NEW r \in Requests, RefuseRegister(r) PROVE TypeOK'
  <2>1. \E sent \in BOOLEAN : RespondNow(r, "refused", sent)
    BY <1>3 DEF RefuseRegister
  <2>2. outcome' \in [Requests -> Outcomes]
    BY <2>1 DEF RespondNow, TypeOK, Outcomes
  <2>3. arrived' \in 0 .. MaxRequests
    BY <1>3, ArriveType DEF RefuseRegister
  <2> QED BY <1>3, <2>2, <2>3 DEF RefuseRegister, TypeOK
<1>4. ASSUME NEW r \in Requests, ChallengeRegister(r) PROVE TypeOK'
  <2>1. PICK sent \in BOOLEAN :
         /\ RespondNow(r, "401", sent)
         /\ \/ SendChallenge(authNonces, sent)
            \/ \E n \in Nonces : ~NonceLive(n) /\ SendChallenge(NoncesWalked(n), sent)
    BY <1>4 DEF ChallengeRegister
  <2>2. outcome' \in [Requests -> Outcomes]
    BY <2>1 DEF RespondNow, TypeOK, Outcomes
  <2>3. \E listed \in SUBSET Nonces : SendChallenge(listed, sent)
    BY <2>1, WalkedType DEF TypeOK
  <2>4. nonceSequence' \in 0 .. MaxNonces /\ authNonces' \subseteq Nonces
          /\ nonceExpires' \in [Nonces -> Nat]
    BY <2>3, SendChallengeType
  <2>5. arrived' \in 0 .. MaxRequests
    BY <1>4, ArriveType DEF ChallengeRegister
  <2> QED BY <1>4, <2>2, <2>4, <2>5 DEF ChallengeRegister, TypeOK
<1>5. ASSUME NEW r \in Requests, QueueFails(r) PROVE TypeOK'
  <2>1. PICK auth \in Digests \cup {NoAuth}, sent \in BOOLEAN :
          /\ authNonces' = NoncesAfter(auth)
          /\ RespondNow(r, IF pendingAuthCount >= MaxPendingAuth THEN "503" ELSE "500", sent)
    BY <1>5 DEF QueueFails
  <2>2. outcome' \in [Requests -> Outcomes]
    BY <2>1 DEF RespondNow, TypeOK, Outcomes
  <2>3. authNonces' \subseteq Nonces
    BY <2>1, NoncesAfterType
  <2>4. arrived' \in 0 .. MaxRequests
    BY <1>5, ArriveType DEF QueueFails
  <2> QED BY <1>5, <2>2, <2>3, <2>4 DEF QueueFails, TypeOK
<1>6. ASSUME NEW r \in Requests, QueueLookup(r) PROVE TypeOK'
  <2>1. PICK reg \in Registers :
          /\ authNonces' = NoncesAfter(reg.auth)
          /\ register' = [register EXCEPT ![r] = reg]
          /\ AssignLookup(r, reg)
    BY <1>6 DEF QueueLookup
  <2>2. authNonces' \subseteq Nonces
    BY <2>1, NoncesAfterType
  <2>3. arrived' \in 0 .. MaxRequests
    BY <1>6, ArriveType DEF QueueLookup
  <2>4. reg.dev \in Devices
    BY DEF Registers
  <2>5. /\ lookupId' \in [Requests -> Nat] /\ lookupSequence' \in Nat
        /\ announced' \in [Requests -> Devices \cup {NoDevice}]
    <3>1. CASE \E s \in pendingAuth :
                 lookupId' = [lookupId EXCEPT ![r] = lookupId[s]] /\ UNCHANGED lookupVars
      BY <3>1 DEF TypeOK
    <3>2. CASE /\ lookupSequence' = lookupSequence + 1
               /\ lookupId' = [lookupId EXCEPT ![r] = lookupSequence + 1]
               /\ announced' = [announced EXCEPT ![lookupSequence + 1] = reg.dev]
      <4>1. lookupSequence' \in Nat
        BY SMT, <3>2 DEF TypeOK
      <4>2. lookupId' \in [Requests -> Nat]
        BY SMT, <3>2 DEF TypeOK
      <4>3. announced' \in [Requests -> Devices \cup {NoDevice}]
        BY <3>2, <2>4 DEF TypeOK
      <4> QED BY <4>1, <4>2, <4>3
    <3> QED BY <2>1, <3>1, <3>2 DEF AssignLookup, SameDevice
  <2>6. register' \in [Requests -> Registers \cup {NoRegister}]
    BY <2>1 DEF TypeOK
  <2>7. outcome' \in [Requests -> Outcomes] /\ deadline' \in [Requests -> Nat]
          /\ pendingAuth' \subseteq Requests /\ pendingAuthCount' \in Int
    BY SMT, <1>6, ConstantsAssumption DEF QueueLookup, TypeOK, Outcomes
  <2> QED BY <1>6, <2>2, <2>3, <2>5, <2>6, <2>7 DEF QueueLookup, TypeOK
<1>7. ASSUME NEW command \in Commands, CompleteAuthLookup(command) PROVE TypeOK'
  BY SMT, <1>7 DEF CompleteAuthLookup, TypeOK
<1>8. ASSUME NEW r \in Requests, CompletePendingAuth(r) PROVE TypeOK'
  <2>1. Unlink(r, Matching(Head(authCommands)))
    BY <1>8 DEF CompletePendingAuth
  <2>2. register[r] \in Registers
    BY <2>1 DEF Unlink, Matching, PendingStored
  <2>3. /\ pendingAuth' \subseteq Requests /\ pendingAuthCount' \in Int
        /\ lookupId' \in [Requests -> Nat] /\ deadline' \in [Requests -> Nat]
    BY SMTT(30), <2>1 DEF Unlink, TypeOK
  <2>4. CASE TerminatePending(r)
    <3>1. outcome' \in [Requests -> Outcomes]
      BY <2>4 DEF TerminatePending, TypeOK, Outcomes
    <3> QED BY <1>8, <2>3, <2>4, <3>1 DEF CompletePendingAuth, TerminatePending, TypeOK
  <2>5. ASSUME NEW sent \in BOOLEAN, AnswerPending(r, Head(authCommands), sent)
        PROVE  TypeOK'
    <3>1. /\ outcome' \in [Requests -> Outcomes]
           /\ nonceSequence' \in 0 .. MaxNonces /\ authNonces' \subseteq Nonces
           /\ nonceExpires' \in [Nonces -> Nat] /\ nonceCleanupAt' \in Nat
           /\ usage' \in [UsageKeys -> [seen : BOOLEAN, lastNc : Nat, withoutQop : BOOLEAN]]
           /\ verifiedAt' \in [Requests -> Nat]
           /\ registerOrder' \in [Devices -> [callId : CallIds, cseq : CSeqs] \cup {NoOrder}]
      BY <2>2, <2>5, AnswerPendingType
    <3> QED BY <1>8, <2>3, <3>1 DEF CompletePendingAuth, TypeOK
  <2> QED BY <1>8, <2>4, <2>5 DEF CompletePendingAuth
<1>9. CASE FinishAuthCommand
  BY SMT, <1>9 DEF FinishAuthCommand, TypeOK
<1>10. CASE StartTimeouts
  BY SMTT(30), <1>10, ConstantsAssumption DEF StartTimeouts, TypeOK
<1>11. ASSUME NEW r \in Requests, TimeoutPending(r) PROVE TypeOK'
  <2>1. /\ pendingAuth' \subseteq Requests /\ pendingAuthCount' \in Int
        /\ lookupId' \in [Requests -> Nat] /\ deadline' \in [Requests -> Nat]
    BY SMT, <1>11 DEF TimeoutPending, Unlink, TypeOK
  <2>2. outcome' \in [Requests -> Outcomes]
    BY <1>11 DEF TimeoutPending, TypeOK, Outcomes
  <2> QED BY <1>11, <2>1, <2>2 DEF TimeoutPending, TypeOK
<1>12. CASE BeginPoll \/ EndReceive \/ EndPoll
  BY SMTT(30), <1>12 DEF BeginPoll, EndReceive, EndPoll, GoTo, TypeOK
<1>13. CASE UNCHANGED vars
  BY <1>13 DEF vars, TypeOK
<1> QED
  BY <1>1, <1>2, <1>3, <1>4, <1>5, <1>6, <1>7, <1>8, <1>9, <1>10, <1>11, <1>12, <1>13
  DEF Next, Receive, Poll

-----------------------------------------------------------------------------
(* What the handlers have in common.                                        *)

Final == Outcomes \ {"none", "queued"}

\* A REGISTER that is answered at once is the next one to arrive, gets a final
\* outcome and touches neither the pending list nor what was verified.
LEMMA AnsweredAtOnce ==
    ASSUME TypeOK, NEW r \in Requests,
           RefuseRegister(r) \/ ChallengeRegister(r) \/ QueueFails(r)
    PROVE  /\ r = arrived + 1 /\ arrived' = r
           /\ \E x \in Final \ {"200"} : outcome' = [outcome EXCEPT ![r] = x]
           /\ UNCHANGED <<phase, now, register, pendingVars, lookupVars, answerVars,
                          usage, verifiedAt, registerOrder>>
<1> USE DEF timeVars, pendingVars, lookupVars, answerVars, nonceVars, Arrive
<1>1. CASE RefuseRegister(r)
  BY <1>1 DEF RefuseRegister, RespondNow, Final, Outcomes
<1>2. CASE ChallengeRegister(r)
  <2>1. \E sent \in BOOLEAN : RespondNow(r, "401", sent)
    BY <1>2 DEF ChallengeRegister
  <2> QED BY <1>2, <2>1 DEF ChallengeRegister, RespondNow, Final, Outcomes
<1>3. CASE QueueFails(r)
  <2>1. \E sent \in BOOLEAN :
          RespondNow(r, IF pendingAuthCount >= MaxPendingAuth THEN "503" ELSE "500", sent)
    BY <1>3 DEF QueueFails
  <2> QED BY <1>3, <2>1 DEF QueueFails, RespondNow, Final, Outcomes
<1> QED BY <1>1, <1>2, <1>3

\* A REGISTER that is answered or timed out leaves the pending list with a
\* final outcome.
LEMMA SettledFromList ==
    ASSUME TypeOK, NEW r \in Requests, CompletePendingAuth(r) \/ TimeoutPending(r)
    PROVE  /\ r \in pendingAuth /\ pendingAuth' = pendingAuth \ {r}
           /\ pendingAuthCount' = pendingAuthCount - 1
           /\ \E x \in Final : outcome' = [outcome EXCEPT ![r] = x]
           /\ UNCHANGED <<phase, now, arrived, register, lookupId, lookupVars, answerVars>>
<1> USE DEF timeVars, pendingVars, lookupVars, answerVars, nonceVars
<1>1. CASE CompletePendingAuth(r)
  <2>1. \E x \in Final : outcome' = [outcome EXCEPT ![r] = x]
    <3>1. CASE TerminatePending(r)
      BY <3>1 DEF TerminatePending, Final, Outcomes
    <3>2. ASSUME NEW sent \in BOOLEAN, AnswerPending(r, Head(authCommands), sent)
          PROVE  \E x \in Final : outcome' = [outcome EXCEPT ![r] = x]
      <4> DEFINE code == Verdict(register[r], Head(authCommands))
      <4>1. code \in {"200", "401", "403", "500"}
        BY VerdictType
      <4>2. outcome' = [outcome EXCEPT ![r] = IF sent THEN code ELSE "unsent"]
        BY <3>2 DEF AnswerPending, RespondNow
      <4> HIDE DEF code
      <4> QED BY <4>1, <4>2 DEF Final, Outcomes
    <3> QED BY <1>1, <3>1, <3>2 DEF CompletePendingAuth
  <2> QED BY <1>1, <2>1 DEF CompletePendingAuth, Unlink, Matching
<1>2. CASE TimeoutPending(r)
  BY <1>2 DEF TimeoutPending, Unlink, Overdue, Final, Outcomes
<1> QED BY <1>1, <1>2

\* The steps that touch neither a REGISTER, nor the pending list, nor a lookup.
Elsewhere ==
    UNCHANGED <<arrived, register, outcome, pendingVars, lookupVars>>

\* The steps as the list of parked REGISTERs sees them: a step elsewhere, a
\* REGISTER answered at once, one parked, one taken off the list.
LEMMA Steps ==
    ASSUME [Next]_vars
    PROVE  \/ Elsewhere
           \/ \E r \in Requests : RefuseRegister(r) \/ ChallengeRegister(r) \/ QueueFails(r)
           \/ \E r \in Requests : QueueLookup(r)
           \/ \E r \in Requests : CompletePendingAuth(r) \/ TimeoutPending(r)
<1> USE DEF timeVars, pendingVars, lookupVars, answerVars, nonceVars, Elsewhere
<1>1. CASE Tick \/ SetClockBack
  BY <1>1 DEF Tick, SetClockBack
<1>2. CASE Receive
  BY <1>2 DEF Receive
<1>3. CASE \E command \in Commands : CompleteAuthLookup(command)
  BY <1>3 DEF CompleteAuthLookup
<1>4. CASE Poll
  BY <1>4 DEF Poll, BeginPoll, EndReceive, EndPoll, GoTo, StartTimeouts, FinishAuthCommand
<1>5. CASE UNCHANGED vars
  BY <1>5 DEF vars
<1> QED BY <1>1, <1>2, <1>3, <1>4, <1>5 DEF Next

-----------------------------------------------------------------------------
(* The pending list, its counter and the lookups.                           *)

\* Outcomes and lookups are allotted in order of arrival.
Allotted ==
    /\ \A r \in Requests : r > arrived => outcome[r] = "none"
    /\ lookupSequence <= arrived
    /\ \A l \in Requests : l > lookupSequence => announced[l] = NoDevice

ListInv ==
    /\ TypeOK /\ PendingStored
    /\ Allotted
    /\ PendingAccounting
    /\ LookupIsolation

\* The list of parked REGISTERs is finite.
LEMMA PendingFinite ==
    ASSUME TypeOK
    PROVE  IsFiniteSet(pendingAuth)
<1>1. IsFiniteSet(Requests)
  BY SMT, FS_Interval, ConstantsAssumption DEF Requests
<1> QED BY <1>1, FS_Subset DEF TypeOK

\* Initially nothing is parked and no lookup is open.
LEMMA ListInvInit ==
    ASSUME Init
    PROVE  ListInv
<1>1. TypeOK
  BY SMT, ConstantsAssumption DEF Init, TypeOK, Outcomes, NoUsage
<1>2. PendingStored /\ Allotted /\ LookupIsolation
  BY SMT, ConstantsAssumption DEF Init, PendingStored, Allotted, LookupIsolation, Requests
<1>3. PendingAccounting
  BY SMT, FS_EmptySet, ConstantsAssumption DEF Init, PendingAccounting
<1> QED BY <1>1, <1>2, <1>3 DEF ListInv

\* The types that the list, its outcomes and its lookups need.
ListTypes ==
    /\ arrived \in 0 .. MaxRequests
    /\ register \in [Requests -> Registers \cup {NoRegister}]
    /\ outcome \in [Requests -> Outcomes]
    /\ pendingAuth \subseteq Requests /\ pendingAuthCount \in Int
    /\ lookupId \in [Requests -> Nat] /\ lookupSequence \in Nat
    /\ announced \in [Requests -> Devices \cup {NoDevice}]

\* Every step preserves what is known of the list and of the lookups.
LEMMA ListInvStep ==
    ASSUME ListInv, [Next]_vars
    PROVE  ListInv'
<1> USE DEF pendingVars, lookupVars
<1>1. TypeOK /\ ListTypes /\ PendingStored /\ Allotted /\ PendingAccounting /\ LookupIsolation
  BY DEF ListInv, TypeOK, ListTypes
<1>2. TypeOK'
  BY <1>1, TypeStep
<1>3. CASE Elsewhere
  BY <1>1, <1>2, <1>3 DEF Elsewhere, ListInv, PendingStored, Allotted, PendingAccounting,
                          LookupIsolation
<1>4. ASSUME NEW r \in Requests, RefuseRegister(r) \/ ChallengeRegister(r) \/ QueueFails(r)
      PROVE  ListInv'
  <2>1. PICK x \in Final : outcome' = [outcome EXCEPT ![r] = x]
    BY <1>1, <1>4, AnsweredAtOnce
  <2>2. /\ r = arrived + 1 /\ arrived' = r
        /\ UNCHANGED <<register, pendingVars, lookupVars>>
    BY <1>1, <1>4, AnsweredAtOnce
  <2>3. Allotted'
    BY SMT, <1>1, <2>1, <2>2 DEF Allotted, ListTypes, Requests
  <2>4. outcome[r] = "none"
    BY SMTT(30), <1>1, <2>2 DEF Allotted, ListTypes
  <2>5. PendingAccounting'
    BY <1>1, <2>1, <2>2, <2>4 DEF PendingAccounting, ListTypes, Final
  <2> QED BY <1>1, <1>2, <2>2, <2>3, <2>5 DEF ListInv, PendingStored, LookupIsolation
<1>5. ASSUME NEW r \in Requests, QueueLookup(r)
      PROVE  ListInv'
  <2>1. PICK reg \in Registers : /\ register' = [register EXCEPT ![r] = reg]
                                 /\ AssignLookup(r, reg)
    BY <1>5 DEF QueueLookup
  <2>2. /\ r = arrived + 1 /\ arrived' = r
        /\ pendingAuthCount < MaxPendingAuth
        /\ outcome' = [outcome EXCEPT ![r] = "queued"]
        /\ pendingAuth' = pendingAuth \cup {r}
        /\ pendingAuthCount' = pendingAuthCount + 1
    BY <1>5 DEF QueueLookup, Arrive
  <2>3. outcome[r] = "none" /\ r \notin pendingAuth
    BY SMT, <1>1, <2>2 DEF Allotted, ListTypes, PendingAccounting
  <2>4. PendingStored'
    BY <1>1, <2>1, <2>2 DEF PendingStored, ListTypes
  <2>5. PendingAccounting'
    <3>1. pendingAuth' = {s \in Requests : outcome'[s] = "queued"}
      BY <1>1, <2>2 DEF PendingAccounting, ListTypes
    <3>2. Cardinality(pendingAuth') = Cardinality(pendingAuth) + 1
      BY <1>1, <2>2, <2>3, PendingFinite, FS_AddElement
    <3> QED BY SMT, <1>1, <2>2, <3>1, <3>2, ConstantsAssumption DEF PendingAccounting, ListTypes
  <2>6. ASSUME NEW s \in SameDevice(reg),
               lookupId' = [lookupId EXCEPT ![r] = lookupId[s]], UNCHANGED lookupVars
        PROVE  Allotted' /\ LookupIsolation'
    <3>1. s \in pendingAuth /\ s \in Requests /\ s # r /\ register[s].dev = reg.dev
      BY <1>1, <2>3 DEF SameDevice, ListTypes
    <3>2. lookupId'[r] = lookupId[s] /\ register'[r] = reg
      BY <1>1, <2>1, <2>6 DEF ListTypes
    <3>3. \A t \in pendingAuth : lookupId'[t] = lookupId[t] /\ register'[t] = register[t]
      BY <1>1, <2>1, <2>3, <2>6 DEF ListTypes
    <3>4. Allotted'
      BY SMT, <1>1, <2>2, <2>6 DEF Allotted, ListTypes, Requests
    <3>5. LookupIsolation'
      BY SMT, <1>1, <2>2, <2>6, <3>1, <3>2, <3>3 DEF LookupIsolation
    <3> QED BY <3>4, <3>5
  <2>7. ASSUME SameDevice(reg) = {},
               lookupSequence' = lookupSequence + 1,
               lookupId' = [lookupId EXCEPT ![r] = lookupSequence + 1],
               announced' = [announced EXCEPT ![lookupSequence + 1] = reg.dev]
        PROVE  Allotted' /\ LookupIsolation'
    <3>1. lookupSequence \in Nat /\ lookupSequence + 1 \in Requests
      <4>1. /\ lookupSequence \in Nat /\ arrived \in Nat /\ lookupSequence <= arrived
            /\ arrived + 1 \in 1 .. MaxRequests /\ MaxRequests \in Nat
        BY SMTT(30), <1>1, <2>2, ConstantsAssumption DEF Allotted, ListTypes, Requests
      <4> QED BY SMTT(30), <4>1 DEF Requests
    <3>2. /\ lookupId'[r] = lookupSequence + 1 /\ register'[r] = reg
          /\ announced'[lookupSequence + 1] = reg.dev
      BY <1>1, <2>1, <2>7, <3>1 DEF ListTypes
    <3>3. \A t \in pendingAuth : /\ lookupId'[t] = lookupId[t] /\ register'[t] = register[t]
                                 /\ register[t].dev # reg.dev
      BY <1>1, <2>1, <2>3, <2>7 DEF ListTypes, SameDevice
    <3>4. \A l \in Requests : l # lookupSequence + 1 => announced'[l] = announced[l]
      BY <1>1, <2>7 DEF ListTypes
    <3>5. Allotted'
      BY SMTT(30), <1>1, <2>2, <2>7, <3>1, <3>4 DEF Allotted, ListTypes, Requests
    <3>6. \A t \in pendingAuth : /\ lookupId[t] \in 1 .. lookupSequence
                                 /\ lookupId[t] \in Requests
                                 /\ lookupId[t] # lookupSequence + 1
      <4>1. \A t \in pendingAuth : lookupId[t] \in 1 .. lookupSequence
        BY <1>1 DEF LookupIsolation
      <4> QED BY SMTT(30), <3>1, <4>1, ConstantsAssumption DEF Requests
    <3>7. LookupIsolation'
      BY SMTT(30), <1>1, <2>2, <2>7, <3>1, <3>2, <3>3, <3>4, <3>6 DEF LookupIsolation
    <3> QED BY <3>5, <3>7
  <2>8. Allotted' /\ LookupIsolation'
    BY <2>1, <2>6, <2>7 DEF AssignLookup
  <2> QED BY <1>2, <2>4, <2>5, <2>8 DEF ListInv
<1>6. ASSUME NEW r \in Requests, CompletePendingAuth(r) \/ TimeoutPending(r)
      PROVE  ListInv'
  <2>1. PICK x \in Final : outcome' = [outcome EXCEPT ![r] = x]
    BY <1>1, <1>6, SettledFromList
  <2>2. /\ r \in pendingAuth /\ pendingAuth' = pendingAuth \ {r}
        /\ pendingAuthCount' = pendingAuthCount - 1
        /\ UNCHANGED <<arrived, register, lookupId, lookupVars>>
    BY <1>1, <1>6, SettledFromList
  <2>3. Allotted'
    <3>1. r <= arrived
      BY SMTT(30), <1>1, <2>2 DEF Allotted, PendingAccounting, ListTypes, Requests
    <3> QED BY SMTT(30), <1>1, <2>1, <2>2, <3>1 DEF Allotted, ListTypes, Requests
  <2>4. PendingAccounting'
    <3>1. pendingAuth' = {s \in Requests : outcome'[s] = "queued"}
      BY <1>1, <2>1, <2>2 DEF PendingAccounting, ListTypes, Final
    <3>2. Cardinality(pendingAuth') = Cardinality(pendingAuth) - 1
      BY <1>1, <2>2, PendingFinite, FS_RemoveElement
    <3> QED BY SMTT(30), <1>1, <2>2, <3>1, <3>2, ConstantsAssumption DEF PendingAccounting, ListTypes
  <2> QED BY <1>1, <1>2, <2>2, <2>3, <2>4 DEF ListInv, PendingStored, LookupIsolation
<1> QED BY <1>3, <1>4, <1>5, <1>6, Steps

\* The strengthened list invariant is inductive.
THEOREM ListCorrect == Spec => []ListInv
<1>1. Init => ListInv
  BY ListInvInit
<1>2. ListInv /\ [Next]_vars => ListInv'
  BY ListInvStep
<1> QED BY <1>1, <1>2, PTL DEF Spec

\* Every variable of the REGISTER path keeps its type.
THEOREM TypeCorrect == Spec => []TypeOK
<1>1. ListInv => TypeOK
  BY DEF ListInv
<1> QED BY <1>1, ListCorrect, PTL

\* pending_auth_count is the length of pending_auth, stays within
\* max_pending_auth, and the list holds exactly the unanswered REGISTERs.
THEOREM PendingAccountingCorrect == Spec => []PendingAccounting
<1>1. ListInv => PendingAccounting
  BY DEF ListInv
<1> QED BY <1>1, ListCorrect, PTL

\* An answer to a lookup reaches the pending REGISTERs of one device only.
THEOREM LookupIsolationCorrect == Spec => []LookupIsolation
<1>1. ListInv => LookupIsolation
  BY DEF ListInv
<1> QED BY <1>1, ListCorrect, PTL

\* A REGISTER with a final outcome is left alone.
LEMMA FinalStays ==
    ASSUME ListInv, [Next]_vars, NEW r \in Requests, outcome[r] \notin {"none", "queued"}
    PROVE  /\ outcome'[r] = outcome[r] /\ register'[r] = register[r]
           /\ lookupId'[r] = lookupId[r]
<1> USE DEF pendingVars
<1>1. TypeOK /\ ListTypes /\ Allotted /\ PendingAccounting
  BY DEF ListInv, TypeOK, ListTypes
<1>2. CASE Elsewhere
  BY <1>2 DEF Elsewhere
<1>3. ASSUME NEW s \in Requests, RefuseRegister(s) \/ ChallengeRegister(s) \/ QueueFails(s)
      PROVE  outcome'[r] = outcome[r] /\ UNCHANGED <<register, lookupId>>
  <2>1. /\ s = arrived + 1 /\ \E x \in Final : outcome' = [outcome EXCEPT ![s] = x]
        /\ UNCHANGED <<register, lookupId>>
    BY <1>1, <1>3, AnsweredAtOnce
  <2>2. outcome[s] = "none"
    BY SMTT(30), <1>1, <2>1 DEF Allotted, ListTypes
  <2> QED BY <1>1, <2>1, <2>2 DEF ListTypes
<1>4. ASSUME NEW s \in Requests, QueueLookup(s)
      PROVE  /\ outcome'[r] = outcome[r] /\ register'[r] = register[r]
             /\ lookupId'[r] = lookupId[r]
  <2>1. /\ s = arrived + 1 /\ outcome' = [outcome EXCEPT ![s] = "queued"]
        /\ \E reg \in Registers : register' = [register EXCEPT ![s] = reg]
        /\ \E l : lookupId' = [lookupId EXCEPT ![s] = l]
    BY <1>4 DEF QueueLookup, Arrive, AssignLookup
  <2>2. outcome[s] = "none"
    BY SMT, <1>1, <2>1 DEF Allotted, ListTypes
  <2> QED BY <1>1, <2>1, <2>2 DEF ListTypes
<1>5. ASSUME NEW s \in Requests, CompletePendingAuth(s) \/ TimeoutPending(s)
      PROVE  outcome'[r] = outcome[r] /\ UNCHANGED <<register, lookupId>>
  <2>1. /\ s \in pendingAuth /\ \E x \in Final : outcome' = [outcome EXCEPT ![s] = x]
        /\ UNCHANGED <<register, lookupId>>
    BY <1>1, <1>5, SettledFromList
  <2>2. outcome[s] = "queued"
    BY <1>1, <2>1 DEF PendingAccounting
  <2> QED BY <1>1, <2>1, <2>2 DEF ListTypes
<1> QED BY <1>2, <1>3, <1>4, <1>5, Steps

\* No step of the REGISTER path revises a final outcome.
THEOREM FinalOnceCorrect == Spec => FinalOnce
<1>1. ListInv /\ [Next]_vars =>
        [\A r \in Requests : outcome[r] \notin {"none", "queued"} =>
             outcome'[r] = outcome[r]]_vars
  BY FinalStays
<1> QED BY <1>1, ListCorrect, PTL DEF Spec, FinalOnce

-----------------------------------------------------------------------------
(* Answers and timeouts.                                                    *)

Answered(r) == \E c \in answered : c.lookup = lookupId[r]

Queued(r) == \E i \in DOMAIN authCommands : authCommands[i].lookup = lookupId[r]

\* An answer that was accepted and whose REGISTERs still wait is in the command
\* queue, and the timeouts run only once the queue is empty.
AnswerInv ==
    /\ \A i \in DOMAIN authCommands : authCommands[i] \in answered
    /\ \A c \in answered : c.lookup \in 1 .. lookupSequence
    /\ \A r \in pendingAuth : Answered(r) => phase # "timeouts" /\ Queued(r)

\* Taking the first of a queue moves the others up by one.
LEMMA TailIndices ==
    ASSUME NEW S, NEW s \in Seq(S), s # <<>>
    PROVE  /\ \A i \in DOMAIN s : i # 1 => i - 1 \in DOMAIN Tail(s) /\ Tail(s)[i - 1] = s[i]
           /\ \A i \in DOMAIN Tail(s) : i + 1 \in DOMAIN s /\ Tail(s)[i] = s[i + 1]
BY SMT

\* Every step preserves that an accepted answer still has to be applied to the
\* REGISTERs parked for its lookup.
LEMMA AnswerInvStep ==
    ASSUME ListInv, AnswerInv, [Next]_vars
    PROVE  AnswerInv'
<1> USE DEF timeVars, pendingVars, lookupVars, answerVars, nonceVars
<1>1. TypeOK /\ Allotted /\ PendingAccounting /\ LookupIsolation
  BY DEF ListInv
<1>2. CASE Tick \/ SetClockBack
  BY <1>2 DEF Tick, SetClockBack, AnswerInv, Answered, Queued
<1>3. ASSUME NEW r \in Requests, RefuseRegister(r) \/ ChallengeRegister(r) \/ QueueFails(r)
      PROVE  AnswerInv'
  <2>1. UNCHANGED <<phase, pendingVars, lookupVars, answerVars>>
    BY <1>1, <1>3, AnsweredAtOnce
  <2> QED BY <2>1 DEF AnswerInv, Answered, Queued
<1>4. ASSUME NEW r \in Requests, QueueLookup(r)
      PROVE  AnswerInv'
  <2>1. PICK reg \in Registers : AssignLookup(r, reg)
    BY <1>4 DEF QueueLookup
  <2>2. /\ phase = "receive" /\ UNCHANGED <<phase, answerVars>>
        /\ pendingAuth' = pendingAuth \cup {r}
    BY <1>4 DEF QueueLookup, Arrive
  <2>3. r \notin pendingAuth
    BY SMT, <1>1, <1>4 DEF QueueLookup, Arrive, Allotted, PendingAccounting, TypeOK
  <2>4. ASSUME NEW s \in pendingAuth, lookupId' = [lookupId EXCEPT ![r] = lookupId[s]],
               UNCHANGED lookupVars
        PROVE  AnswerInv'
    <3>1. \A t \in pendingAuth : lookupId'[t] = lookupId[t]
      BY <1>1, <2>3, <2>4 DEF TypeOK
    <3>2. lookupId'[r] = lookupId[s]
      BY <1>1, <2>4 DEF TypeOK
    <3>3. \A t \in pendingAuth' : Answered(t)' => phase' # "timeouts" /\ Queued(t)'
      BY SMT, <2>2, <3>1, <3>2 DEF AnswerInv, Answered, Queued
    <3> QED BY <2>2, <2>4, <3>3 DEF AnswerInv
  <2>5. CASE /\ lookupSequence' = lookupSequence + 1
             /\ lookupId' = [lookupId EXCEPT ![r] = lookupSequence + 1]
    <3>1. \A c \in answered : c.lookup # lookupSequence + 1
      BY SMT, <1>1 DEF AnswerInv, TypeOK
    <3>2. ~Answered(r)'
      BY <1>1, <2>2, <2>5, <3>1 DEF Answered, TypeOK
    <3>3. \A s \in pendingAuth : lookupId'[s] = lookupId[s]
      BY <1>1, <2>3, <2>5 DEF TypeOK
    <3>4. \A s \in pendingAuth' : Answered(s)' => phase' # "timeouts" /\ Queued(s)'
      BY <2>2, <3>2, <3>3 DEF AnswerInv, Answered, Queued
    <3>5. \A c \in answered' : c.lookup \in 1 .. lookupSequence'
      BY SMT, <1>1, <2>2, <2>5 DEF AnswerInv, TypeOK
    <3> QED BY <2>2, <3>4, <3>5 DEF AnswerInv
  <2> QED BY <2>1, <2>4, <2>5 DEF AssignLookup, SameDevice
<1>5. ASSUME NEW command \in Commands, CompleteAuthLookup(command)
      PROVE  AnswerInv'
  <2>1. /\ phase = "idle" /\ authCommands' = Append(authCommands, command)
        /\ answered' = answered \cup {command}
        /\ UNCHANGED <<phase, pendingVars, lookupVars>>
    BY <1>5 DEF CompleteAuthLookup
  <2>2. command.lookup \in Requests /\ announced[command.lookup] # NoDevice
    BY <1>5 DEF CompleteAuthLookup, Commands
  <2>3. command.lookup \in 1 .. lookupSequence
    BY SMT, <1>1, <2>2 DEF Allotted, TypeOK, Requests
  <2>4. /\ DOMAIN authCommands' = DOMAIN authCommands \cup {Len(authCommands) + 1}
        /\ \A i \in DOMAIN authCommands : authCommands'[i] = authCommands[i]
        /\ authCommands'[Len(authCommands) + 1] = command
    BY SMT, <1>1, <2>1 DEF TypeOK
  <2> HIDE DEF Commands
  <2>5. \A r \in pendingAuth : Answered(r)' => Queued(r)'
    <3>1. TAKE r \in pendingAuth
    <3>2. HAVE Answered(r)'
    <3>3. CASE command.lookup = lookupId[r]
      BY <2>1, <2>4, <3>3 DEF Queued
    <3>4. CASE Answered(r)
      BY <2>1, <2>4, <3>4 DEF Queued, AnswerInv
    <3> QED BY <2>1, <3>2, <3>3, <3>4 DEF Answered
  <2>6. \A i \in DOMAIN authCommands' : authCommands'[i] \in answered'
    BY <2>1, <2>4 DEF AnswerInv
  <2> QED BY <2>1, <2>3, <2>5, <2>6 DEF AnswerInv
<1>6. ASSUME NEW r \in Requests, CompletePendingAuth(r) \/ TimeoutPending(r)
      PROVE  AnswerInv'
  <2>1. /\ pendingAuth' = pendingAuth \ {r}
        /\ UNCHANGED <<phase, lookupId, lookupVars, answerVars>>
    BY <1>1, <1>6, SettledFromList
  <2> QED BY <2>1 DEF AnswerInv, Answered, Queued
<1>7. CASE FinishAuthCommand
  <2>1. /\ authCommands # <<>> /\ authCommands' = Tail(authCommands)
        /\ \A s \in pendingAuth : lookupId[s] # authCommands[1].lookup
        /\ UNCHANGED <<phase, pendingVars, lookupVars, answered>>
    BY SMTT(30), <1>1, <1>7 DEF FinishAuthCommand, Matching, TypeOK
  <2>2. /\ \A i \in DOMAIN authCommands : i # 1 =>
             i - 1 \in DOMAIN authCommands' /\ authCommands'[i - 1] = authCommands[i]
        /\ \A i \in DOMAIN authCommands' :
             i + 1 \in DOMAIN authCommands /\ authCommands'[i] = authCommands[i + 1]
    <3>1. authCommands \in Seq(Commands)
      BY <1>1 DEF TypeOK
    <3> QED BY <2>1, <3>1, TailIndices
  <2>3. \A s \in pendingAuth : Queued(s) => Queued(s)'
    BY <2>1, <2>2 DEF Queued
  <2> QED BY <2>1, <2>2, <2>3 DEF AnswerInv, Answered
<1>8. CASE StartTimeouts
  <2>1. DOMAIN authCommands = {}
    BY SMT, <1>8 DEF StartTimeouts
  <2> QED BY <1>8, <2>1 DEF StartTimeouts, AnswerInv, Answered, Queued
<1>9. CASE BeginPoll \/ EndReceive \/ EndPoll
  BY <1>9 DEF BeginPoll, EndReceive, EndPoll, GoTo, AnswerInv, Answered, Queued
<1>10. CASE UNCHANGED vars
  BY <1>10 DEF vars, AnswerInv, Answered, Queued
<1> QED BY <1>2, <1>3, <1>4, <1>5, <1>6, <1>7, <1>8, <1>9, <1>10 DEF Next, Receive, Poll

\* Answers wait in the queue until every REGISTER of their lookup is answered.
THEOREM AnswerCorrect == Spec => []AnswerInv
<1>1. Init => AnswerInv
  BY SMT DEF Init, AnswerInv
<1>2. ListInv /\ AnswerInv /\ [Next]_vars => AnswerInv'
  BY AnswerInvStep
<1> QED BY <1>1, <1>2, ListCorrect, PTL DEF Spec

\* No REGISTER is refused with 504 once an answer to its lookup was accepted.
THEOREM AnswerBeatsTimeoutCorrect == Spec => AnswerBeatsTimeout
<1> DEFINE Beats == \A r \in Requests : outcome[r] = "queued" /\ outcome'[r] = "504" =>
                        \A c \in answered : c.lookup # lookupId[r]
<1>1. ASSUME ListInv, AnswerInv, [Next]_vars
      PROVE  Beats
  <2>1. TypeOK /\ Allotted /\ PendingAccounting
    BY <1>1 DEF ListInv
  <2> SUFFICES ASSUME NEW r \in Requests, outcome[r] = "queued", outcome'[r] = "504"
               PROVE  ~Answered(r)
    BY DEF Answered
  <2>2. CASE Elsewhere
    BY <2>2 DEF Elsewhere
  <2>3. ASSUME NEW s \in Requests, RefuseRegister(s) \/ ChallengeRegister(s) \/ QueueFails(s)
        PROVE  FALSE
    <3>1. s = arrived + 1 /\ \E x \in Final : outcome' = [outcome EXCEPT ![s] = x]
      BY <2>1, <2>3, AnsweredAtOnce
    <3>2. outcome[s] = "none"
      BY SMT, <2>1, <3>1 DEF Allotted, TypeOK
    <3> QED BY <2>1, <3>1, <3>2 DEF TypeOK
  <2>4. ASSUME NEW s \in Requests, QueueLookup(s)
        PROVE  FALSE
    <3>1. outcome' = [outcome EXCEPT ![s] = "queued"]
      BY <2>4 DEF QueueLookup
    <3> QED BY <2>1, <3>1 DEF TypeOK
  <2>5. ASSUME NEW s \in Requests, CompletePendingAuth(s)
        PROVE  FALSE
    <3>1. CASE TerminatePending(s)
      BY <2>1, <3>1 DEF TerminatePending, TypeOK
    <3>2. ASSUME NEW sent \in BOOLEAN, AnswerPending(s, Head(authCommands), sent)
          PROVE  FALSE
      <4> DEFINE code == Verdict(register[s], Head(authCommands))
      <4>1. code \in {"200", "401", "403", "500"}
        BY VerdictType
      <4>2. outcome' = [outcome EXCEPT ![s] = IF sent THEN code ELSE "unsent"]
        BY <3>2 DEF AnswerPending, RespondNow
      <4> HIDE DEF code
      <4> QED BY <2>1, <4>1, <4>2 DEF TypeOK
    <3> QED BY <2>5, <3>1, <3>2 DEF CompletePendingAuth
  <2>6. ASSUME NEW s \in Requests, TimeoutPending(s)
        PROVE  ~Answered(r)
    <3>1. r \in pendingAuth
      BY <2>1 DEF PendingAccounting
    <3>2. phase = "timeouts"
      BY <2>6 DEF TimeoutPending
    <3> QED BY <1>1, <3>1, <3>2 DEF AnswerInv
  <2> QED BY <1>1, <2>2, <2>3, <2>4, <2>5, <2>6, Steps
<1>2. ListInv /\ AnswerInv /\ [Next]_vars => [Beats]_vars
  BY <1>1
<1> QED BY <1>2, ListCorrect, AnswerCorrect, PTL DEF Spec, AnswerBeatsTimeout

-----------------------------------------------------------------------------
(* What an answer changes, and the order of registrations.                  *)

\* Only the answer to a pending REGISTER changes the order kept for its device,
\* the usages of a nonce and what counts as verified.
LEMMA AnswerSteps ==
    ASSUME [Next]_vars
    PROVE  \/ UNCHANGED <<registerOrder, usage, verifiedAt>>
           \/ \E r \in pendingAuth, sent \in BOOLEAN : AnswerPending(r, Head(authCommands), sent)
<1> USE DEF timeVars, pendingVars, lookupVars, answerVars, nonceVars
<1>1. CASE Tick \/ SetClockBack
  BY <1>1 DEF Tick, SetClockBack
<1>2. CASE Receive
  BY <1>2 DEF Receive, RefuseRegister, ChallengeRegister, QueueFails, QueueLookup
<1>3. CASE \E command \in Commands : CompleteAuthLookup(command)
  BY <1>3 DEF CompleteAuthLookup
<1>4. CASE BeginPoll \/ EndReceive \/ StartTimeouts \/ EndPoll \/ FinishAuthCommand
  BY <1>4 DEF BeginPoll, EndReceive, EndPoll, GoTo, StartTimeouts, FinishAuthCommand
<1>5. ASSUME NEW r \in Requests, CompletePendingAuth(r)
      PROVE  \/ UNCHANGED <<registerOrder, usage, verifiedAt>>
             \/ \E s \in pendingAuth, sent \in BOOLEAN : AnswerPending(s, Head(authCommands), sent)
  BY <1>5 DEF CompletePendingAuth, TerminatePending, Unlink, Matching
<1>6. ASSUME NEW r \in Requests, TimeoutPending(r)
      PROVE  UNCHANGED <<registerOrder, usage, verifiedAt>>
  BY <1>6 DEF TimeoutPending
<1>7. CASE UNCHANGED vars
  BY <1>7 DEF vars
<1> QED BY <1>1, <1>2, <1>3, <1>4, <1>5, <1>6, <1>7 DEF Next, Poll

\* Answering REGISTERs never moves the CSeq kept for a Call-ID back.
THEOREM OrderNeverGoesBackCorrect == Spec => OrderNeverGoesBack
<1> DEFINE Forward == \A d \in Devices :
              registerOrder'[d] # NoOrder /\ registerOrder'[d].callId = registerOrder[d].callId
              => registerOrder'[d].cseq >= registerOrder[d].cseq
<1>1. ASSUME ListInv, [Next]_vars
      PROVE  Forward
  <2>1. TypeOK /\ PendingStored
    BY <1>1 DEF ListInv
  <2>2. \A d \in Devices : registerOrder[d].cseq \in Nat
    BY <2>1, OrderIsNumber
  <2>3. CASE UNCHANGED registerOrder
    BY SMT, <2>2, <2>3
  <2>4. ASSUME NEW r \in pendingAuth, NEW sent \in BOOLEAN,
               AnswerPending(r, Head(authCommands), sent)
        PROVE  Forward
    <3> DEFINE reg == register[r]
               code == Verdict(reg, Head(authCommands))
    <3>1. reg \in Registers /\ reg.cseq \in Nat
      BY <2>1, ConstantsAssumption DEF PendingStored, Registers
    <3>2. registerOrder' = IF sent /\ code = "200" THEN OrderAfter(reg) ELSE registerOrder
      BY <2>4 DEF AnswerPending
    <3>3. CASE sent /\ code = "200"
      <4>1. ~OrderIsStale(reg)
        BY <3>3, AcceptedInOrder
      <4>2. registerOrder' = OrderAfter(reg)
        BY <3>2, <3>3
      <4> HIDE DEF reg, code
      <4>3. \A d \in Devices :
               registerOrder'[d] # NoOrder /\ registerOrder'[d].callId = registerOrder[d].callId
               => registerOrder'[d].cseq >= registerOrder[d].cseq
        BY <2>1, <3>1, <4>1, <4>2, OrderForward
      <4> QED BY <4>3
    <3>4. CASE ~(sent /\ code = "200")
      BY SMT, <2>2, <3>2, <3>4
    <3> QED BY <3>3, <3>4
  <2> QED BY <1>1, <2>3, <2>4, AnswerSteps
<1>2. ListInv /\ [Next]_vars => [Forward]_vars
  BY <1>1
<1> QED BY <1>2, ListCorrect, PTL DEF Spec, OrderNeverGoesBack

-----------------------------------------------------------------------------
(* Digests: every one that was counted is recorded in its nonce's usages.    *)

Recorded(reg) ==
    LET u == usage[UsageKey(reg)]
    IN  IF reg.auth.nc = 0 THEN u.withoutQop ELSE reg.auth.nc <= u.lastNc

\* What is known of a REGISTER whose Digest was counted.
Counted(r) ==
    /\ outcome[r] \in Final
    /\ register[r] \in Registers /\ register[r].auth.digest
    /\ register[r].auth.nonce \in 1 .. nonceSequence
    /\ Recorded(register[r])

DigestInv ==
    /\ now >= 1
    /\ authNonces \subseteq 1 .. nonceSequence
    /\ \A r \in Requests : verifiedAt[r] # 0 => Counted(r)
    /\ DigestUsedOnce
    /\ NonceLiveWhenCounted

\* The entries of a nonce, as a finite set.
SeenKeys(n) == {k \in UsageKeys : k[1] = n /\ usage[k].seen}

UsagesInv ==
    \A n \in Nonces : IsFiniteSet(SeenKeys(n)) /\ Cardinality(SeenKeys(n)) <= MaxUsages

\* What gmv_complete_pending_auth records when it answers a REGISTER.
LEMMA AnswerRecords ==
    ASSUME NEW r, NEW command, NEW sent, AnswerPending(r, command, sent)
    PROVE  /\ usage' = IF ChecksDigest(register[r], command) THEN UsageAfter(register[r]) ELSE usage
           /\ verifiedAt' = IF ChecksDigest(register[r], command) /\ UsageCommits(register[r])
                            THEN [verifiedAt EXCEPT ![r] = now] ELSE verifiedAt
BY DEF AnswerPending

\* The answer that is handled is the first of the queue.
LEMMA HeadIsFirst ==
    ASSUME TypeOK, authCommands # <<>>
    PROVE  1 \in DOMAIN authCommands /\ Head(authCommands) = authCommands[1]
BY SMT DEF TypeOK

\* A REGISTER with a Digest names an entry of the usages.
LEMMA KeyType ==
    ASSUME NEW reg \in Registers, reg.auth.digest
    PROVE  /\ UsageKey(reg) \in UsageKeys /\ UsageKey(reg)[1] = reg.auth.nonce
           /\ reg.auth.nonce \in Nonces /\ reg.auth.nc \in Nat
<1>1. reg.auth \in Digests /\ reg.dev \in Devices
  BY SMT DEF Registers, NoAuth
<1>2. reg.auth.nonce \in Nonces /\ reg.auth.cnonce \in Cnonces /\ reg.auth.nc \in Nat
  BY <1>1, ConstantsAssumption DEF Digests
<1> QED BY <1>1, <1>2 DEF UsageKey, UsageKeys

\* What gmv_commit_nonce_usage does to the entries.
LEMMA UsageAfterEntry ==
    ASSUME TypeOK, NEW reg \in Registers, reg.auth.digest, NEW k \in UsageKeys
    PROVE  /\ UsageEntry(reg) /\ k = UsageKey(reg) =>
                /\ UsageAfter(reg)[k].seen
                /\ UsageAfter(reg)[k].lastNc >= usage[k].lastNc
                /\ UsageAfter(reg)[k].lastNc >= reg.auth.nc
                /\ usage[k].withoutQop \/ reg.auth.nc = 0 => UsageAfter(reg)[k].withoutQop
           /\ ~UsageEntry(reg) \/ k # UsageKey(reg) => UsageAfter(reg)[k] = usage[k]
<1>1. UsageKey(reg) \in UsageKeys /\ reg.auth.nc \in Nat
  BY KeyType
<1>2. usage[k] \in [seen : BOOLEAN, lastNc : Nat, withoutQop : BOOLEAN]
  BY DEF TypeOK
<1>3. CASE UsageEntry(reg) /\ k = UsageKey(reg)
  <2>1. UsageAfter(reg)[k] =
          [seen |-> TRUE,
           lastNc |-> IF reg.auth.nc > usage[k].lastNc THEN reg.auth.nc ELSE usage[k].lastNc,
           withoutQop |-> usage[k].withoutQop \/ reg.auth.nc = 0]
    BY <1>3 DEF UsageAfter, TypeOK
  <2>2. UsageAfter(reg)[k].seen
    BY SMT, <2>1
  <2>3. UsageAfter(reg)[k].lastNc =
          IF reg.auth.nc > usage[k].lastNc THEN reg.auth.nc ELSE usage[k].lastNc
    BY SMT, <2>1
  <2>4. usage[k].lastNc \in Nat
    BY <1>2
  <2>5. /\ UsageAfter(reg)[k].lastNc >= usage[k].lastNc
        /\ UsageAfter(reg)[k].lastNc >= reg.auth.nc
    BY SMT, <1>1, <2>3, <2>4
  <2>6. UsageAfter(reg)[k].withoutQop = (usage[k].withoutQop \/ reg.auth.nc = 0)
    BY SMT, <2>1
  <2> QED BY <1>3, <2>2, <2>5, <2>6
<1>4. CASE ~(UsageEntry(reg) /\ k = UsageKey(reg))
  BY <1>1, <1>4 DEF UsageAfter, TypeOK
<1> QED BY <1>3, <1>4

\* An entry never forgets a Digest.
LEMMA RecordedStays ==
    ASSUME TypeOK, NEW reg \in Registers, reg.auth.digest,
           NEW old \in Registers, old.auth.digest, Recorded(old), usage' = UsageAfter(reg)
    PROVE  LET u == usage'[UsageKey(old)]
           IN  IF old.auth.nc = 0 THEN u.withoutQop ELSE old.auth.nc <= u.lastNc
<1> DEFINE k == UsageKey(old)
<1>1. k \in UsageKeys /\ old.auth.nc \in Nat /\ UsageKey(reg) \in UsageKeys
  BY KeyType
<1>2. usage[k].lastNc \in Nat /\ usage'[k].lastNc \in Nat
  BY <1>1, UsageAfterType DEF TypeOK
<1>3. /\ usage[k].withoutQop => usage'[k].withoutQop
      /\ usage'[k].lastNc >= usage[k].lastNc
  BY SMT, <1>1, <1>2, UsageAfterEntry
<1> QED BY SMT, <1>1, <1>2, <1>3 DEF Recorded

\* The list of nonces holds issued nonces only, and an issued nonce keeps its
\* expiry.
NoncesGrow ==
    /\ nonceSequence' >= nonceSequence
    /\ authNonces' \subseteq 1 .. nonceSequence'
    /\ \A n \in 1 .. nonceSequence : nonceExpires'[n] = nonceExpires[n]

\* A challenge leaves the expiry of the nonces issued before as it is ...
LEMMA ChallengeGrows ==
    ASSUME TypeOK, authNonces \subseteq 1 .. nonceSequence,
           NEW listed \in SUBSET authNonces, NEW sent, SendChallenge(listed, sent)
    PROVE  NoncesGrow
<1>1. CASE IssueNonce(listed)
  <2>1. nonceSequence' >= nonceSequence /\ authNonces' \subseteq 1 .. nonceSequence'
    BY SMT, <1>1 DEF IssueNonce, TypeOK
  <2>2. \A n \in 1 .. nonceSequence : nonceExpires'[n] = nonceExpires[n]
    BY SMT, <1>1 DEF IssueNonce, TypeOK, Nonces
  <2> QED BY <2>1, <2>2 DEF NoncesGrow
<1>2. CASE authNonces' = listed /\ UNCHANGED <<nonceSequence, nonceExpires>>
  BY SMT, <1>2 DEF NoncesGrow, TypeOK
<1> QED BY <1>1, <1>2 DEF SendChallenge

\* ... and so does every step.
LEMMA NoncesStep ==
    ASSUME TypeOK, authNonces \subseteq 1 .. nonceSequence, [Next]_vars
    PROVE  NoncesGrow
<1> USE DEF timeVars, pendingVars, lookupVars, answerVars, nonceVars
<1>1. ASSUME authNonces' \subseteq authNonces, UNCHANGED <<nonceSequence, nonceExpires>>
      PROVE  NoncesGrow
  BY SMT, <1>1 DEF NoncesGrow, TypeOK
<1>2. CASE Tick \/ SetClockBack
  BY <1>1, <1>2 DEF Tick, SetClockBack
<1>3. ASSUME NEW r \in Requests, RefuseRegister(r) PROVE NoncesGrow
  BY <1>1, <1>3 DEF RefuseRegister
<1>4. ASSUME NEW r \in Requests, ChallengeRegister(r) PROVE NoncesGrow
  <2>1. \E listed \in SUBSET authNonces, sent \in BOOLEAN : SendChallenge(listed, sent)
    BY <1>4 DEF ChallengeRegister, NoncesWalked
  <2> QED BY <2>1, ChallengeGrows
<1>5. ASSUME NEW r \in Requests, QueueFails(r) \/ QueueLookup(r) PROVE NoncesGrow
  <2>1. \E auth : authNonces' = NoncesAfter(auth)
    BY <1>5 DEF QueueFails, QueueLookup
  <2> QED BY <1>1, <1>5, <2>1 DEF QueueFails, QueueLookup, NoncesAfter, NoncesWalked
<1>6. CASE \E command \in Commands : CompleteAuthLookup(command)
  BY <1>1, <1>6 DEF CompleteAuthLookup
<1>7. ASSUME NEW r \in Requests, CompletePendingAuth(r) PROVE NoncesGrow
  <2>1. CASE TerminatePending(r)
    BY <1>1, <2>1 DEF TerminatePending
  <2>2. ASSUME NEW sent \in BOOLEAN, AnswerPending(r, Head(authCommands), sent)
        PROVE  NoncesGrow
    <3>1. \/ SendChallenge(authNonces, sent)
          \/ UNCHANGED <<nonceSequence, authNonces, nonceExpires>>
      BY <2>2 DEF AnswerPending
    <3> QED BY <1>1, <3>1, ChallengeGrows
  <2> QED BY <1>7, <2>1, <2>2 DEF CompletePendingAuth
<1>8. ASSUME NEW r \in Requests, TimeoutPending(r) PROVE NoncesGrow
  BY <1>1, <1>8 DEF TimeoutPending
<1>9. CASE StartTimeouts
  BY <1>1, <1>9 DEF StartTimeouts
<1>10. CASE BeginPoll \/ EndReceive \/ EndPoll \/ FinishAuthCommand
  BY <1>1, <1>10 DEF BeginPoll, EndReceive, EndPoll, GoTo, FinishAuthCommand
<1>11. CASE UNCHANGED vars
  BY <1>1, <1>11 DEF vars
<1> QED BY <1>2, <1>3, <1>4, <1>5, <1>6, <1>7, <1>8, <1>9, <1>10, <1>11
        DEF Next, Receive, Poll

\* The wall clock never reads 0, which stands for "not verified".
LEMMA ClockStep ==
    ASSUME TypeOK, now >= 1, [Next]_vars
    PROVE  now' >= 1
<1> USE DEF timeVars
<1>1. CASE Tick \/ SetClockBack
  BY SMT, <1>1 DEF Tick, SetClockBack, TypeOK
<1>2. CASE Receive
  BY <1>2 DEF Receive, RefuseRegister, ChallengeRegister, QueueFails, QueueLookup
<1>3. CASE \E command \in Commands : CompleteAuthLookup(command)
  BY <1>3 DEF CompleteAuthLookup
<1>4. CASE Poll
  BY <1>4 DEF Poll, BeginPoll, EndReceive, EndPoll, GoTo, StartTimeouts, FinishAuthCommand,
              CompletePendingAuth, TimeoutPending
<1>5. CASE UNCHANGED vars
  BY <1>5 DEF vars
<1> QED BY <1>1, <1>2, <1>3, <1>4, <1>5 DEF Next

\* What was counted before the step is still counted, and still with an
\* unexpired nonce, after it.
LEMMA CountedStays ==
    ASSUME ListInv, DigestInv, [Next]_vars, NEW r \in Requests, verifiedAt[r] # 0
    PROVE  /\ Counted(r)' /\ register'[r] = register[r]
           /\ nonceExpires'[register[r].auth.nonce] = nonceExpires[register[r].auth.nonce]
<1> DEFINE reg == register[r]
<1>1. TypeOK /\ PendingStored /\ NoncesGrow
  BY NoncesStep DEF ListInv, DigestInv
<1>2. Counted(r)
  BY DEF DigestInv
<1>3. outcome'[r] = outcome[r] /\ register'[r] = reg
  BY <1>2, FinalStays DEF Counted, Final
<1>4. /\ reg.auth.nonce \in 1 .. nonceSequence'
      /\ nonceExpires'[reg.auth.nonce] = nonceExpires[reg.auth.nonce]
  <2>1. nonceSequence' \in Nat /\ nonceSequence \in Nat
    BY SMTT(30), <1>1, TypeStep, ConstantsAssumption DEF TypeOK
  <2> QED BY SMT, <1>1, <1>2, <2>1 DEF Counted, NoncesGrow
<1>5. LET u == usage'[UsageKey(reg)]
      IN  IF reg.auth.nc = 0 THEN u.withoutQop ELSE reg.auth.nc <= u.lastNc
  <2>1. CASE UNCHANGED usage
    BY <1>2, <2>1 DEF Counted, Recorded
  <2>2. ASSUME NEW s \in pendingAuth, ChecksDigest(register[s], Head(authCommands)),
               usage' = UsageAfter(register[s])
        PROVE  <1>5!:
    <3>1. register[s] \in Registers /\ register[s].auth.digest
      BY <1>1, <2>2 DEF PendingStored, ChecksDigest
    <3>2. reg \in Registers /\ reg.auth.digest /\ Recorded(reg)
      BY <1>2 DEF Counted
    <3> HIDE DEF reg
    <3> QED BY <1>1, <2>2, <3>1, <3>2, RecordedStays
  <2>3. ASSUME NEW s \in pendingAuth, NEW sent \in BOOLEAN,
               AnswerPending(s, Head(authCommands), sent)
        PROVE  UNCHANGED usage \/ (/\ ChecksDigest(register[s], Head(authCommands))
                                   /\ usage' = UsageAfter(register[s]))
    BY <2>3 DEF AnswerPending
  <2> QED BY <2>1, <2>2, <2>3, AnswerSteps
<1> QED BY <1>2, <1>3, <1>4, <1>5 DEF Counted, Recorded

\* What is known of a REGISTER whose Digest the step counts.
LEMMA CountedNow ==
    ASSUME ListInv, DigestInv, [Next]_vars, NEW r \in pendingAuth, NEW sent \in BOOLEAN,
           AnswerPending(r, Head(authCommands), sent),
           ChecksDigest(register[r], Head(authCommands)), UsageCommits(register[r]),
           register' = register
    PROVE  /\ Counted(r)' /\ now < nonceExpires'[register[r].auth.nonce]
           /\ ~Recorded(register[r])
<1> DEFINE reg == register[r]
           k == UsageKey(reg)
<1>1. TypeOK /\ PendingStored /\ NoncesGrow /\ r \in Requests
  BY NoncesStep DEF ListInv, DigestInv, TypeOK
<1>2. reg \in Registers /\ reg.auth.digest
  BY <1>1 DEF PendingStored, ChecksDigest
<1> HIDE DEF reg
<1>3. k \in UsageKeys /\ reg.auth.nonce \in Nonces /\ reg.auth.nc \in Nat
  BY <1>2, KeyType
<1>4. NonceLive(reg.auth.nonce) /\ UsageEntry(reg) /\ UsageFresh(reg)
  BY DEF UsageCommits, UsageEntry, reg
<1>5. usage[k].lastNc \in Nat /\ usage[k].withoutQop \in BOOLEAN
  BY <1>1, <1>3 DEF TypeOK
<1>6. ~Recorded(reg)
  BY SMT, <1>3, <1>4, <1>5 DEF UsageFresh, Recorded
<1>7. /\ reg.auth.nonce \in 1 .. nonceSequence'
      /\ now < nonceExpires'[reg.auth.nonce]
  <2>1. nonceSequence' \in Nat /\ nonceSequence \in Nat /\ now \in Nat
    BY SMT, <1>1, TypeStep, ConstantsAssumption DEF TypeOK
  <2>2. reg.auth.nonce \in 1 .. nonceSequence
    BY <1>4 DEF NonceLive, DigestInv
  <2>3. nonceExpires[reg.auth.nonce] \in Nat /\ now < nonceExpires[reg.auth.nonce]
    BY SMT, <1>1, <1>3, <1>4, <2>1 DEF NonceLive, Expired, TypeOK
  <2> QED BY SMTT(30), <1>1, <2>1, <2>2, <2>3 DEF NoncesGrow
<1>8. usage' = UsageAfter(reg)
  BY DEF AnswerPending, reg
<1>9. /\ usage'[k].lastNc >= reg.auth.nc
      /\ reg.auth.nc = 0 => usage'[k].withoutQop
  BY <1>1, <1>2, <1>3, <1>4, <1>8, UsageAfterEntry
<1>10. usage'[k].lastNc \in Nat
  BY <1>1, <1>2, <1>3, <1>8, UsageAfterType
<1>11. IF reg.auth.nc = 0 THEN usage'[k].withoutQop ELSE reg.auth.nc <= usage'[k].lastNc
  BY <1>3, <1>9, <1>10
<1>12. outcome'[r] \in Final
  <2> DEFINE code == Verdict(register[r], Head(authCommands))
  <2>1. code \in {"200", "401", "403", "500"}
    BY VerdictType
  <2>2. outcome' = [outcome EXCEPT ![r] = IF sent THEN code ELSE "unsent"]
    BY DEF AnswerPending, RespondNow
  <2> HIDE DEF code
  <2> QED BY <1>1, <2>1, <2>2 DEF Final, Outcomes, TypeOK
<1> QED BY <1>2, <1>6, <1>7, <1>11, <1>12 DEF Counted, Recorded, reg

\* Every step preserves what is known of the counted Digests.
LEMMA DigestInvStep ==
    ASSUME ListInv, DigestInv, [Next]_vars
    PROVE  DigestInv'
<1> DEFINE Key(r) == UsageKey(register[r])
<1>1. TypeOK /\ PendingStored /\ PendingAccounting /\ TypeOK'
  BY TypeStep DEF ListInv
<1>2. now' >= 1 /\ authNonces' \subseteq 1 .. nonceSequence'
  BY <1>1, ClockStep, NoncesStep DEF DigestInv, NoncesGrow
<1>3. \A r \in Requests : verifiedAt[r] # 0 =>
         /\ Counted(r)' /\ register'[r] = register[r]
         /\ nonceExpires'[register[r].auth.nonce] = nonceExpires[register[r].auth.nonce]
  BY CountedStays
<1>4. CASE UNCHANGED verifiedAt
  BY SMT, <1>2, <1>3, <1>4 DEF DigestInv, DigestUsedOnce, NonceLiveWhenCounted
<1>5. ASSUME NEW r \in pendingAuth, NEW sent \in BOOLEAN,
             AnswerPending(r, Head(authCommands), sent), register' = register
      PROVE  DigestInv'
  <2>1. CASE ~(/\ ChecksDigest(register[r], Head(authCommands))
               /\ UsageCommits(register[r]))
    BY <1>4, <1>5, <2>1 DEF AnswerPending
  <2>2. CASE /\ ChecksDigest(register[r], Head(authCommands))
             /\ UsageCommits(register[r])
    <3>1. r \in Requests /\ verifiedAt' = [verifiedAt EXCEPT ![r] = now]
      BY <1>1, <1>5, <2>2 DEF AnswerPending, TypeOK
    <3>2. /\ Counted(r)' /\ now < nonceExpires'[register[r].auth.nonce]
          /\ ~Recorded(register[r])
      BY <1>5, <2>2, CountedNow
    <3>3. /\ verifiedAt'[r] = now
          /\ \A s \in Requests : s # r => verifiedAt'[s] = verifiedAt[s]
      BY <1>1, <3>1 DEF TypeOK
    <3>4. \A s \in Requests : verifiedAt'[s] # 0 => Counted(s)'
      BY <1>3, <3>2, <3>3
    <3>5. NonceLiveWhenCounted'
      <4>1. \A s \in Requests : verifiedAt[s] # 0 =>
              verifiedAt[s] < nonceExpires[register[s].auth.nonce]
        BY DEF DigestInv, NonceLiveWhenCounted
      <4> QED BY <1>3, <1>5, <3>2, <3>3, <4>1 DEF NonceLiveWhenCounted
    <3>6. ASSUME NEW s \in Requests, verifiedAt[s] # 0, Key(s) = Key(r)
          PROVE  register[s].auth.nc # register[r].auth.nc
      <4>1. Recorded(register[s])
        BY <3>6 DEF DigestInv, Counted
      <4> QED BY <3>2, <3>6, <4>1 DEF Recorded
    <3>7. DigestUsedOnce'
      <4>1. ASSUME NEW a \in Requests, NEW b \in Requests, a # b,
                   verifiedAt'[a] # 0, verifiedAt'[b] # 0, Key(a) = Key(b)
            PROVE  register[a].auth.nc # register[b].auth.nc
        <5>1. CASE a = r
          BY <3>3, <3>6, <4>1, <5>1
        <5>2. CASE b = r
          BY <3>3, <3>6, <4>1, <5>2
        <5>3. CASE a # r /\ b # r
          <6>1. verifiedAt[a] # 0 /\ verifiedAt[b] # 0
            BY <3>3, <4>1, <5>3
          <6> QED BY <4>1, <6>1 DEF DigestInv, DigestUsedOnce
        <5> QED BY <5>1, <5>2, <5>3
      <4> QED BY <1>5, <4>1 DEF DigestUsedOnce, UsageKey
    <3> QED BY <1>2, <3>4, <3>5, <3>7 DEF DigestInv
  <2> QED BY <2>1, <2>2
<1>6. UNCHANGED verifiedAt \/ register' = register
  <2>1. CASE Elsewhere
    BY <2>1 DEF Elsewhere
  <2>2. CASE \E r \in Requests : RefuseRegister(r) \/ ChallengeRegister(r) \/ QueueFails(r)
    BY <1>1, <2>2, AnsweredAtOnce
  <2>3. CASE \E r \in Requests : QueueLookup(r)
    BY <2>3 DEF QueueLookup
  <2>4. CASE \E r \in Requests : CompletePendingAuth(r) \/ TimeoutPending(r)
    BY <1>1, <2>4, SettledFromList
  <2> QED BY <2>1, <2>2, <2>3, <2>4, Steps
<1> QED BY <1>4, <1>5, <1>6, AnswerSteps

\* Every counted Digest is recorded, and stays so.
THEOREM DigestCorrect == Spec => []DigestInv
<1>1. Init => DigestInv
  BY SMT DEF Init, DigestInv, DigestUsedOnce, NonceLiveWhenCounted
<1>2. ListInv /\ DigestInv /\ [Next]_vars => DigestInv'
  BY DigestInvStep
<1> QED BY <1>1, <1>2, ListCorrect, PTL DEF Spec

\* No Digest is counted twice, whatever is replayed and in whatever order the
\* lookups are answered.
THEOREM DigestUsedOnceCorrect == Spec => []DigestUsedOnce
<1>1. DigestInv => DigestUsedOnce
  BY DEF DigestInv
<1> QED BY <1>1, DigestCorrect, PTL

\* The nonce of a counted Digest had not expired when it was counted.
THEOREM NonceLiveWhenCountedCorrect == Spec => []NonceLiveWhenCounted
<1>1. DigestInv => NonceLiveWhenCounted
  BY DEF DigestInv
<1> QED BY <1>1, DigestCorrect, PTL

-----------------------------------------------------------------------------
(* The usages of a nonce are bounded.                                       *)

\* Every step keeps the entries of a nonce within MaxUsages.
LEMMA UsagesInvStep ==
    ASSUME ListInv, UsagesInv, [Next]_vars
    PROVE  UsagesInv'
<1>1. TypeOK /\ PendingStored
  BY DEF ListInv
<1>2. CASE UNCHANGED usage
  BY <1>2 DEF UsagesInv, SeenKeys
<1>3. ASSUME NEW reg \in Registers, reg.auth.digest, usage' = UsageAfter(reg), UsageEntry(reg),
             NEW n \in Nonces
      PROVE  /\ IsFiniteSet(SeenKeys(n)')
             /\ Cardinality(SeenKeys(n)') <= MaxUsages
  <2> DEFINE k == UsageKey(reg)
  <2>1. k \in UsageKeys /\ k[1] = reg.auth.nonce
    BY <1>3, KeyType
  <2>2. usage'[k].seen /\ \A m \in UsageKeys : m # k => usage'[m] = usage[m]
    BY <1>1, <1>3, <2>1, UsageAfterEntry
  <2>3. IsFiniteSet(SeenKeys(n)) /\ Cardinality(SeenKeys(n)) <= MaxUsages
    BY DEF UsagesInv
  <2> HIDE DEF k
  <2>4. CASE k[1] # n \/ usage[k].seen
    <3>1. SeenKeys(n)' = SeenKeys(n)
      BY <2>1, <2>2, <2>4 DEF SeenKeys
    <3> QED BY <2>3, <3>1
  <2>5. CASE k[1] = n /\ ~usage[k].seen
    <3>1. SeenKeys(n)' = SeenKeys(n) \cup {k} /\ k \notin SeenKeys(n)
      BY <2>1, <2>2, <2>5 DEF SeenKeys
    <3>2. Cardinality(SeenKeys(n)) < MaxUsages
      BY <1>3, <2>1, <2>5 DEF UsageEntry, UsageCount, SeenKeys, k
    <3>3. /\ IsFiniteSet(SeenKeys(n)')
          /\ Cardinality(SeenKeys(n)') = Cardinality(SeenKeys(n)) + 1
      BY <2>3, <3>1, FS_AddElement
    <3>4. Cardinality(SeenKeys(n)) \in Nat
      BY <2>3, FS_CardinalityType
    <3> QED BY SMT, <3>2, <3>3, <3>4, ConstantsAssumption
  <2> QED BY <2>4, <2>5
<1>4. ASSUME NEW r \in pendingAuth, NEW sent \in BOOLEAN,
             AnswerPending(r, Head(authCommands), sent)
      PROVE  UsagesInv'
  <2>1. CASE /\ ChecksDigest(register[r], Head(authCommands))
             /\ UsageEntry(register[r])
    <3>1. register[r] \in Registers /\ register[r].auth.digest
      BY <1>1, <2>1 DEF PendingStored, ChecksDigest
    <3>2. usage' = UsageAfter(register[r])
      BY <1>4, <2>1, AnswerRecords
    <3> QED BY <1>3, <2>1, <3>1, <3>2 DEF UsagesInv
  <2>2. CASE ~(/\ ChecksDigest(register[r], Head(authCommands))
               /\ UsageEntry(register[r]))
    BY <1>2, <1>4, <2>2 DEF AnswerPending, UsageAfter
  <2> QED BY <2>1, <2>2
<1> QED BY <1>2, <1>4, AnswerSteps

\* A nonce keeps at most MaxUsages entries.
THEOREM UsagesBoundedCorrect == Spec => []UsagesBounded
<1>1. Init => UsagesInv
  <2> SUFFICES ASSUME Init, NEW n \in Nonces
               PROVE  IsFiniteSet(SeenKeys(n)) /\ Cardinality(SeenKeys(n)) <= MaxUsages
    BY DEF UsagesInv
  <2>1. SeenKeys(n) = {}
    BY DEF Init, SeenKeys, NoUsage
  <2> QED BY SMT, <2>1, FS_EmptySet, ConstantsAssumption
<1>2. ListInv /\ UsagesInv /\ [Next]_vars => UsagesInv'
  BY UsagesInvStep
<1>3. UsagesInv => UsagesBounded
  BY DEF UsagesInv, UsagesBounded, UsageCount, SeenKeys
<1> QED BY <1>1, <1>2, <1>3, ListCorrect, PTL DEF Spec

-----------------------------------------------------------------------------
(* Why a REGISTER was accepted.                                             *)

\* An answer the application gave stays given.
LEMMA AnsweredGrows ==
    ASSUME [Next]_vars
    PROVE  answered \subseteq answered'
<1> USE DEF answerVars
<1>1. CASE Tick \/ SetClockBack
  BY <1>1 DEF Tick, SetClockBack
<1>2. CASE Receive
  BY <1>2 DEF Receive, RefuseRegister, ChallengeRegister, QueueFails, QueueLookup
<1>3. CASE \E command \in Commands : CompleteAuthLookup(command)
  BY <1>3 DEF CompleteAuthLookup
<1>4. CASE Poll
  BY <1>4 DEF Poll, BeginPoll, EndReceive, EndPoll, GoTo, StartTimeouts, FinishAuthCommand,
              CompletePendingAuth, TimeoutPending
<1>5. CASE UNCHANGED vars
  BY <1>5 DEF vars
<1> QED BY <1>1, <1>2, <1>3, <1>4, <1>5 DEF Next

\* The only step that gives a REGISTER 200 is its own answer.
LEMMA AcceptedByAnswer ==
    ASSUME ListInv, [Next]_vars, NEW r \in Requests, outcome[r] # "200", outcome'[r] = "200"
    PROVE  \E sent \in BOOLEAN :
              /\ AnswerPending(r, Head(authCommands), sent)
              /\ Verdict(register[r], Head(authCommands)) = "200"
              /\ lookupId[r] = Head(authCommands).lookup
              /\ authCommands # <<>> /\ UNCHANGED <<lookupId, register>>
<1>1. TypeOK
  BY DEF ListInv
<1>2. ~Elsewhere
  BY DEF Elsewhere
<1>3. ASSUME NEW s \in Requests, RefuseRegister(s) \/ ChallengeRegister(s) \/ QueueFails(s)
      PROVE  FALSE
  <2>1. \E x \in Final \ {"200"} : outcome' = [outcome EXCEPT ![s] = x]
    BY <1>1, <1>3, AnsweredAtOnce
  <2> QED BY <1>1, <2>1 DEF TypeOK
<1>4. ASSUME NEW s \in Requests, QueueLookup(s)
      PROVE  FALSE
  <2>1. outcome' = [outcome EXCEPT ![s] = "queued"]
    BY <1>4 DEF QueueLookup
  <2> QED BY <1>1, <2>1 DEF TypeOK
<1>5. ASSUME NEW s \in Requests, TimeoutPending(s)
      PROVE  FALSE
  BY <1>1, <1>5 DEF TimeoutPending, TypeOK
<1>6. PICK s \in Requests : CompletePendingAuth(s)
  BY <1>2, <1>3, <1>4, <1>5, Steps
<1>7. PICK sent \in BOOLEAN : AnswerPending(s, Head(authCommands), sent)
  <2>1. ~TerminatePending(s)
    BY <1>1 DEF TerminatePending, TypeOK
  <2> QED BY <1>6, <2>1 DEF CompletePendingAuth
<1> DEFINE code == Verdict(register[s], Head(authCommands))
<1>8. outcome' = [outcome EXCEPT ![s] = IF sent THEN code ELSE "unsent"]
  BY <1>7 DEF AnswerPending, RespondNow
<1>9. s = r /\ code = "200"
  <2> HIDE DEF code
  <2> QED BY <1>1, <1>8 DEF TypeOK
<1>10. /\ lookupId[s] = Head(authCommands).lookup
       /\ authCommands # <<>> /\ UNCHANGED <<lookupId, register>>
  BY <1>6 DEF CompletePendingAuth, Unlink, Matching
<1> QED BY <1>7, <1>9, <1>10

\* A time of verification is never erased.
LEMMA VerifiedStays ==
    ASSUME ListInv, DigestInv, [Next]_vars, NEW r \in Requests, verifiedAt[r] # 0
    PROVE  verifiedAt'[r] # 0
<1>1. TypeOK /\ now # 0
  BY SMTT(30) DEF ListInv, DigestInv, TypeOK
<1>2. ASSUME NEW s \in pendingAuth, NEW sent \in BOOLEAN,
             AnswerPending(s, Head(authCommands), sent)
      PROVE  verifiedAt'[r] # 0
  BY <1>1, <1>2 DEF AnswerPending, TypeOK
<1> QED BY <1>2, AnswerSteps

\* Every step preserves that what is accepted has a reason.
LEMMA AcceptedStep ==
    ASSUME ListInv, AnswerInv, DigestInv, AcceptedWithReason, [Next]_vars
    PROVE  AcceptedWithReason'
<1> DEFINE Reason(r, c) ==
        /\ c.lookup = lookupId[r]
        /\ \/ c.result = "bypass"
           \/ /\ c.result = "credential" /\ c.user = register[r].dev
              /\ register[r].auth.good /\ verifiedAt[r] # 0
<1> SUFFICES ASSUME NEW r \in Requests, outcome'[r] = "200"
             PROVE  \E c \in answered' : Reason(r, c)'
  BY DEF AcceptedWithReason
<1>1. answered \subseteq answered'
  BY AnsweredGrows
<1>2. CASE outcome[r] = "200"
  <2>1. PICK c \in answered : Reason(r, c)
    BY <1>2 DEF AcceptedWithReason
  <2>2. register'[r] = register[r] /\ lookupId'[r] = lookupId[r]
    BY <1>2, FinalStays
  <2>3. verifiedAt[r] # 0 => verifiedAt'[r] # 0
    BY VerifiedStays
  <2>4. Reason(r, c)'
    BY <2>1, <2>2, <2>3
  <2> QED BY <1>1, <2>1, <2>4
<1>3. CASE outcome[r] # "200"
  <2> DEFINE c == Head(authCommands)
  <2>1. PICK sent \in BOOLEAN :
          /\ AnswerPending(r, c, sent) /\ Verdict(register[r], c) = "200"
          /\ lookupId[r] = c.lookup
          /\ authCommands # <<>> /\ UNCHANGED <<lookupId, register>>
    BY <1>3, AcceptedByAnswer
  <2>2. c \in answered
    <3>1. 1 \in DOMAIN authCommands /\ c = authCommands[1]
      BY <2>1, HeadIsFirst DEF ListInv
    <3> QED BY <3>1 DEF AnswerInv
  <2>3. Admits(register[r], c)
    BY <2>1, AcceptedInOrder
  <2> HIDE DEF c
  <2>4. CASE c.result = "bypass"
    BY <1>1, <2>1, <2>2, <2>4
  <2>5. CASE ChecksDigest(register[r], c) /\ UsageCommits(register[r])
    <3>1. verifiedAt' = [verifiedAt EXCEPT ![r] = now]
      BY <2>1, <2>5, AnswerRecords
    <3>2. verifiedAt'[r] # 0
      BY SMT, <3>1 DEF ListInv, TypeOK, DigestInv
    <3>3. c.result = "credential" /\ c.user = register[r].dev /\ register[r].auth.good
      BY <2>5 DEF ChecksDigest, Verifies
    <3>4. /\ c \in answered' /\ c.lookup = lookupId'[r]
          /\ c.result = "credential" /\ c.user = register'[r].dev
          /\ register'[r].auth.good /\ verifiedAt'[r] # 0
      BY <1>1, <2>1, <2>2, <3>2, <3>3
    <3> QED BY <3>4
  <2> QED BY <2>3, <2>4, <2>5 DEF Admits
<1> QED BY <1>2, <1>3

\* A REGISTER is accepted only on an answer to its own lookup: a bypass, or
\* credentials of its device with which its own Digest was verified.
THEOREM AcceptedWithReasonCorrect == Spec => []AcceptedWithReason
<1>1. Init => AcceptedWithReason
  BY DEF Init, AcceptedWithReason
<1>2. ListInv /\ AnswerInv /\ DigestInv /\ AcceptedWithReason /\ [Next]_vars
        => AcceptedWithReason'
  BY AcceptedStep
<1> QED BY <1>1, <1>2, ListCorrect, AnswerCorrect, DigestCorrect, PTL DEF Spec

-----------------------------------------------------------------------------
(* What a poll leaves parked.                                                *)

\* As long as the wall clock was not set back, a parked REGISTER is due within the lookup
\* timeout, and within that of the sweep that is going on.
DueInv ==
    setBacks = 0 =>
        \A r \in pendingAuth :
            /\ deadline[r] <= now + AuthLookupTimeout
            /\ phase = "timeouts" => deadline[r] <= sweepNow + AuthLookupTimeout

\* When a poll ends, a REGISTER that is still parked has no answer of the application and
\* was not due when the sweep began; unless the clock was set back, it is due before the
\* lookup timeout is over once more.
PollLeaves ==
    phase = "timeouts" /\ phase' # "timeouts" =>
        \A r \in pendingAuth' :
            /\ ~Answered(r) /\ sweepNow < deadline[r]
            /\ setBacks = 0 => deadline[r] <= sweepNow + AuthLookupTimeout

\* Every step keeps what is known of the deadlines.
LEMMA DueStep ==
    ASSUME ListInv, DueInv, [Next]_vars
    PROVE  DueInv'
<1>1. TypeOK
  BY DEF ListInv
<1>2. /\ now \in Nat /\ sweepNow \in Nat /\ setBacks \in Nat /\ AuthLookupTimeout \in Nat
      /\ pendingAuth \subseteq Requests /\ deadline \in [Requests -> Nat]
  BY <1>1, ConstantsAssumption DEF TypeOK
<1> USE DEF timeVars, pendingVars
<1>3. ASSUME UNCHANGED <<pendingAuth, deadline, now, setBacks>>,
             phase' = "timeouts" => sweepNow' = now \/ (phase = "timeouts" /\ UNCHANGED sweepNow)
      PROVE  DueInv'
  BY SMT, <1>2, <1>3 DEF DueInv
<1>4. CASE Tick
  BY SMT, <1>2, <1>4 DEF Tick, DueInv
<1>5. CASE SetClockBack
  BY SMT, <1>2, <1>5 DEF SetClockBack, DueInv
<1>6. ASSUME NEW r \in Requests, RefuseRegister(r) \/ ChallengeRegister(r) \/ QueueFails(r)
      PROVE  DueInv'
  BY <1>3, <1>6 DEF RefuseRegister, ChallengeRegister, QueueFails
<1>7. ASSUME NEW r \in Requests, QueueLookup(r)
      PROVE  DueInv'
  <2>1. /\ phase = "receive" /\ pendingAuth' = pendingAuth \cup {r}
        /\ deadline' = [deadline EXCEPT ![r] = now + AuthLookupTimeout]
        /\ UNCHANGED <<phase, now, setBacks>>
    BY <1>7 DEF QueueLookup, Arrive
  <2> QED
    BY SMT, <1>2, <2>1 DEF DueInv
<1>8. ASSUME NEW r \in Requests, CompletePendingAuth(r) \/ TimeoutPending(r)
      PROVE  DueInv'
  <2>1. /\ pendingAuth' = pendingAuth \ {r} /\ deadline' = [deadline EXCEPT ![r] = 0]
        /\ UNCHANGED <<phase, now, setBacks, sweepNow>>
    BY <1>8 DEF CompletePendingAuth, TimeoutPending, Unlink
  <2> QED
    BY SMT, <1>2, <2>1 DEF DueInv
<1>9. ASSUME NEW command \in Commands, CompleteAuthLookup(command)
      PROVE  DueInv'
  BY <1>3, <1>9 DEF CompleteAuthLookup
<1>10. CASE BeginPoll \/ EndReceive \/ StartTimeouts \/ EndPoll \/ FinishAuthCommand
  BY <1>3, <1>10 DEF BeginPoll, EndReceive, StartTimeouts, EndPoll, FinishAuthCommand, GoTo
<1>11. CASE UNCHANGED vars
  BY <1>3, <1>11 DEF vars
<1> QED
  BY <1>4, <1>5, <1>6, <1>7, <1>8, <1>9, <1>10, <1>11 DEF Next, Receive, Poll

\* Only the end of a poll leaves the sweep, with the list as the sweep left it.
LEMMA SweepEnds ==
    ASSUME [Next]_vars, phase = "timeouts", phase' # "timeouts"
    PROVE  Overdue = {} /\ UNCHANGED pendingAuth
BY DEF Next, Receive, Poll, Tick, SetClockBack, RefuseRegister, ChallengeRegister, QueueFails,
       QueueLookup, CompleteAuthLookup, BeginPoll, EndReceive, StartTimeouts, EndPoll,
       FinishAuthCommand, CompletePendingAuth, TimeoutPending, GoTo, vars, pendingVars

\* A poll settles every REGISTER it can (gmv_process_auth_commands before
\* gmv_process_auth_timeouts): what it leaves parked nobody answered and is not due yet,
\* but within the lookup timeout, for any limits and any number of REGISTERs.
THEOREM PollLeavesCorrect == Spec => [][PollLeaves]_vars
<1>1. Init => DueInv
  BY DEF Init, DueInv
<1>2. ListInv /\ DueInv /\ [Next]_vars => DueInv'
  BY DueStep
<1>3. ListInv /\ AnswerInv /\ DueInv /\ [Next]_vars => [PollLeaves]_vars
  <2> SUFFICES ASSUME ListInv, AnswerInv, DueInv, [Next]_vars, phase = "timeouts",
                      phase' # "timeouts", NEW r \in pendingAuth'
               PROVE  /\ ~Answered(r) /\ sweepNow < deadline[r]
                      /\ setBacks = 0 => deadline[r] <= sweepNow + AuthLookupTimeout
    BY DEF PollLeaves
  <2>1. r \in pendingAuth /\ Overdue = {}
    BY SweepEnds
  <2>2. sweepNow \in Nat /\ deadline[r] \in Nat
    BY <2>1 DEF ListInv, TypeOK
  <2>3. ~(deadline[r] <= sweepNow)
    BY <2>1 DEF Overdue
  <2>4. sweepNow < deadline[r]
    BY SMT, <2>2, <2>3
  <2> QED
    BY <2>1, <2>4 DEF AnswerInv, DueInv
<1> QED
  BY <1>1, <1>2, <1>3, ListCorrect, AnswerCorrect, PTL DEF Spec

=============================================================================
