---------------------------- MODULE DialogProofs ----------------------------
(***************************************************************************)
(* The calls of the application, the threads that generate identities and  *)
(* the commands that a poll runs keep the invariant of the dialogs.        *)
(***************************************************************************)
EXTENDS DialogInvariant, TLAPS

\* A leaf that does not name its prover is first-order reasoning, for Zenon.
USE ZenonT(20)

-----------------------------------------------------------------------------
(* Sequences, the start, and the steps that change nothing of a dialog.      *)

\* What Append and Tail do, in the form the steps below use.
LEMMA AppendFacts ==
    ASSUME NEW S, NEW s \in Seq(S), NEW e \in S
    PROVE  /\ Append(s, e) \in Seq(S) /\ Len(Append(s, e)) = Len(s) + 1 /\ Len(s) \in Nat
           /\ \A i \in 1 .. Len(s) : Append(s, e)[i] = s[i] /\ s[i] \in S
           /\ Append(s, e)[Len(s) + 1] = e
BY SMT

\* ... and Tail
LEMMA TailFacts ==
    ASSUME NEW S, NEW s \in Seq(S), s # <<>>
    PROVE  /\ Tail(s) \in Seq(S) /\ Len(Tail(s)) = Len(s) - 1 /\ Len(s) \in Nat \ {0}
           /\ \A i \in 1 .. Len(s) - 1 : Tail(s)[i] = s[i + 1]
           /\ Head(s) = s[1] /\ Head(s) \in S
BY SMT

\* The fields of what is in the queues and the channel
LEMMA ElementFacts ==
    ASSUME OwnerTypeOK, KindsInv
    PROVE  /\ \A k \in Kinds : \A i \in 1 .. Len(queues[k]) :
                 queues[k][i] \in CommandType /\ queues[k][i].cseq \in Int
           /\ \A i \in 1 .. Len(queues["dialog"]) : queues["dialog"][i].dialog \in Dialogs
           /\ \A i \in 1 .. Len(events) :
                 events[i] \in EventType /\ events[i].dialog \in Dialogs /\ events[i].cseq \in Int
<1>1. ASSUME NEW k \in Kinds, NEW i \in 1 .. Len(queues[k])
      PROVE  queues[k][i] \in CommandType /\ queues[k][i].cseq \in Int
  <2>1. queues[k] \in Seq(CommandType)
    BY DEF OwnerTypeOK
  <2>2. queues[k][i] \in CommandType
    BY SMT, <1>1, <2>1
  <2> QED
    BY <2>2 DEF CommandType
<1>2. ASSUME NEW i \in 1 .. Len(events)
      PROVE  events[i] \in EventType /\ events[i].dialog \in Dialogs /\ events[i].cseq \in Int
  <2>1. events[i] \in EventType
    BY SMT, <1>2 DEF OwnerTypeOK
  <2> QED
    BY <2>1 DEF EventType
<1> QED
  BY <1>1, <1>2 DEF KindsInv

\* The invariant holds at the start.
LEMMA DialogInit == OwnerInit => DialogInv
<1> SUFFICES ASSUME OwnerInit PROVE DialogInv
  OBVIOUS
<1> USE OwnerAssumption, AllocatorAssumption DEF OwnerInit, AllocatorInit, Idle
<1>1. OwnerTypeOK
  BY SMT DEF OwnerTypeOK, Kinds
<1>2. KindsInv
  BY SMT DEF KindsInv, Kinds
<1>3. IdentityInv
  BY DEF IdentityInv, NoDialog
<1>4. FreshInv /\ InviteInv /\ RequestInv
  BY SMT DEF FreshInv, InviteInv, RequestInv, Kinds
<1>5. SavedInv /\ DialogCSeqRises
  BY SMT DEF SavedInv, DialogCSeqRises, Below, Under
<1> QED
  BY <1>1, <1>2, <1>3, <1>4, <1>5 DEF DialogInv

\* Most steps change nothing of a dialog.
LEMMA QuietKeeps ==
    ASSUME DialogInv, OwnerTypeOK', KindsInv', IdentityInv',
           queues'["invite"] = queues["invite"], queues'["dialog"] = queues["dialog"],
           \A d \in Dialogs : identity'[d] # Used => identity[d] # Used,
           UNCHANGED <<dialogVars, saved, lost, events>>
    PROVE  DialogInv'
<1>2. FreshInv'
  BY SMT DEF DialogInv, FreshInv, dialogVars
<1>3. InviteInv'
  BY SMT DEF DialogInv, InviteInv, dialogVars
<1>4. RequestInv'
  BY DEF DialogInv, RequestInv, Below, dialogVars
<1>5. SavedInv'
  BY DEF DialogInv, SavedInv, Below, dialogVars
<1>6. DialogCSeqRises'
  BY DEF DialogInv, DialogCSeqRises, CSeqInRange, dialogVars
<1> QED
  BY <1>2, <1>3, <1>4, <1>5, <1>6 DEF DialogInv

-----------------------------------------------------------------------------
(* The calls.                                                                *)

TheCommand(r, cseq) ==
    [kind |-> r.kind, dialog |-> r.dialog, method |-> r.method,
     association |-> r.association, cseq |-> cseq, number |-> calls + 1]

\* A call that is accepted puts one command at the end of its queue.
LEMMA SubmitFacts ==
    ASSUME OwnerTypeOK, NEW r \in Requests, NEW cseq \in Int, Submit(r, cseq)
    PROVE  /\ TheCommand(r, cseq) \in CommandType
           /\ QueueOf(r.kind) \in Kinds
           /\ queues' \in [Kinds -> Seq(CommandType)] /\ calls' \in Int
           /\ \A k \in Kinds \ {QueueOf(r.kind)} : queues'[k] = queues[k]
           /\ queues'[QueueOf(r.kind)] =
                 IF ShimAccepts(r) THEN Append(queues[QueueOf(r.kind)], TheCommand(r, cseq))
                                   ELSE queues[QueueOf(r.kind)]
<1>1. TheCommand(r, cseq) \in CommandType /\ QueueOf(r.kind) \in Kinds
  BY SMT, RequestsAssumption DEF TheCommand, CommandType, AllKinds, Kinds, NoDialog, QueueOf,
                            OwnerTypeOK
<1>2. CASE ShimAccepts(r)
  <2>1. queues' = [queues EXCEPT ![QueueOf(r.kind)] = Append(@, TheCommand(r, cseq))]
        /\ calls' = calls + 1
    BY <1>2 DEF Submit, TheCommand
  <2>2. Append(queues[QueueOf(r.kind)], TheCommand(r, cseq)) \in Seq(CommandType)
    BY SMT, <1>1 DEF OwnerTypeOK
  <2> QED
    BY SMT, <1>1, <1>2, <2>1, <2>2 DEF OwnerTypeOK
<1>3. CASE ~ShimAccepts(r)
  BY <1>1, <1>3 DEF Submit, queueVars, OwnerTypeOK
<1> QED
  BY <1>2, <1>3

\* A command of no dialog goes to the queue of its kind.
LEMMA PlainSubmit ==
    ASSUME OwnerTypeOK, KindsInv, NEW r \in Requests, NEW cseq \in Int,
           r.kind \in {"message", "response", "subscribe"}, Submit(r, cseq)
    PROVE  /\ \A k \in {"invite", "dialog"} : queues'[k] = queues[k]
           /\ \A k \in {"message", "response", "subscribe"} :
                 \A i \in 1 .. Len(queues'[k]) : queues'[k][i].kind = k
<1>1. QueueOf(r.kind) = r.kind
  BY DEF QueueOf
<1>2. \A k \in Kinds \ {r.kind} : queues'[k] = queues[k]
  BY <1>1, SubmitFacts
<1>3. ASSUME NEW i \in 1 .. Len(queues'[r.kind])
      PROVE  queues'[r.kind][i].kind = r.kind
  <2>1. queues[r.kind] \in Seq(CommandType)
    BY DEF OwnerTypeOK, Kinds
  <2>2. TheCommand(r, cseq) \in CommandType /\ TheCommand(r, cseq).kind = r.kind
    BY SubmitFacts DEF TheCommand
  <2>3. \A j \in 1 .. Len(queues[r.kind]) : queues[r.kind][j].kind = r.kind
    BY DEF KindsInv
  <2>4. CASE ShimAccepts(r)
    <3>1. queues'[r.kind] = Append(queues[r.kind], TheCommand(r, cseq))
      BY <1>1, <2>4, SubmitFacts
    <3> QED
      BY SMT, <1>3, <2>1, <2>2, <2>3, <3>1, AppendFacts
  <2>5. CASE ~ShimAccepts(r)
    <3>1. queues'[r.kind] = queues[r.kind]
      BY SMT, <1>1, <2>5, SubmitFacts
    <3> QED
      BY <1>3, <2>3, <3>1
  <2> QED
    BY <2>4, <2>5
<1> QED
  BY SMT, <1>2, <1>3 DEF KindsInv, Kinds

\* Load leaves the counter alone and gives one caller a value.
LEMMA LoadFacts ==
    ASSUME OwnerTypeOK, NEW t \in Callers, Load(t) \/ ExchangeFails(t)
    PROVE  /\ UNCHANGED <<sequence, granted>> /\ current' \in [Callers -> Int]
           /\ \A u \in Callers \ {t} : current'[u] = current[u]
<1>1. Held \subseteq Int
  BY SMT DEF Held, OwnerTypeOK
<1> QED
  BY <1>1 DEF Load, ExchangeFails, OwnerTypeOK

\* The calls that belong to no dialog
LEMMA PlainCallsKeep ==
    ASSUME DialogInv, NEW r \in Requests,
           SendMessage(r) \/ RespondInvite(r) \/ SendSubscribe(r)
    PROVE  DialogInv'
<1> USE DEF appVars, dialogVars, queueVars, allocatorVars
<1>1. OwnerTypeOK /\ KindsInv /\ IdentityInv
  BY DEF DialogInv
<1>2. CASE Load(Owner) /\ UNCHANGED queueVars /\ calling' = r
           /\ r.kind \in {"message", "subscribe"}
           /\ UNCHANGED <<appVars, dialogVars, events>>
  <2>1. OwnerTypeOK'
    BY <1>1, <1>2, LoadFacts, OwnerAssumption DEF OwnerTypeOK
  <2>2. KindsInv'
    BY SMT, <1>1, <1>2 DEF KindsInv
  <2>3. IdentityInv'
    BY <1>1, <1>2, LoadFacts, OwnerAssumption DEF IdentityInv
  <2> QED
    BY <1>2, <2>1, <2>2, <2>3, QuietKeeps
<1>3. CASE Submit(r, 0) /\ UNCHANGED <<allocatorVars, calling>>
           /\ r.kind \in {"response", "subscribe"}
           /\ UNCHANGED <<appVars, dialogVars, events>>
  <2>1. OwnerTypeOK'
    BY SMT, <1>1, <1>3, SubmitFacts DEF OwnerTypeOK
  <2>3. \A k \in {"invite", "dialog"} : queues'[k] = queues[k]
    BY SMT, <1>1, <1>3, PlainSubmit
  <2>4. KindsInv'
    BY SMT, <1>1, <1>3, PlainSubmit DEF KindsInv
  <2>5. IdentityInv'
    BY <1>1, <1>3 DEF IdentityInv
  <2> QED
    BY <1>3, <2>1, <2>3, <2>4, <2>5, QuietKeeps
<1> QED
  BY <1>2, <1>3 DEF SendMessage, RespondInvite, SendSubscribe

\* next_sip_cseq and generate
LEMMA ThreadsKeep ==
    ASSUME DialogInv, Threads
    PROVE  DialogInv'
<1> USE DEF appVars, dialogVars, queueVars, allocatorVars
<1>1. OwnerTypeOK /\ KindsInv /\ IdentityInv
  BY DEF DialogInv
<1>2. ASSUME NEW t \in Callers, NEW d \in Dialogs, GenerateIdentity(t, d)
      PROVE  DialogInv'
  <2>1. OwnerTypeOK'
    BY <1>1, <1>2, LoadFacts DEF OwnerTypeOK, GenerateIdentity
  <2>2. KindsInv'
    BY SMT, <1>1, <1>2, LoadFacts, OwnerAssumption DEF KindsInv, GenerateIdentity
  <2>3. IdentityInv'
    BY <1>1, <1>2, LoadFacts DEF IdentityInv, GenerateIdentity, OwnerTypeOK
  <2> QED
    BY <1>2, <2>1, <2>2, <2>3, QuietKeeps DEF GenerateIdentity
<1>3. ASSUME NEW t \in Callers, AllocationRetries(t)
      PROVE  DialogInv'
  <2>1. OwnerTypeOK'
    BY <1>1, <1>3, LoadFacts DEF OwnerTypeOK, AllocationRetries
  <2>2. KindsInv'
    BY SMT, <1>1, <1>3, LoadFacts, OwnerAssumption DEF KindsInv, AllocationRetries, ExchangeFails
  <2>3. IdentityInv'
    BY <1>1, <1>3, LoadFacts DEF IdentityInv, AllocationRetries, ExchangeFails
  <2> QED
    BY <1>3, <2>1, <2>2, <2>3, QuietKeeps DEF AllocationRetries
<1>4. ASSUME NEW t \in Callers, Allocated(t)
      PROVE  DialogInv'
  <2> DEFINE cseq == NextValue(current[t])
  <2>1. /\ cseq \in 1 .. MaxCSeq /\ sequence' = cseq
        /\ current' = [current EXCEPT ![t] = Idle] /\ current[t] # Idle
        /\ sequence' \in Nat /\ current' \in [Callers -> Int] /\ granted' \in Seq(Int)
    BY SMT, <1>1, <1>4, AllocatorAssumption DEF Allocated, Exchange, NextValue, OwnerTypeOK, Idle
  <2> HIDE DEF cseq
  <2>2. CASE t = Owner
    <3>1. /\ Submit(calling, cseq) /\ calling' = NoCall
          /\ UNCHANGED <<identity, making, saved, lost, dialogVars, events>>
      BY <1>4, <2>2 DEF Allocated, cseq
    <3>2. calling \in Requests /\ calling.kind \in {"message", "subscribe"}
      BY <1>1, <2>1, <2>2 DEF KindsInv
    <3>3. OwnerTypeOK'
      BY SMT, <1>1, <2>1, <3>1, <3>2, SubmitFacts DEF OwnerTypeOK
    <3>4. \A k \in {"invite", "dialog"} : queues'[k] = queues[k]
      BY SMT, <1>1, <2>1, <3>1, <3>2, PlainSubmit
    <3>5. \A k \in {"message", "response", "subscribe"} :
             \A i \in 1 .. Len(queues'[k]) : queues'[k][i].kind = k
      BY SMT, <1>1, <2>1, <3>1, <3>2, PlainSubmit
    <3>6. current'[Owner] = Idle
      BY <1>1, <2>1, <2>2 DEF OwnerTypeOK
    <3>7. KindsInv'
      BY SMT, <1>1, <3>4, <3>5, <3>6 DEF KindsInv
    <3>8. IdentityInv'
      BY <1>1, <2>1, <3>1 DEF IdentityInv, OwnerTypeOK
    <3> QED
      BY <3>1, <3>3, <3>4, <3>7, <3>8, QuietKeeps
  <2>3. CASE t # Owner
    <3>1. /\ identity' = [identity EXCEPT ![making[t]] = cseq]
          /\ making' = [making EXCEPT ![t] = NoDialog]
          /\ UNCHANGED <<calling, queueVars, saved, lost, dialogVars, events>>
      BY <1>4, <2>3 DEF Allocated, cseq
    <3>2. making[t] \in Dialogs /\ identity[making[t]] = 0
      BY <1>1, <2>1, <2>3 DEF IdentityInv
    <3>3. OwnerTypeOK'
      <4>1. cseq \in -1 .. MaxCSeq
        BY SMT, <2>1, AllocatorAssumption
      <4>2. /\ identity' \in [Dialogs -> -1 .. MaxCSeq]
            /\ making' \in [Callers -> Dialogs \cup {NoDialog}]
        BY <1>1, <3>1, <4>1 DEF OwnerTypeOK
      <4> QED
        BY <1>1, <2>1, <3>1, <4>2 DEF OwnerTypeOK
    <3>4. KindsInv'
      <4>1. current'[Owner] = current[Owner]
        BY <1>1, <2>1, <2>3, OwnerAssumption DEF OwnerTypeOK
      <4>2. UNCHANGED <<queues, calling>>
        BY <3>1
      <4> QED
        BY SMT, <1>1, <4>1, <4>2 DEF KindsInv
    <3>5. IdentityInv'
      BY <1>1, <2>1, <2>3, <3>1, <3>2, OwnerAssumption
         DEF IdentityInv, OwnerTypeOK, NoDialog, Idle
    <3>6. \A d \in Dialogs : identity'[d] # Used => identity[d] # Used
      BY SMT, <1>1, <3>1, <3>2 DEF OwnerTypeOK, Used
    <3> QED
      BY <3>1, <3>3, <3>4, <3>5, <3>6, QuietKeeps
  <2> QED
    BY <2>2, <2>3
<1> QED
  BY <1>2, <1>3, <1>4 DEF Threads

\* send_invite: the dialog is fresh and its INVITE is the only one in the queue.
LEMMA SendInviteKeeps ==
    ASSUME DialogInv, NEW r \in Requests, SendInvite(r)
    PROVE  DialogInv'
<1> DEFINE d == r.dialog
           c == TheCommand(r, identity[d])
<1> USE DEF appVars, dialogVars, queueVars, allocatorVars
<1>1. OwnerTypeOK /\ KindsInv /\ IdentityInv
  BY DEF DialogInv
<1>2. /\ d \in Dialogs /\ identity[d] \in 1 .. MaxCSeq /\ r.kind = "invite"
      /\ QueueOf(r.kind) = "invite" /\ Submit(r, identity[d])
      /\ UNCHANGED <<allocatorVars, calling, making, saved, lost, dialogVars, events>>
  BY RequestsAssumption DEF SendInvite, CSeqInRange, QueueOf
<1>3. CASE ~ShimAccepts(r)
  <2>1. UNCHANGED <<queueVars, identity>>
    BY <1>1, <1>2, <1>3 DEF SendInvite, Submit, OwnerTypeOK
  <2>2. OwnerTypeOK' /\ KindsInv' /\ IdentityInv'
    BY SMT, <1>1, <1>2, <2>1 DEF OwnerTypeOK, KindsInv, IdentityInv
  <2> QED
    BY <1>2, <2>1, <2>2, QuietKeeps
<1>4. CASE ShimAccepts(r)
  <2>1. identity' = [identity EXCEPT ![d] = Used]
    BY <1>4 DEF SendInvite
  <2>2. /\ c \in CommandType /\ c.dialog = d /\ c.kind = "invite" /\ c.cseq = identity[d]
        /\ queues["invite"] \in Seq(CommandType)
        /\ queues'["invite"] = Append(queues["invite"], c)
        /\ \A k \in Kinds \ {"invite"} : queues'[k] = queues[k]
    <3>1. c.dialog = d /\ c.kind = "invite" /\ c.cseq = identity[d]
      BY <1>2 DEF TheCommand
    <3>2. identity[d] \in Int /\ queues["invite"] \in Seq(CommandType)
      BY SMT, <1>1, <1>2 DEF OwnerTypeOK, Kinds
    <3>3. /\ c \in CommandType
          /\ queues'["invite"] = Append(queues["invite"], c)
          /\ \A k \in Kinds \ {"invite"} : queues'[k] = queues[k]
      BY <1>1, <1>2, <1>4, <3>2, SubmitFacts
    <3> QED
      BY <3>1, <3>2, <3>3
  <2>3. OwnerTypeOK'
    BY SMT, <1>1, <1>2, <2>1, SubmitFacts, AllocatorAssumption DEF OwnerTypeOK, Used
  <2>4. /\ sent[d] = <<>> /\ localCSeq[d] = 0 /\ saved[d] = 0 /\ d \notin lost
        /\ \A k \in {"invite", "dialog"} : \A i \in 1 .. Len(queues[k]) :
              queues[k][i].dialog # d
        /\ \A i \in 1 .. Len(events) : events[i].dialog # d
    BY SMT, <1>2 DEF DialogInv, FreshInv, Used
  <2>5. \A i \in 1 .. Len(queues'["invite"]) :
           \/ i \in 1 .. Len(queues["invite"]) /\ queues'["invite"][i] = queues["invite"][i]
           \/ i = Len(queues["invite"]) + 1 /\ queues'["invite"][i] = c
    BY SMT, <2>2, AppendFacts
  <2> HIDE DEF c
  <2>6. KindsInv'
    BY SMT, <1>1, <1>2, <2>2, <2>5 DEF KindsInv, Kinds
  <2>7. IdentityInv'
    BY SMT, <1>1, <1>2, <2>1 DEF IdentityInv, OwnerTypeOK
  <2>8. FreshInv'
    <3> SUFFICES ASSUME NEW e \in Dialogs, identity'[e] # Used
                 PROVE  /\ sent[e] = <<>> /\ localCSeq[e] = 0 /\ saved[e] = 0 /\ e \notin lost
                        /\ \A k \in {"invite", "dialog"} : \A i \in 1 .. Len(queues'[k]) :
                              queues'[k][i].dialog # e
                        /\ \A i \in 1 .. Len(events) : events[i].dialog # e
      BY <1>2 DEF FreshInv
    <3>1. e # d /\ identity[e] # Used
      BY <1>1, <2>1 DEF OwnerTypeOK
    <3>2. /\ sent[e] = <<>> /\ localCSeq[e] = 0 /\ saved[e] = 0 /\ e \notin lost
          /\ \A i \in 1 .. Len(queues["invite"]) : queues["invite"][i].dialog # e
          /\ \A i \in 1 .. Len(queues["dialog"]) : queues["dialog"][i].dialog # e
          /\ \A i \in 1 .. Len(events) : events[i].dialog # e
      BY <3>1 DEF DialogInv, FreshInv
    <3>3. queues'["dialog"] = queues["dialog"]
      BY <2>2 DEF Kinds
    <3>4. \A i \in 1 .. Len(queues'["invite"]) : queues'["invite"][i].dialog # e
      BY <2>2, <2>5, <3>1, <3>2
    <3> QED
      BY <3>2, <3>3, <3>4
  <2>9. InviteInv'
    <3> SUFFICES ASSUME NEW i \in 1 .. Len(queues'["invite"])
                 PROVE  LET b == queues'["invite"][i] IN
                        /\ b.cseq \in 1 .. MaxCSeq
                        /\ sent[b.dialog] = <<>> /\ localCSeq[b.dialog] = 0
                        /\ saved[b.dialog] \in {0, GivenUp} /\ b.dialog \notin lost
                        /\ \A j \in 1 .. Len(events) : events[j].dialog # b.dialog
                        /\ \A j \in 1 .. Len(queues'["invite"]) :
                              j # i => queues'["invite"][j].dialog # b.dialog
      BY <1>2 DEF InviteInv
    <3> QED
      BY SMT, <1>2, <2>2, <2>4, <2>5 DEF DialogInv, InviteInv
  <2>10. RequestInv'
    BY <1>2, <2>2 DEF DialogInv, RequestInv, Below, Kinds
  <2>11. SavedInv' /\ DialogCSeqRises'
    BY <1>2 DEF DialogInv, SavedInv, DialogCSeqRises, CSeqInRange, Below
  <2> QED
    BY <2>3, <2>6, <2>7, <2>8, <2>9, <2>10, <2>11 DEF DialogInv
<1> QED
  BY <1>3, <1>4

\* A request in a dialog takes the CSeq after the one saved, or ends a call whose
\* dialog is not known.
LEMMA RequestKeeps ==
    ASSUME DialogInv, NEW r \in Requests, r.kind \in {"dialog", "restored"},
           r.kind = "dialog" => r.dialog \notin lost,
           r.kind = "restored" => /\ r.dialog \in lost /\ saved[r.dialog] > 0
                                  /\ CSeqInRange(saved[r.dialog] + 1),
           \/ /\ saved[r.dialog] > 0
              /\ saved' = [saved EXCEPT ![r.dialog] = @ + 1]
           \/ /\ saved[r.dialog] = 0 /\ identity[r.dialog] = Used
              /\ saved' = [saved EXCEPT ![r.dialog] = GivenUp],
           Submit(r, saved[r.dialog] + 1),
           UNCHANGED <<allocatorVars, calling, identity, making, lost, dialogVars, events>>
    PROVE  DialogInv'
<1> DEFINE d == r.dialog
           c == TheCommand(r, saved[d] + 1)
           old == queues["dialog"]
           new == queues'["dialog"]
<1> USE DEF dialogVars, queueVars, allocatorVars
<1>1. OwnerTypeOK /\ KindsInv /\ IdentityInv
  BY DEF DialogInv
<1>2. d \in Dialogs /\ QueueOf(r.kind) = "dialog" /\ saved[d] + 1 \in Int /\ saved[d] \in Int
  <2>1. d \in Dialogs
    BY RequestsAssumption
  <2>2. QueueOf(r.kind) = "dialog"
    BY DEF QueueOf
  <2>3. saved[d] \in Int
    BY <1>1, <2>1 DEF OwnerTypeOK
  <2> QED
    BY SMT, <2>1, <2>2, <2>3
<1>3. c.dialog = d /\ c.kind = r.kind /\ c.cseq = saved[d] + 1
  BY DEF TheCommand
<1>4. /\ c \in CommandType /\ old \in Seq(CommandType)
      /\ new = IF ShimAccepts(r) THEN Append(old, c) ELSE old
      /\ \A k \in Kinds \ {"dialog"} : queues'[k] = queues[k]
  BY <1>1, <1>2, SubmitFacts DEF OwnerTypeOK
<1>5. OwnerTypeOK'
  <2>1. saved' \in [Dialogs -> Int]
    BY SMT, <1>1, <1>2 DEF OwnerTypeOK, GivenUp
  <2> QED
    BY <1>1, <1>2, <2>1, SubmitFacts DEF OwnerTypeOK
<1> HIDE DEF c
<1>6. \A i \in 1 .. Len(new) :
         \/ i \in 1 .. Len(old) /\ new[i] = old[i]
         \/ i = Len(old) + 1 /\ new[i] = c
  BY SMT, <1>4, AppendFacts
<1>7. /\ \A e \in Dialogs \ {d} : saved'[e] = saved[e]
      /\ \/ saved[d] > 0 /\ saved'[d] = saved[d] + 1
         \/ saved[d] = 0 /\ saved'[d] = GivenUp
      /\ identity[d] = Used
  BY SMT, <1>1, <1>2 DEF OwnerTypeOK, DialogInv, FreshInv
<1>8. KindsInv'
  <2>1. \A i \in 1 .. Len(new) : new[i].kind \in {"dialog", "restored"} /\ new[i].dialog \in Dialogs
    BY <1>1, <1>2, <1>3, <1>6 DEF KindsInv
  <2>2. \A k \in {"message", "response", "subscribe", "invite"} : queues'[k] = queues[k]
    BY <1>4 DEF Kinds
  <2> QED
    BY SMT, <1>1, <2>1, <2>2 DEF KindsInv
<1>9. IdentityInv'
  BY <1>1 DEF IdentityInv
<1>10. FreshInv'
  <2> SUFFICES ASSUME NEW e \in Dialogs, identity[e] # Used
               PROVE  /\ sent[e] = <<>> /\ localCSeq[e] = 0 /\ saved'[e] = 0 /\ e \notin lost
                      /\ \A k \in {"invite", "dialog"} : \A i \in 1 .. Len(queues'[k]) :
                            queues'[k][i].dialog # e
                      /\ \A i \in 1 .. Len(events) : events[i].dialog # e
    BY DEF FreshInv
  <2>1. e # d /\ saved'[e] = saved[e]
    BY <1>7
  <2>2. queues'["invite"] = queues["invite"]
    BY <1>4 DEF Kinds
  <2>3. \A i \in 1 .. Len(new) : new[i].dialog # e
    BY SMT, <1>3, <1>6, <2>1 DEF DialogInv, FreshInv
  <2> QED
    BY SMT, <2>1, <2>2, <2>3 DEF DialogInv, FreshInv
<1>11. InviteInv'
  BY SMT, <1>1, <1>4, <1>7 DEF DialogInv, InviteInv, Kinds, KindsInv, GivenUp
<1>12. RequestInv'
  <2> SUFFICES ASSUME NEW i \in 1 .. Len(new)
               PROVE  LET b == new[i] IN
                      /\ saved'[b.dialog] # 0
                      /\ b.kind = "dialog" => b.dialog \notin lost
                      /\ b.kind = "restored" =>
                            /\ b.dialog \in lost /\ saved'[b.dialog] > 0
                            /\ b.cseq \in 1 .. MaxCSeq /\ Below(b.dialog, b.cseq)
                      /\ saved'[b.dialog] > 0 =>
                            /\ b.cseq <= saved'[b.dialog]
                            /\ localCSeq[b.dialog] > 0 => localCSeq[b.dialog] <= b.cseq
                            /\ \A j \in 1 .. i - 1 :
                                  new[j].dialog = b.dialog => new[j].cseq < b.cseq
    BY DEF RequestInv, Below
  <2>1. CASE i \in 1 .. Len(old) /\ new[i] = old[i]
    <3>1. saved[old[i].dialog] # 0 /\ old[i].dialog \in Dialogs /\ old[i].cseq \in Int
      <4>1. saved[old[i].dialog] # 0
        BY <2>1 DEF DialogInv, RequestInv
      <4> QED
        BY <1>1, <2>1, <4>1, ElementFacts DEF Kinds
    <3>2. \/ old[i].dialog # d /\ saved'[old[i].dialog] = saved[old[i].dialog]
          \/ old[i].dialog = d /\ saved[d] > 0 /\ saved'[d] = saved[d] + 1
      BY <1>7, <3>1
    <3>3. \A j \in 1 .. i - 1 : j \in 1 .. Len(old) /\ new[j] = old[j]
      BY SMT, <1>4, <1>6, <2>1
    <3>4. LET b == old[i] IN
          /\ b.kind = "dialog" => b.dialog \notin lost
          /\ b.kind = "restored" =>
                /\ b.dialog \in lost /\ saved[b.dialog] > 0
                /\ b.cseq \in 1 .. MaxCSeq /\ Below(b.dialog, b.cseq)
          /\ saved[b.dialog] > 0 =>
                /\ b.cseq <= saved[b.dialog]
                /\ localCSeq[b.dialog] > 0 => localCSeq[b.dialog] <= b.cseq
                /\ \A j \in 1 .. i - 1 : old[j].dialog = b.dialog => old[j].cseq < b.cseq
      BY <2>1 DEF DialogInv, RequestInv
    <3>5. saved'[old[i].dialog] > 0 =>
             saved[old[i].dialog] > 0 /\ saved[old[i].dialog] <= saved'[old[i].dialog]
             /\ saved[old[i].dialog] \in Int /\ saved'[old[i].dialog] \in Int
      <4>1. saved[old[i].dialog] \in Int
        BY <1>1, <3>1 DEF OwnerTypeOK
      <4>2. saved'[old[i].dialog] \in Int
        BY <1>5, <3>1 DEF OwnerTypeOK
      <4> QED
        BY SMT, <1>2, <3>2, <4>1, <4>2
    <3>6. saved'[old[i].dialog] # 0 /\ (saved[old[i].dialog] > 0 => saved'[old[i].dialog] > 0)
      BY SMT, <1>2, <3>1, <3>2
    <3>7. saved'[old[i].dialog] > 0 => old[i].cseq <= saved'[old[i].dialog]
      BY SMT, <3>1, <3>4, <3>5
    <3>8. saved'[old[i].dialog] > 0 =>
             /\ localCSeq[old[i].dialog] > 0 => localCSeq[old[i].dialog] <= old[i].cseq
             /\ \A j \in 1 .. i - 1 : new[j].dialog = old[i].dialog => new[j].cseq < old[i].cseq
      BY <3>3, <3>4, <3>5
    <3> QED
      BY <2>1, <3>4, <3>6, <3>7, <3>8
  <2>2. CASE i = Len(old) + 1 /\ new[i] = c
    <3>0. \A j \in 1 .. i - 1 : j \in 1 .. Len(old) /\ new[j] = old[j]
      BY SMT, <1>4, <1>6, <2>2
    <3>1. \A j \in 1 .. i - 1 : j \in 1 .. Len(old) /\ new[j] = old[j] /\ old[j].cseq \in Int
      BY <1>1, <3>0, ElementFacts DEF Kinds
    <3>2. saved[d] > 0 => \A j \in 1 .. Len(old) : old[j].dialog = d => old[j].cseq <= saved[d]
      BY DEF DialogInv, RequestInv
    <3>3. saved[d] > 0 => Below(d, saved[d] + 1)
                          /\ (localCSeq[d] > 0 => localCSeq[d] <= saved[d] + 1)
      BY <1>2 DEF DialogInv, SavedInv
    <3>4. CASE saved[d] > 0 /\ saved'[d] = saved[d] + 1
      <4>1. \A j \in 1 .. i - 1 : new[j].dialog = d => new[j].cseq < saved[d] + 1
        <5> SUFFICES ASSUME NEW j \in 1 .. i - 1, new[j].dialog = d
                     PROVE  new[j].cseq < saved[d] + 1
          OBVIOUS
        <5>1. new[j].cseq \in Int /\ new[j].cseq <= saved[d]
          BY <3>1, <3>2, <3>4
        <5>2. saved[d] \in Int
          BY <1>1, <1>2 DEF OwnerTypeOK
        <5> QED
          BY SMT, <5>1, <5>2
      <4>2. c.kind = "restored" => c.cseq \in 1 .. MaxCSeq
        BY <1>3 DEF CSeqInRange
      <4> QED
        BY SMT, <1>2, <1>3, <2>2, <3>3, <3>4, <4>1, <4>2
    <3>5. CASE saved[d] = 0 /\ saved'[d] = GivenUp
      BY SMT, <1>3, <2>2, <3>5 DEF GivenUp
    <3> QED
      BY <1>7, <3>4, <3>5
  <2> QED
    BY <1>6, <2>1, <2>2
<1>13. SavedInv'
  <2>1. ASSUME NEW e \in Dialogs
        PROVE  /\ saved'[e] >= -1
               /\ localCSeq[e] <= MaxCSeq /\ (localCSeq[e] > 0 => Below(e, localCSeq[e]))
               /\ e \in lost => localCSeq[e] = 0
               /\ saved'[e] > 0 =>
                     /\ Below(e, saved'[e] + 1)
                     /\ localCSeq[e] > 0 => localCSeq[e] <= saved'[e] + 1
    <3>1. CASE e # d
      BY <1>7, <2>1, <3>1 DEF DialogInv, SavedInv
    <3>2. CASE e = d
      <4>1. /\ localCSeq[d] <= MaxCSeq /\ (localCSeq[d] > 0 => Below(d, localCSeq[d]))
            /\ d \in lost => localCSeq[d] = 0
            /\ saved[d] > 0 =>
                  /\ Below(d, saved[d] + 1)
                  /\ localCSeq[d] > 0 => localCSeq[d] <= saved[d] + 1
        BY <1>2 DEF DialogInv, SavedInv
      <4>2. sent[d] \in Seq(Int) /\ localCSeq[d] \in Int
        BY <1>1, <1>2 DEF OwnerTypeOK
      <4>3. saved[d] > 0 => Below(d, saved[d] + 2)
        <5> SUFFICES ASSUME saved[d] > 0, NEW j \in 1 .. Len(sent[d])
                     PROVE  sent[d][j] < saved[d] + 2
          BY DEF Below, Under
        <5>1. sent[d][j] < saved[d] + 1
          BY <4>1 DEF Below, Under
        <5>2. sent[d][j] \in Int
          BY SMT, <4>2
        <5>3. saved[d] \in Int
          BY <1>1, <1>2 DEF OwnerTypeOK
        <5> QED
          BY SMT, <5>1, <5>2, <5>3
      <4>4. CASE saved[d] > 0 /\ saved'[d] = saved[d] + 1
        BY SMT, <1>2, <3>2, <4>1, <4>2, <4>3, <4>4
      <4>5. CASE saved[d] = 0 /\ saved'[d] = GivenUp
        BY SMT, <3>2, <4>1, <4>5 DEF GivenUp
      <4> QED
        BY <1>7, <4>4, <4>5
    <3> QED
      BY <3>1, <3>2
  <2>2. ASSUME NEW i \in 1 .. Len(events)
        PROVE  LET e == events[i] IN
               /\ e.cseq > 0
               /\ saved'[e.dialog] = 0 =>
                     /\ Below(e.dialog, e.cseq + 1)
                     /\ localCSeq[e.dialog] > 0 => localCSeq[e.dialog] <= e.cseq + 1
    <3>1. events[i].dialog \in Dialogs
      BY <1>1, ElementFacts
    <3> QED
      BY SMT, <1>2, <1>7, <3>1 DEF DialogInv, SavedInv, GivenUp
  <2> QED
    BY <2>1, <2>2 DEF SavedInv, Below
<1>14. DialogCSeqRises'
  BY DEF DialogInv, DialogCSeqRises, CSeqInRange
<1> QED
  BY <1>5, <1>8, <1>9, <1>10, <1>11, <1>12, <1>13, <1>14 DEF DialogInv

\* send_dialog_request and send_restored_dialog_request
LEMMA RequestCallsKeep ==
    ASSUME DialogInv, NEW r \in Requests,
           SendDialogRequest(r) \/ SendRestoredDialogRequest(r)
    PROVE  DialogInv'
<1>1. CASE SendDialogRequest(r)
  BY <1>1, RequestKeeps DEF SendDialogRequest
<1>2. CASE SendRestoredDialogRequest(r)
  BY <1>2, RequestKeeps DEF SendRestoredDialogRequest
<1> QED
  BY <1>1, <1>2

-----------------------------------------------------------------------------
(* The poll.                                                                 *)

\* The first command of queue k is taken.
Takes(k) ==
    /\ queues[k] # <<>> /\ queues' = [queues EXCEPT ![k] = Tail(@)]
    /\ UNCHANGED <<allocatorVars, calling, calls, appVars, events>>

\* What a command leaves of its queue
LEMMA TakenFacts ==
    ASSUME OwnerTypeOK, KindsInv, NEW k \in Kinds, Takes(k)
    PROVE  /\ queues' \in [Kinds -> Seq(CommandType)]
           /\ \A l \in Kinds \ {k} : queues'[l] = queues[l]
           /\ Len(queues[k]) \in Nat \ {0} /\ Len(queues'[k]) = Len(queues[k]) - 1
           /\ \A i \in 1 .. Len(queues'[k]) :
                 i + 1 \in 1 .. Len(queues[k]) /\ queues'[k][i] = queues[k][i + 1]
           /\ 1 \in 1 .. Len(queues[k]) /\ Head(queues[k]) = queues[k][1]
           /\ KindsInv'
<1>1. queues[k] \in Seq(CommandType)
  BY DEF OwnerTypeOK
<1>2. /\ Tail(queues[k]) \in Seq(CommandType) /\ Len(Tail(queues[k])) = Len(queues[k]) - 1
      /\ Len(queues[k]) \in Nat \ {0} /\ Head(queues[k]) = queues[k][1]
      /\ \A i \in 1 .. Len(queues[k]) - 1 : Tail(queues[k])[i] = queues[k][i + 1]
  BY <1>1, TailFacts DEF Takes
<1>3. queues'[k] = Tail(queues[k]) /\ \A l \in Kinds \ {k} : queues'[l] = queues[l]
  BY DEF OwnerTypeOK, Takes
<1>4. queues' \in [Kinds -> Seq(CommandType)]
  BY <1>2 DEF OwnerTypeOK, Takes
<1>5. \A i \in 1 .. Len(queues'[k]) :
         i + 1 \in 1 .. Len(queues[k]) /\ queues'[k][i] = queues[k][i + 1]
  <2>1. Len(queues'[k]) = Len(queues[k]) - 1 /\ Len(queues[k]) \in Nat
    BY <1>2, <1>3
  <2>2. \A i \in 1 .. Len(queues'[k]) :
           i \in 1 .. Len(queues[k]) - 1 /\ i + 1 \in 1 .. Len(queues[k])
    BY SMT, <2>1
  <2> QED
    BY <1>2, <1>3, <2>2
<1>6. \A l \in Kinds : \A i \in 1 .. Len(queues'[l]) :
         \E j \in 1 .. Len(queues[l]) : queues'[l][i] = queues[l][j]
  BY <1>3, <1>5
<1>7. KindsInv'
  BY SMT, <1>6 DEF KindsInv, Kinds, Takes, allocatorVars
<1> QED
  BY SMT, <1>2, <1>3, <1>4, <1>5, <1>7

\* A request that is sent in a dialog: its CSeq is above all before, or not positive.
LEMMA SentRises ==
    ASSUME OwnerTypeOK, DialogCSeqRises, NEW d \in Dialogs, NEW n \in Int,
           n > 0 => n <= MaxCSeq /\ Below(d, n),
           sent' = [sent EXCEPT ![d] = Append(@, n)]
    PROVE  /\ sent' \in [Dialogs -> Seq(Int)]
           /\ \A e \in Dialogs \ {d} : sent'[e] = sent[e]
           /\ \A m \in Int : Under(sent[d], m) /\ n < m => Under(sent'[d], m)
           /\ DialogCSeqRises'
<1>1. sent[d] \in Seq(Int) /\ sent'[d] = Append(sent[d], n)
      /\ \A e \in Dialogs \ {d} : sent'[e] = sent[e]
  BY DEF OwnerTypeOK
<1>2. /\ sent'[d] \in Seq(Int) /\ Len(sent[d]) \in Nat
      /\ \A i \in 1 .. Len(sent'[d]) :
            \/ i \in 1 .. Len(sent[d]) /\ sent'[d][i] = sent[d][i]
            \/ i = Len(sent[d]) + 1 /\ sent'[d][i] = n
  BY SMT, <1>1, AppendFacts
<1>3. sent' \in [Dialogs -> Seq(Int)]
  BY <1>1, <1>2 DEF OwnerTypeOK
<1>4. \A m \in Int : Under(sent[d], m) /\ n < m => Under(sent'[d], m)
  BY <1>2 DEF Under
<1>5. ASSUME NEW e \in Dialogs, NEW i \in 1 .. Len(sent'[e]), sent'[e][i] > 0
      PROVE  /\ sent'[e][i] \in 1 .. MaxCSeq
             /\ \A j \in 1 .. i - 1 : sent'[e][j] < sent'[e][i]
  <2>1. CASE e # d
    BY <1>1, <1>5, <2>1 DEF DialogCSeqRises, CSeqInRange
  <2>2. CASE e = d /\ i \in 1 .. Len(sent[d])
    <3>1. \A j \in 1 .. i : j \in 1 .. Len(sent[d]) /\ sent'[d][j] = sent[d][j]
      BY SMT, <1>1, <1>2, <2>2
    <3> QED
      BY SMT, <1>5, <2>2, <3>1 DEF DialogCSeqRises, CSeqInRange
  <2>3. CASE e = d /\ i = Len(sent[d]) + 1
    <3>1. \A j \in 1 .. i - 1 : j \in 1 .. Len(sent[d]) /\ sent'[d][j] = sent[d][j]
      BY SMT, <1>1, <1>2, <2>3
    <3>2. sent'[d][i] = n
      BY SMT, <1>2, <1>5, <2>3
    <3> QED
      BY SMT, <1>5, <2>3, <3>1, <3>2, AllocatorAssumption DEF Below, Under
  <2> QED
    BY <1>2, <1>5, <2>1, <2>2, <2>3
<1>6. DialogCSeqRises'
  BY <1>5 DEF DialogCSeqRises, CSeqInRange
<1> QED
  BY <1>1, <1>3, <1>4, <1>6

\* Where a command was that is still in the queue of the INVITEs or of the dialogs
LEMMA ShiftFacts ==
    ASSUME OwnerTypeOK, KindsInv, NEW k \in Kinds, Takes(k), NEW l \in {"invite", "dialog"}
    PROVE  \E o \in {0, 1} :
              /\ o = 1 <=> l = k
              /\ \A i \in 1 .. Len(queues'[l]) :
                    i + o \in 1 .. Len(queues[l]) /\ queues'[l][i] = queues[l][i + o]
<1>1. CASE l = k
  BY <1>1, TakenFacts
<1>2. CASE l # k
  <2>1. queues'[l] = queues[l]
    BY <1>2, TakenFacts DEF Kinds
  <2> QED
    BY SMT, <1>2, <2>1
<1> QED
  BY <1>1, <1>2

\* A command that sends nothing in a dialog
LEMMA NothingSentKeeps ==
    ASSUME DialogInv, NEW k \in Kinds, Takes(k), UNCHANGED dialogVars
    PROVE  DialogInv'
<1>0. UNCHANGED <<sequence, current, granted, calling, calls, identity, making, saved, lost,
                  events, localCSeq, sent>>
  BY DEF Takes, allocatorVars, appVars, dialogVars
<1>1. OwnerTypeOK /\ KindsInv /\ IdentityInv
  BY DEF DialogInv
<1>2. OwnerTypeOK' /\ KindsInv' /\ IdentityInv'
  <2>1. queues' \in [Kinds -> Seq(CommandType)] /\ KindsInv'
    BY <1>1, TakenFacts
  <2>2. OwnerTypeOK'
    BY <1>0, <1>1, <2>1 DEF OwnerTypeOK
  <2>3. IdentityInv'
    BY <1>0, <1>1 DEF IdentityInv
  <2> QED
    BY <2>1, <2>2, <2>3
<1>3. PICK o \in {0, 1} : \A i \in 1 .. Len(queues'["dialog"]) :
         /\ i + o \in 1 .. Len(queues["dialog"])
         /\ queues'["dialog"][i] = queues["dialog"][i + o]
  BY <1>1, ShiftFacts
<1>4. PICK p \in {0, 1} : \A i \in 1 .. Len(queues'["invite"]) :
         /\ i + p \in 1 .. Len(queues["invite"])
         /\ queues'["invite"][i] = queues["invite"][i + p]
  BY <1>1, ShiftFacts
<1>5. FreshInv'
  <2> SUFFICES ASSUME NEW e \in Dialogs, identity[e] # Used
               PROVE  /\ sent[e] = <<>> /\ localCSeq[e] = 0 /\ saved[e] = 0 /\ e \notin lost
                      /\ \A l \in {"invite", "dialog"} : \A i \in 1 .. Len(queues'[l]) :
                            queues'[l][i].dialog # e
                      /\ \A i \in 1 .. Len(events) : events[i].dialog # e
    BY <1>0 DEF FreshInv
  <2>0. /\ \A i \in 1 .. Len(queues["invite"]) : queues["invite"][i].dialog # e
        /\ \A i \in 1 .. Len(queues["dialog"]) : queues["dialog"][i].dialog # e
    BY DEF DialogInv, FreshInv
  <2>1. \A i \in 1 .. Len(queues'["invite"]) : queues'["invite"][i].dialog # e
    BY <1>4, <2>0
  <2>2. \A i \in 1 .. Len(queues'["dialog"]) : queues'["dialog"][i].dialog # e
    BY <1>3, <2>0
  <2> QED
    BY <2>1, <2>2 DEF DialogInv, FreshInv
<1>6. InviteInv'
  <2> SUFFICES ASSUME NEW i \in 1 .. Len(queues'["invite"])
               PROVE  LET b == queues'["invite"][i] IN
                      /\ b.cseq \in 1 .. MaxCSeq
                      /\ sent[b.dialog] = <<>> /\ localCSeq[b.dialog] = 0
                      /\ saved[b.dialog] \in {0, GivenUp} /\ b.dialog \notin lost
                      /\ \A j \in 1 .. Len(events) : events[j].dialog # b.dialog
                      /\ \A j \in 1 .. Len(queues'["invite"]) :
                            j # i => queues'["invite"][j].dialog # b.dialog
    BY <1>0 DEF InviteInv
  <2>1. \A j \in 1 .. Len(queues'["invite"]) : j # i => j + p # i + p
    BY SMT
  <2>2. LET b == queues["invite"][i + p] IN
        /\ b.cseq \in 1 .. MaxCSeq
        /\ sent[b.dialog] = <<>> /\ localCSeq[b.dialog] = 0
        /\ saved[b.dialog] \in {0, GivenUp} /\ b.dialog \notin lost
        /\ \A j \in 1 .. Len(events) : events[j].dialog # b.dialog
    BY <1>4 DEF DialogInv, InviteInv
  <2>3. \A j \in 1 .. Len(queues'["invite"]) :
           j # i => queues'["invite"][j].dialog # queues["invite"][i + p].dialog
    <3> SUFFICES ASSUME NEW j \in 1 .. Len(queues'["invite"]), j # i
                 PROVE  queues["invite"][j + p].dialog # queues["invite"][i + p].dialog
      BY <1>4
    <3>1. i + p \in 1 .. Len(queues["invite"]) /\ j + p \in 1 .. Len(queues["invite"])
          /\ j + p # i + p
      BY <1>4, <2>1
    <3> QED
      BY <3>1 DEF DialogInv, InviteInv
  <2> QED
    BY <1>4, <2>2, <2>3
<1>7. RequestInv'
  <2> SUFFICES ASSUME NEW i \in 1 .. Len(queues'["dialog"])
               PROVE  LET b == queues'["dialog"][i] IN
                      /\ saved[b.dialog] # 0
                      /\ b.kind = "dialog" => b.dialog \notin lost
                      /\ b.kind = "restored" =>
                            /\ b.dialog \in lost /\ saved[b.dialog] > 0
                            /\ b.cseq \in 1 .. MaxCSeq /\ Below(b.dialog, b.cseq)
                      /\ saved[b.dialog] > 0 =>
                            /\ b.cseq <= saved[b.dialog]
                            /\ localCSeq[b.dialog] > 0 => localCSeq[b.dialog] <= b.cseq
                            /\ \A j \in 1 .. i - 1 :
                                  queues'["dialog"][j].dialog = b.dialog =>
                                      queues'["dialog"][j].cseq < b.cseq
    BY <1>0 DEF RequestInv, Below
  <2>1. Len(queues'["dialog"]) \in Nat
    BY SMT, <1>2 DEF OwnerTypeOK, Kinds
  <2>2. \A j \in 1 .. i - 1 : j \in 1 .. Len(queues'["dialog"]) /\ j + o \in 1 .. (i + o) - 1
    BY SMT, <2>1
  <2> QED
    BY <1>3, <2>2 DEF DialogInv, RequestInv
<1>8. SavedInv' /\ DialogCSeqRises'
  BY <1>0 DEF DialogInv, SavedInv, DialogCSeqRises, CSeqInRange, Below
<1> QED
  BY <1>2, <1>5, <1>6, <1>7, <1>8 DEF DialogInv

\* A command sends a request with CSeq n in dialog d and leaves local.cseq at m: neither
\* is behind, or ahead of what is saved or waits.
SendsBetween(d, n, m) ==
    /\ sent' = [sent EXCEPT ![d] = Append(@, n)]
    /\ localCSeq' = [localCSeq EXCEPT ![d] = m]
    /\ identity[d] = Used
    /\ n > 0 => n <= MaxCSeq /\ Below(d, n)
    /\ m <= MaxCSeq /\ (m > 0 => Below(d, m) /\ n < m)
    /\ d \in lost => m = 0
    /\ saved[d] > 0 => n <= saved[d] /\ (m > 0 => m <= saved[d] + 1)
    /\ saved[d] = 0 => \A i \in 1 .. Len(events) : events[i].dialog # d
    /\ \A i \in 1 .. Len(queues'["invite"]) : queues'["invite"][i].dialog # d
    /\ \A i \in 1 .. Len(queues'["dialog"]) :
          LET b == queues'["dialog"][i] IN
          b.dialog = d => /\ b.kind = "restored" => n < b.cseq
                          /\ saved[d] > 0 /\ m > 0 => m <= b.cseq

\* A request sent with a number above all earlier ones of its dialog keeps the invariant.
LEMMA RequestSentKeeps ==
    ASSUME DialogInv, NEW k \in Kinds, Takes(k),
           NEW d \in Dialogs, NEW n \in Int, NEW m \in Int, SendsBetween(d, n, m)
    PROVE  DialogInv'
<1>0. UNCHANGED <<sequence, current, granted, calling, calls, identity, making, saved, lost,
                  events>>
  BY DEF Takes, allocatorVars, appVars
<1>1. OwnerTypeOK /\ KindsInv /\ IdentityInv
  BY DEF DialogInv
<1>2. /\ sent' \in [Dialogs -> Seq(Int)]
      /\ \A e \in Dialogs \ {d} : sent'[e] = sent[e]
      /\ \A x \in Int : Under(sent[d], x) /\ n < x => Under(sent'[d], x)
      /\ DialogCSeqRises'
  BY <1>1, SentRises DEF DialogInv, SendsBetween
<1>3. /\ localCSeq' \in [Dialogs -> Int] /\ localCSeq'[d] = m
      /\ \A e \in Dialogs \ {d} : localCSeq'[e] = localCSeq[e]
  BY <1>1 DEF OwnerTypeOK, SendsBetween
<1>4. OwnerTypeOK' /\ KindsInv' /\ IdentityInv'
  <2>1. queues' \in [Kinds -> Seq(CommandType)] /\ KindsInv'
    BY <1>1, TakenFacts
  <2>2. OwnerTypeOK'
    BY <1>0, <1>1, <1>2, <1>3, <2>1 DEF OwnerTypeOK
  <2>3. IdentityInv'
    BY <1>0, <1>1 DEF IdentityInv
  <2> QED
    BY <2>1, <2>2, <2>3
<1>5. PICK o \in {0, 1} : \A i \in 1 .. Len(queues'["dialog"]) :
         /\ i + o \in 1 .. Len(queues["dialog"])
         /\ queues'["dialog"][i] = queues["dialog"][i + o]
  BY <1>1, ShiftFacts
<1>6. PICK p \in {0, 1} : \A i \in 1 .. Len(queues'["invite"]) :
         /\ i + p \in 1 .. Len(queues["invite"])
         /\ queues'["invite"][i] = queues["invite"][i + p]
  BY <1>1, ShiftFacts
<1>8. FreshInv'
  <2> SUFFICES ASSUME NEW e \in Dialogs, identity[e] # Used
               PROVE  /\ sent'[e] = <<>> /\ localCSeq'[e] = 0 /\ saved[e] = 0 /\ e \notin lost
                      /\ \A l \in {"invite", "dialog"} : \A i \in 1 .. Len(queues'[l]) :
                            queues'[l][i].dialog # e
                      /\ \A i \in 1 .. Len(events) : events[i].dialog # e
    BY <1>0 DEF FreshInv
  <2>1. e # d
    BY DEF SendsBetween
  <2>2. sent'[e] = sent[e] /\ localCSeq'[e] = localCSeq[e]
    BY <1>2, <1>3, <2>1
  <2>0. /\ \A i \in 1 .. Len(queues["invite"]) : queues["invite"][i].dialog # e
        /\ \A i \in 1 .. Len(queues["dialog"]) : queues["dialog"][i].dialog # e
    BY DEF DialogInv, FreshInv
  <2>3. \A i \in 1 .. Len(queues'["invite"]) : queues'["invite"][i].dialog # e
    BY <1>6, <2>0
  <2>4. \A i \in 1 .. Len(queues'["dialog"]) : queues'["dialog"][i].dialog # e
    BY <1>5, <2>0
  <2> QED
    BY <2>2, <2>3, <2>4 DEF DialogInv, FreshInv
<1>9. InviteInv'
  <2> SUFFICES ASSUME NEW i \in 1 .. Len(queues'["invite"])
               PROVE  LET b == queues'["invite"][i] IN
                      /\ b.cseq \in 1 .. MaxCSeq
                      /\ sent'[b.dialog] = <<>> /\ localCSeq'[b.dialog] = 0
                      /\ saved[b.dialog] \in {0, GivenUp} /\ b.dialog \notin lost
                      /\ \A j \in 1 .. Len(events) : events[j].dialog # b.dialog
                      /\ \A j \in 1 .. Len(queues'["invite"]) :
                            j # i => queues'["invite"][j].dialog # b.dialog
    BY <1>0 DEF InviteInv
  <2>1. queues'["invite"][i].dialog \in Dialogs \ {d}
    BY <1>4 DEF KindsInv, SendsBetween
  <2>2. sent'[queues'["invite"][i].dialog] = sent[queues'["invite"][i].dialog]
        /\ localCSeq'[queues'["invite"][i].dialog] = localCSeq[queues'["invite"][i].dialog]
    BY <1>2, <1>3, <2>1
  <2>3. Len(queues'["invite"]) \in Nat
    BY SMT, <1>4 DEF OwnerTypeOK, Kinds
  <2>4. \A j \in 1 .. Len(queues'["invite"]) : j # i => j + p # i + p
    BY SMT, <2>3
  <2>5. LET b == queues["invite"][i + p] IN
        /\ b.cseq \in 1 .. MaxCSeq
        /\ sent[b.dialog] = <<>> /\ localCSeq[b.dialog] = 0
        /\ saved[b.dialog] \in {0, GivenUp} /\ b.dialog \notin lost
        /\ \A j \in 1 .. Len(events) : events[j].dialog # b.dialog
    BY <1>6 DEF DialogInv, InviteInv
  <2>6. \A j \in 1 .. Len(queues'["invite"]) :
           j # i => queues'["invite"][j].dialog # queues["invite"][i + p].dialog
    <3> SUFFICES ASSUME NEW j \in 1 .. Len(queues'["invite"]), j # i
                 PROVE  queues["invite"][j + p].dialog # queues["invite"][i + p].dialog
      BY <1>6
    <3>1. i + p \in 1 .. Len(queues["invite"]) /\ j + p \in 1 .. Len(queues["invite"])
          /\ j + p # i + p
      BY <1>6, <2>4
    <3> QED
      BY <3>1 DEF DialogInv, InviteInv
  <2> QED
    BY <1>6, <2>2, <2>5, <2>6
<1>10. RequestInv'
  <2> SUFFICES ASSUME NEW i \in 1 .. Len(queues'["dialog"])
               PROVE  LET b == queues'["dialog"][i] IN
                      /\ saved[b.dialog] # 0
                      /\ b.kind = "dialog" => b.dialog \notin lost
                      /\ b.kind = "restored" =>
                            /\ b.dialog \in lost /\ saved[b.dialog] > 0
                            /\ b.cseq \in 1 .. MaxCSeq /\ Under(sent'[b.dialog], b.cseq)
                      /\ saved[b.dialog] > 0 =>
                            /\ b.cseq <= saved[b.dialog]
                            /\ localCSeq'[b.dialog] > 0 => localCSeq'[b.dialog] <= b.cseq
                            /\ \A j \in 1 .. i - 1 :
                                  queues'["dialog"][j].dialog = b.dialog =>
                                      queues'["dialog"][j].cseq < b.cseq
    BY <1>0 DEF RequestInv, Below
  <2> DEFINE b == queues'["dialog"][i]
  <2>1. b.dialog \in Dialogs /\ b.cseq \in Int
    BY <1>4, <1>1, <1>5, ElementFacts DEF Kinds
  <2>2. /\ saved[b.dialog] # 0
        /\ b.kind = "dialog" => b.dialog \notin lost
        /\ b.kind = "restored" =>
              /\ b.dialog \in lost /\ saved[b.dialog] > 0
              /\ b.cseq \in 1 .. MaxCSeq /\ Under(sent[b.dialog], b.cseq)
        /\ saved[b.dialog] > 0 =>
              /\ b.cseq <= saved[b.dialog]
              /\ localCSeq[b.dialog] > 0 => localCSeq[b.dialog] <= b.cseq
    BY <1>5 DEF DialogInv, RequestInv, Below
  <2>3. saved[b.dialog] > 0 =>
           \A j \in 1 .. i - 1 : queues'["dialog"][j].dialog = b.dialog =>
                                    queues'["dialog"][j].cseq < b.cseq
    <3>0. Len(queues'["dialog"]) \in Nat
      BY SMT, <1>4 DEF OwnerTypeOK, Kinds
    <3>1. \A j \in 1 .. i - 1 : j \in 1 .. Len(queues'["dialog"]) /\ j + o \in 1 .. (i + o) - 1
      BY SMT, <3>0
    <3> QED
      BY <1>5, <3>1 DEF DialogInv, RequestInv
  <2>4. /\ b.kind = "restored" => Under(sent'[b.dialog], b.cseq)
        /\ saved[b.dialog] > 0 /\ localCSeq'[b.dialog] > 0 => localCSeq'[b.dialog] <= b.cseq
    <3>1. CASE b.dialog = d
      <4>1. /\ b.kind = "restored" => n < b.cseq
            /\ saved[d] > 0 /\ m > 0 => m <= b.cseq
        BY <3>1 DEF SendsBetween
      <4> HIDE DEF b
      <4> QED
        BY <1>2, <1>3, <2>1, <2>2, <3>1, <4>1
    <3>2. CASE b.dialog # d
      <4> HIDE DEF b
      <4> QED
        BY <1>2, <1>3, <2>1, <2>2, <3>2
    <3> QED
      BY <3>1, <3>2
  <2> HIDE DEF b
  <2>5. /\ saved[b.dialog] # 0
        /\ b.kind = "dialog" => b.dialog \notin lost
        /\ b.kind = "restored" => /\ b.dialog \in lost /\ saved[b.dialog] > 0
                                  /\ b.cseq \in 1 .. MaxCSeq
                                  /\ Under(sent'[b.dialog], b.cseq)
        /\ saved[b.dialog] > 0 =>
              /\ b.cseq <= saved[b.dialog]
              /\ localCSeq'[b.dialog] > 0 => localCSeq'[b.dialog] <= b.cseq
              /\ \A j \in 1 .. i - 1 : queues'["dialog"][j].dialog = b.dialog =>
                                          queues'["dialog"][j].cseq < b.cseq
    BY <2>2, <2>3, <2>4
  <2> QED
    BY <2>5 DEF b
<1>11. SavedInv'
  <2>1. ASSUME NEW e \in Dialogs
        PROVE  /\ saved[e] >= -1
               /\ localCSeq'[e] <= MaxCSeq
               /\ localCSeq'[e] > 0 => Under(sent'[e], localCSeq'[e])
               /\ e \in lost => localCSeq'[e] = 0
               /\ saved[e] > 0 =>
                     /\ Under(sent'[e], saved[e] + 1)
                     /\ localCSeq'[e] > 0 => localCSeq'[e] <= saved[e] + 1
    <3>1. /\ saved[e] >= -1 /\ localCSeq[e] <= MaxCSeq
          /\ localCSeq[e] > 0 => Under(sent[e], localCSeq[e])
          /\ e \in lost => localCSeq[e] = 0
          /\ saved[e] > 0 => /\ Under(sent[e], saved[e] + 1)
                             /\ localCSeq[e] > 0 => localCSeq[e] <= saved[e] + 1
          /\ saved[e] \in Int /\ localCSeq[e] \in Int
      BY <1>1 DEF DialogInv, SavedInv, OwnerTypeOK, Below
    <3>2. CASE e # d
      <4>1. localCSeq'[e] = localCSeq[e] /\ sent'[e] = sent[e]
        BY <1>2, <1>3, <3>2
      <4> QED
        BY <3>1, <4>1
    <3>3. CASE e = d
      <4>1. m > 0 => Under(sent'[d], m)
        BY <1>2 DEF Below, SendsBetween
      <4>2. saved[d] > 0 => Under(sent'[d], saved[d] + 1)
        <5>1. saved[d] > 0 => saved[d] + 1 \in Int /\ n < saved[d] + 1
          <6>1. saved[d] > 0 => n <= saved[d]
            BY DEF SendsBetween
          <6>2. saved[d] \in Int
            BY <3>1, <3>3
          <6> QED
            BY SMT, <6>1, <6>2
        <5> QED
          BY <1>2, <3>1, <3>3, <5>1
      <4>3. /\ m <= MaxCSeq /\ (d \in lost => m = 0)
            /\ saved[d] > 0 /\ m > 0 => m <= saved[d] + 1
        BY DEF SendsBetween
      <4> QED
        BY <1>3, <3>1, <3>3, <4>1, <4>2, <4>3
    <3> QED
      BY <3>2, <3>3
  <2>2. ASSUME NEW i \in 1 .. Len(events)
        PROVE  LET e == events[i] IN
               /\ e.cseq > 0
               /\ saved[e.dialog] = 0 =>
                     /\ Under(sent'[e.dialog], e.cseq + 1)
                     /\ localCSeq'[e.dialog] > 0 => localCSeq'[e.dialog] <= e.cseq + 1
    <3>1. events[i].dialog \in Dialogs
      BY <1>1, ElementFacts
    <3>2. saved[events[i].dialog] = 0 => /\ localCSeq'[events[i].dialog] = localCSeq[events[i].dialog]
                                        /\ sent'[events[i].dialog] = sent[events[i].dialog]
      BY <1>2, <1>3, <3>1 DEF SendsBetween
    <3> QED
      BY <3>1, <3>2 DEF DialogInv, SavedInv, Below
  <2> QED
    BY <1>0, <2>1, <2>2 DEF SavedInv, Below
<1> QED
  BY <1>2, <1>4, <1>8, <1>9, <1>10, <1>11 DEF DialogInv

\* The command at the head of a queue is handled.
LEMMA RunCommandKeeps ==
    ASSUME DialogInv, RunCommand
    PROVE  DialogInv'
<1> DEFINE k == Kind
           c == queues[k][1]
           d == c.dialog
<1>1. OwnerTypeOK /\ KindsInv
  BY DEF DialogInv
<1>2. /\ k \in Kinds /\ Takes(k)
      /\ LET h == Head(queues[k]) IN
         \/ h.kind = "invite" /\ RunInvite(h)
         \/ h.kind = "dialog" /\ RunDialog(h)
         \/ h.kind = "restored" /\ RunRestored(h)
         \/ h.kind \in {"message", "response", "subscribe"} /\ UNCHANGED dialogVars
  BY DEF RunCommand, Takes
<1> HIDE DEF k
<1>4. /\ 1 \in 1 .. Len(queues[k]) /\ Head(queues[k]) = c
      /\ Len(queues[k]) \in Nat \ {0} /\ Len(queues'[k]) = Len(queues[k]) - 1
      /\ \A l \in Kinds \ {k} : queues'[l] = queues[l]
      /\ \A i \in 1 .. Len(queues'[k]) :
            i + 1 \in 2 .. Len(queues[k]) /\ queues'[k][i] = queues[k][i + 1]
  <2>1. /\ 1 \in 1 .. Len(queues[k]) /\ Head(queues[k]) = c
        /\ Len(queues[k]) \in Nat \ {0} /\ Len(queues'[k]) = Len(queues[k]) - 1
        /\ \A l \in Kinds \ {k} : queues'[l] = queues[l]
        /\ \A i \in 1 .. Len(queues'[k]) : queues'[k][i] = queues[k][i + 1]
    BY <1>1, <1>2, TakenFacts
  <2>2. \A i \in 1 .. Len(queues'[k]) : i + 1 \in 2 .. Len(queues[k])
    BY SMT, <2>1
  <2> QED
    BY <2>1, <2>2
<1>5. /\ c.kind = "invite" => k = "invite"
      /\ c.kind \in {"dialog", "restored"} => k = "dialog"
      /\ k \in {"invite", "dialog"} => d \in Dialogs
      /\ c.cseq \in Int
  <2>1. c.cseq \in Int
    BY <1>1, <1>2, <1>4, ElementFacts
  <2> QED
    BY <1>1, <1>2, <1>4, <2>1 DEF KindsInv, Kinds
<1>6. CASE UNCHANGED dialogVars
  BY <1>2, <1>6, NothingSentKeeps
<1>7. k \in {"invite", "dialog"} => identity[d] = Used
  BY <1>4, <1>5 DEF DialogInv, FreshInv
<1>8. MaxCSeq \in Nat \ {0} /\ \A x \in Int : x <= MaxCSeq =>
         Increment(x) \in Int /\ Increment(x) <= MaxCSeq /\ (Increment(x) > 0 => Increment(x) = x + 1)
  BY SMT, AllocatorAssumption DEF Increment
<1>9. CASE c.kind = "invite" /\ Sends(d, c.cseq)
  <2>1. k = "invite" /\ d \in Dialogs /\ queues'["dialog"] = queues["dialog"]
    BY <1>4, <1>5, <1>9 DEF Kinds
  <2>2. /\ c.cseq \in 1 .. MaxCSeq
        /\ sent[d] = <<>> /\ saved[d] \in {0, GivenUp} /\ d \notin lost
        /\ \A j \in 1 .. Len(events) : events[j].dialog # d
        /\ \A j \in 1 .. Len(queues["invite"]) : j # 1 => queues["invite"][j].dialog # d
    BY <1>4, <2>1 DEF DialogInv, InviteInv
  <2>3. \A x \in Int : Below(d, x)
    BY SMT, <2>2 DEF Below, Under
  <2>4. \A i \in 1 .. Len(queues'["invite"]) : queues'["invite"][i].dialog # d
    BY SMT, <1>4, <2>1, <2>2
  <2>5. \A i \in 1 .. Len(queues'["dialog"]) :
           queues'["dialog"][i].dialog = d => queues'["dialog"][i].kind # "restored"
    BY <2>1, <2>2 DEF DialogInv, RequestInv
  <2>6. ~(saved[d] > 0)
    BY SMT, <2>2 DEF GivenUp
  <2> DEFINE n == c.cseq
  <2>7. /\ sent' = [sent EXCEPT ![d] = Append(@, n)]
        /\ localCSeq' = [localCSeq EXCEPT ![d] = Increment(n)]
    BY <1>9 DEF Sends
  <2>8. n \in Int /\ n <= MaxCSeq /\ Below(d, n)
    BY SMT, <1>5, <1>8, <2>2, <2>3
  <2> HIDE DEF d, c, n
  <2>9. /\ Increment(n) \in Int /\ Increment(n) <= MaxCSeq
        /\ Increment(n) > 0 => Increment(n) = n + 1
    BY <1>8, <2>8
  <2>10. Increment(n) > 0 => Below(d, Increment(n)) /\ n < Increment(n)
    BY SMT, <2>3, <2>8, <2>9
  <2>11. \A i \in 1 .. Len(queues'["dialog"]) :
            LET b == queues'["dialog"][i] IN
            b.dialog = d => /\ b.kind = "restored" => n < b.cseq
                            /\ saved[d] > 0 /\ Increment(n) > 0 => Increment(n) <= b.cseq
    BY <2>5, <2>6
  <2> QED
    <3>1. SendsBetween(d, n, Increment(n))
      BY <1>7, <2>1, <2>2, <2>4, <2>6, <2>7, <2>8, <2>9, <2>10, <2>11 DEF SendsBetween
    <3> QED
      BY <1>2, <2>1, <2>8, <2>9, <3>1, RequestSentKeeps
<1>10. CASE c.kind = "dialog" /\ localCSeq[d] # 0 /\ Sends(d, localCSeq[d])
  <2> DEFINE n == localCSeq[d]
  <2>1. k = "dialog" /\ d \in Dialogs /\ queues'["invite"] = queues["invite"]
    BY <1>4, <1>5, <1>10 DEF Kinds
  <2>2. /\ saved[d] # 0 /\ d \notin lost
        /\ saved[d] > 0 => c.cseq <= saved[d] /\ (n > 0 => n <= c.cseq)
    BY <1>4, <1>10, <2>1 DEF DialogInv, RequestInv
  <2>3. /\ n \in Int /\ saved[d] \in Int /\ n # 0
        /\ n <= MaxCSeq /\ (n > 0 => Below(d, n))
    BY <1>1, <1>10, <2>1 DEF DialogInv, SavedInv, OwnerTypeOK
  <2>4. \A i \in 1 .. Len(queues'["invite"]) : queues'["invite"][i].dialog # d
    <3>1. \A i \in 1 .. Len(queues["invite"]) : localCSeq[queues["invite"][i].dialog] = 0
      BY DEF DialogInv, InviteInv
    <3> QED
      BY <1>10, <2>1, <3>1
  <2>5. \A i \in 1 .. Len(queues'["dialog"]) :
           LET b == queues'["dialog"][i] IN
           b.dialog = d => /\ b.kind # "restored"
                           /\ saved[d] > 0 => c.cseq < b.cseq /\ b.cseq \in Int
    <3> SUFFICES ASSUME NEW i \in 1 .. Len(queues'["dialog"]),
                        queues'["dialog"][i].dialog = d
                 PROVE  /\ queues'["dialog"][i].kind # "restored"
                        /\ saved[d] > 0 => c.cseq < queues'["dialog"][i].cseq
                                            /\ queues'["dialog"][i].cseq \in Int
      OBVIOUS
    <3>1. /\ i + 1 \in 1 .. Len(queues["dialog"]) /\ 1 \in 1 .. (i + 1) - 1
          /\ queues'["dialog"][i] = queues["dialog"][i + 1]
      BY SMT, <1>4, <2>1
    <3>2. queues["dialog"][i + 1].cseq \in Int
      BY <1>1, <3>1, ElementFacts DEF Kinds
    <3>3. queues["dialog"][i + 1].dialog = d /\ queues["dialog"][1] = c
      BY <2>1, <3>1
    <3>4. /\ queues["dialog"][i + 1].kind = "restored" => d \in lost
          /\ saved[d] > 0 => queues["dialog"][1].cseq < queues["dialog"][i + 1].cseq
      BY <3>1, <3>3 DEF DialogInv, RequestInv
    <3> QED
      BY <2>2, <3>1, <3>2, <3>3, <3>4
  <2>6. /\ sent' = [sent EXCEPT ![d] = Append(@, n)]
        /\ localCSeq' = [localCSeq EXCEPT ![d] = Increment(n)]
    BY <1>10 DEF Sends
  <2> HIDE DEF d, c, n
  <2>7. /\ Increment(n) \in Int /\ Increment(n) <= MaxCSeq
        /\ Increment(n) > 0 => n > 0 /\ n < Increment(n) /\ Increment(n) = n + 1
    BY SMT, <1>8, <2>3
  <2>8. \A x \in Int : n > 0 /\ x = n + 1 => Below(d, x)
    <3>1. sent[d] \in Seq(Int)
      BY <1>1, <2>1 DEF OwnerTypeOK
    <3> QED
      BY SMT, <2>3, <3>1 DEF Below, Under
  <2>9. Increment(n) > 0 => Below(d, Increment(n)) /\ n < Increment(n)
    BY <2>7, <2>8
  <2>10. saved[d] > 0 => n <= saved[d] /\ (Increment(n) > 0 => Increment(n) <= saved[d] + 1)
    BY SMT, <1>5, <2>2, <2>3, <2>7
  <2>11. \A i \in 1 .. Len(queues'["dialog"]) :
            LET b == queues'["dialog"][i] IN
            b.dialog = d => /\ b.kind = "restored" => n < b.cseq
                            /\ saved[d] > 0 /\ Increment(n) > 0 => Increment(n) <= b.cseq
    BY SMT, <1>5, <2>2, <2>3, <2>5, <2>7
  <2> QED
    <3>1. SendsBetween(d, n, Increment(n))
      BY <1>7, <2>1, <2>2, <2>3, <2>4, <2>6, <2>7, <2>9, <2>10, <2>11 DEF SendsBetween
    <3> QED
      BY <1>2, <2>1, <2>3, <2>7, <3>1, RequestSentKeeps
<1>11. CASE /\ c.kind = "restored"
            /\ sent' = [sent EXCEPT ![d] = Append(@, c.cseq)] /\ UNCHANGED localCSeq
  <2>1. k = "dialog" /\ d \in Dialogs /\ queues'["invite"] = queues["invite"]
    BY <1>4, <1>5, <1>11 DEF Kinds
  <2>2. /\ d \in lost /\ saved[d] > 0 /\ c.cseq \in 1 .. MaxCSeq /\ Below(d, c.cseq)
        /\ c.cseq <= saved[d]
    BY <1>4, <1>11, <2>1 DEF DialogInv, RequestInv
  <2>3. localCSeq[d] = 0 /\ saved[d] \in Int
    BY <1>1, <2>1, <2>2 DEF DialogInv, SavedInv, OwnerTypeOK
  <2>4. \A i \in 1 .. Len(queues'["invite"]) : queues'["invite"][i].dialog # d
    <3>1. \A i \in 1 .. Len(queues["invite"]) : queues["invite"][i].dialog \notin lost
      BY DEF DialogInv, InviteInv
    <3> QED
      BY <2>1, <2>2, <3>1
  <2>5. \A i \in 1 .. Len(queues'["dialog"]) :
           queues'["dialog"][i].dialog = d => c.cseq < queues'["dialog"][i].cseq
    <3> SUFFICES ASSUME NEW i \in 1 .. Len(queues'["dialog"]),
                        queues'["dialog"][i].dialog = d
                 PROVE  c.cseq < queues'["dialog"][i].cseq
      OBVIOUS
    <3>1. /\ i + 1 \in 1 .. Len(queues["dialog"]) /\ 1 \in 1 .. (i + 1) - 1
          /\ queues'["dialog"][i] = queues["dialog"][i + 1]
      BY SMT, <1>4, <2>1
    <3>3. queues["dialog"][i + 1].dialog = d /\ queues["dialog"][1] = c
      BY <2>1, <3>1
    <3>4. queues["dialog"][1].cseq < queues["dialog"][i + 1].cseq
      BY <2>2, <3>1, <3>3 DEF DialogInv, RequestInv
    <3> QED
      BY <3>1, <3>3, <3>4
  <2> DEFINE n == c.cseq
             m == localCSeq[d]
  <2>6. /\ sent' = [sent EXCEPT ![d] = Append(@, n)]
        /\ localCSeq' = [localCSeq EXCEPT ![d] = m]
    BY <1>1, <1>11, <2>1 DEF OwnerTypeOK
  <2>7. /\ n \in Int /\ n <= MaxCSeq /\ Below(d, n) /\ n <= saved[d]
        /\ m \in Int /\ m <= MaxCSeq /\ ~(m > 0) /\ m = 0 /\ saved[d] # 0
    <3>1. n \in Int /\ n <= MaxCSeq
      BY SMT, <2>2, AllocatorAssumption
    <3>2. m = 0 /\ saved[d] # 0
      BY SMT, <2>2, <2>3
    <3>3. 0 \in Int /\ 0 <= MaxCSeq /\ ~(0 > 0)
      BY SMT, AllocatorAssumption
    <3>4. Below(d, n) /\ n <= saved[d]
      BY <2>2
    <3>5. m \in Int /\ m <= MaxCSeq /\ ~(m > 0)
      BY <3>2, <3>3
    <3> QED
      BY <3>1, <3>2, <3>4, <3>5
  <2> HIDE DEF d, c, n, m
  <2>8. \A i \in 1 .. Len(queues'["dialog"]) :
           LET b == queues'["dialog"][i] IN
           b.dialog = d => /\ b.kind = "restored" => n < b.cseq
                           /\ saved[d] > 0 /\ m > 0 => m <= b.cseq
    BY <2>5, <2>7 DEF n
  <2> QED
    <3>1. SendsBetween(d, n, m)
      BY <1>7, <2>1, <2>2, <2>4, <2>6, <2>7, <2>8 DEF SendsBetween
    <3> QED
      BY <1>2, <2>1, <2>7, <3>1, RequestSentKeeps
<1> QED
  BY <1>2, <1>4, <1>6, <1>9, <1>10, <1>11 DEF RunInvite, RunDialog, RunRestored

=============================================================================
