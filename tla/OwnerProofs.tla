----------------------------- MODULE OwnerProofs ----------------------------
(***************************************************************************)
(* The CSeqs of a dialog rise, its commands run in the order of their      *)
(* calls, and a poll leaves no command behind.                             *)
(* SIP_CSEQ is an atomic counter whose values do not come back             *)
(* within a cycle. The runtime with its subscriptions is one of OwnerApi,  *)
(* and that uses SIP_CSEQ as CSeqAllocator says: what is proved of the     *)
(* dialogs and of the allocator holds of the whole. A subscription         *)
(* outlives what refers to it, and nothing else, and a report that is owed *)
(* is carried by something.                                                *)
(***************************************************************************)
EXTENDS Subscriptions, DialogProofs

\* A leaf that does not name its prover is first-order reasoning, for Zenon.
USE ZenonT(20)

-----------------------------------------------------------------------------
(* Events, stop and crash.                                                   *)

\* A snapshot has the CSeq before local.cseq, which covers all that was sent.
LEMMA EmitResponseKeeps ==
    ASSUME DialogInv, NEW d \in Dialogs, EmitResponse(d)
    PROVE  DialogInv'
<1> USE DEF allocatorVars, queueVars, appVars, dialogVars
<1> DEFINE n == Snapshot(d)
           ev == [dialog |-> d, cseq |-> n]
<1>1. OwnerTypeOK /\ KindsInv /\ IdentityInv
  BY DEF DialogInv
<1>2. /\ localCSeq[d] > 0 /\ localCSeq[d] \in Int /\ n # 0 /\ n = localCSeq[d] - 1
      /\ events' = Append(events, ev)
      /\ UNCHANGED <<allocatorVars, calling, queueVars, appVars, dialogVars>>
  BY <1>1 DEF EmitResponse, CopiesSnapshot, Snapshot, OwnerTypeOK
<1> HIDE DEF n
<1>3. n \in Int /\ n > 0 /\ n + 1 = localCSeq[d]
  BY SMT, <1>2
<1>4. /\ ev \in EventType /\ ev.dialog = d /\ ev.cseq = n
      /\ events \in Seq(EventType) /\ events' \in Seq(EventType)
  BY SMT, <1>1, <1>2, <1>3 DEF EventType, OwnerTypeOK
<1> HIDE DEF ev
<1>5. \A i \in 1 .. Len(events') :
         \/ i \in 1 .. Len(events) /\ events'[i] = events[i]
         \/ events'[i] = ev
  BY SMT, <1>2, <1>4, AppendFacts
<1>6. OwnerTypeOK' /\ KindsInv' /\ IdentityInv'
  <2>1. OwnerTypeOK'
    BY <1>1, <1>2, <1>4 DEF OwnerTypeOK
  <2>2. KindsInv'
    BY SMT, <1>1, <1>2 DEF KindsInv
  <2>3. IdentityInv'
    BY <1>1, <1>2 DEF IdentityInv
  <2> QED
    BY <2>1, <2>2, <2>3
<1>7. identity[d] = Used
  <2>1. identity[d] # Used => localCSeq[d] = 0
    BY DEF DialogInv, FreshInv
  <2> QED
    BY SMT, <1>2, <2>1
<1>8. FreshInv'
  BY SMT, <1>2, <1>4, <1>5, <1>7 DEF DialogInv, FreshInv
<1>9. InviteInv'
  <2>1. \A i \in 1 .. Len(queues["invite"]) : queues["invite"][i].dialog # d
    BY SMT, <1>2 DEF DialogInv, InviteInv
  <2>2. \A i \in 1 .. Len(queues["invite"]) :
           \A j \in 1 .. Len(events') : events'[j].dialog # queues["invite"][i].dialog
    <3> SUFFICES ASSUME NEW i \in 1 .. Len(queues["invite"]), NEW j \in 1 .. Len(events')
                 PROVE  events'[j].dialog # queues["invite"][i].dialog
      OBVIOUS
    <3>1. \A l \in 1 .. Len(events) : events[l].dialog # queues["invite"][i].dialog
      BY DEF DialogInv, InviteInv
    <3> QED
      BY <1>4, <1>5, <2>1, <3>1
  <2> QED
    BY <1>2, <2>2 DEF DialogInv, InviteInv
<1>10. RequestInv' /\ DialogCSeqRises'
  <2>1. RequestInv'
    BY <1>2 DEF DialogInv, RequestInv, Below
  <2>2. DialogCSeqRises'
    BY <1>2 DEF DialogInv, DialogCSeqRises, CSeqInRange
  <2> QED
    BY <2>1, <2>2
<1>11. Below(d, n + 1) /\ localCSeq[d] <= n + 1
  BY SMT, <1>2, <1>3 DEF DialogInv, SavedInv
<1>12. SavedInv'
  <2>1. ASSUME NEW i \in 1 .. Len(events')
        PROVE  LET e == events'[i] IN
               /\ e.cseq > 0
               /\ saved[e.dialog] = 0 =>
                     /\ Below(e.dialog, e.cseq + 1)
                     /\ localCSeq[e.dialog] > 0 => localCSeq[e.dialog] <= e.cseq + 1
    <3>1. CASE i \in 1 .. Len(events) /\ events'[i] = events[i]
      BY <3>1 DEF DialogInv, SavedInv
    <3>2. CASE events'[i] = ev
      BY <1>3, <1>4, <1>11, <3>2
    <3> QED
      BY <1>5, <3>1, <3>2
  <2> QED
    BY <1>2, <2>1 DEF DialogInv, SavedInv, Below
<1> QED
  BY <1>6, <1>8, <1>9, <1>10, <1>12 DEF DialogInv

\* The application saves a snapshot that is ahead of what it has.
LEMMA TakeEventKeeps ==
    ASSUME DialogInv, TakeEvent
    PROVE  DialogInv'
<1> USE DEF allocatorVars, queueVars, dialogVars
<1> DEFINE ev == events[1]
           d == ev.dialog
           n == ev.cseq
<1>1. OwnerTypeOK /\ KindsInv /\ IdentityInv
  BY DEF DialogInv
<1>2. /\ events \in Seq(EventType) /\ events # <<>>
      /\ events' = Tail(events) /\ events' \in Seq(EventType) /\ Head(events) = ev
      /\ 1 \in 1 .. Len(events) /\ Len(events') = Len(events) - 1 /\ Len(events) \in Nat
      /\ \A i \in 1 .. Len(events) - 1 : events'[i] = events[i + 1]
  <2>1. events \in Seq(EventType) /\ events # <<>> /\ events' = Tail(events)
    BY <1>1 DEF TakeEvent, OwnerTypeOK
  <2> QED
    BY SMT, <2>1, TailFacts
<1>3. \A i \in 1 .. Len(events') : \E j \in 1 .. Len(events) : events'[i] = events[j]
  <2>1. \A i \in 1 .. Len(events') :
           i \in 1 .. Len(events) - 1 /\ i + 1 \in 1 .. Len(events)
    BY SMT, <1>2
  <2> QED
    BY <1>2, <2>1
<1>4. d \in Dialogs /\ n \in Int /\ saved[d] \in Int
  <2>1. d \in Dialogs /\ n \in Int
    BY <1>1, <1>2, ElementFacts
  <2> QED
    BY <1>1, <2>1 DEF OwnerTypeOK
<1>5. /\ saved' = [saved EXCEPT ![d] = IF @ # GivenUp /\ n > @ THEN n ELSE @]
      /\ UNCHANGED <<allocatorVars, calling, queueVars, identity, making, lost, dialogVars>>
  BY <1>2 DEF TakeEvent
<1>6. /\ n > 0
      /\ saved[d] = 0 => /\ Below(d, n + 1) /\ (localCSeq[d] > 0 => localCSeq[d] <= n + 1)
      /\ saved[d] >= -1 /\ identity[d] = Used
  BY <1>2, <1>4 DEF DialogInv, SavedInv, FreshInv
<1>7. \A i \in 1 .. Len(queues["invite"]) : queues["invite"][i].dialog # d
  BY <1>2 DEF DialogInv, InviteInv
<1>8. saved[d] = 0 => \A i \in 1 .. Len(queues["dialog"]) : queues["dialog"][i].dialog # d
  BY DEF DialogInv, RequestInv
<1> HIDE DEF ev, d, n
<1>9. /\ \A e \in Dialogs \ {d} : saved'[e] = saved[e]
      /\ saved'[d] \in Int /\ saved' \in [Dialogs -> Int]
      /\ \/ saved'[d] = saved[d]
         \/ saved[d] >= 0 /\ saved'[d] = n /\ n > saved[d]
  <2>1. saved' \in [Dialogs -> Int] /\ \A e \in Dialogs \ {d} : saved'[e] = saved[e]
    BY <1>1, <1>4, <1>5 DEF OwnerTypeOK
  <2>2. saved'[d] = IF saved[d] # GivenUp /\ n > saved[d] THEN n ELSE saved[d]
    BY <1>1, <1>4, <1>5 DEF OwnerTypeOK
  <2> QED
    BY SMT, <1>4, <1>6, <2>1, <2>2 DEF GivenUp
<1>10. OwnerTypeOK' /\ KindsInv' /\ IdentityInv'
  <2>1. OwnerTypeOK'
    BY <1>1, <1>2, <1>5, <1>9 DEF OwnerTypeOK
  <2>2. KindsInv' /\ IdentityInv'
    BY SMT, <1>1, <1>5 DEF KindsInv, IdentityInv
  <2> QED
    BY <2>1, <2>2
<1>11. FreshInv'
  <2> SUFFICES ASSUME NEW e \in Dialogs, identity[e] # Used
               PROVE  /\ sent[e] = <<>> /\ localCSeq[e] = 0 /\ saved'[e] = 0 /\ e \notin lost
                      /\ \A k \in {"invite", "dialog"} : \A i \in 1 .. Len(queues[k]) :
                            queues[k][i].dialog # e
                      /\ \A i \in 1 .. Len(events') : events'[i].dialog # e
    BY <1>5 DEF FreshInv
  <2>1. saved'[e] = saved[e]
    BY <1>6, <1>9
  <2>2. \A i \in 1 .. Len(events) : events[i].dialog # e
    BY DEF DialogInv, FreshInv
  <2>3. \A i \in 1 .. Len(events') : events'[i].dialog # e
    BY <1>3, <2>2
  <2> QED
    BY <2>1, <2>3 DEF DialogInv, FreshInv
<1>12. InviteInv'
  <2>1. \A i \in 1 .. Len(queues["invite"]) :
           /\ saved'[queues["invite"][i].dialog] = saved[queues["invite"][i].dialog]
           /\ \A j \in 1 .. Len(events') : events'[j].dialog # queues["invite"][i].dialog
    <3> SUFFICES ASSUME NEW i \in 1 .. Len(queues["invite"])
                 PROVE  /\ saved'[queues["invite"][i].dialog] = saved[queues["invite"][i].dialog]
                        /\ \A j \in 1 .. Len(events') :
                              events'[j].dialog # queues["invite"][i].dialog
      OBVIOUS
    <3>1. queues["invite"][i].dialog \in Dialogs \ {d}
      BY <1>1, <1>7 DEF KindsInv
    <3>2. \A j \in 1 .. Len(events) : events[j].dialog # queues["invite"][i].dialog
      BY DEF DialogInv, InviteInv
    <3>3. \A j \in 1 .. Len(events') : events'[j].dialog # queues["invite"][i].dialog
      BY <1>3, <3>2
    <3> QED
      BY <1>9, <3>1, <3>3
  <2> QED
    BY SMT, <1>5, <2>1 DEF DialogInv, InviteInv
<1>13. RequestInv'
  <2> SUFFICES ASSUME NEW i \in 1 .. Len(queues["dialog"])
               PROVE  LET b == queues["dialog"][i] IN
                      /\ saved'[b.dialog] # 0
                      /\ b.kind = "dialog" => b.dialog \notin lost
                      /\ b.kind = "restored" =>
                            /\ b.dialog \in lost /\ saved'[b.dialog] > 0
                            /\ b.cseq \in 1 .. MaxCSeq /\ Below(b.dialog, b.cseq)
                      /\ saved'[b.dialog] > 0 =>
                            /\ b.cseq <= saved'[b.dialog]
                            /\ localCSeq[b.dialog] > 0 => localCSeq[b.dialog] <= b.cseq
                            /\ \A j \in 1 .. i - 1 :
                                  queues["dialog"][j].dialog = b.dialog =>
                                      queues["dialog"][j].cseq < b.cseq
    BY <1>5 DEF RequestInv, Below
  <2> DEFINE b == queues["dialog"][i]
  <2>1. b.dialog \in Dialogs /\ b.cseq \in Int /\ saved[b.dialog] # 0
    <3>1. saved[b.dialog] # 0
      BY DEF DialogInv, RequestInv
    <3> QED
      BY <1>1, <3>1, ElementFacts DEF Kinds
  <2>2. /\ saved[b.dialog] \in Int /\ saved'[b.dialog] \in Int
        /\ saved[b.dialog] <= saved'[b.dialog]
        /\ saved'[b.dialog] > 0 => saved[b.dialog] > 0
        /\ saved'[b.dialog] # 0
    <3>1. saved[b.dialog] \in Int
      BY <1>1, <2>1 DEF OwnerTypeOK
    <3> HIDE DEF b
    <3> QED
      BY SMT, <1>4, <1>6, <1>9, <2>1, <3>1
  <2>3. /\ b.kind = "dialog" => b.dialog \notin lost
        /\ b.kind = "restored" => /\ b.dialog \in lost /\ saved[b.dialog] > 0
                                  /\ b.cseq \in 1 .. MaxCSeq /\ Below(b.dialog, b.cseq)
        /\ saved[b.dialog] > 0 =>
              /\ b.cseq <= saved[b.dialog]
              /\ localCSeq[b.dialog] > 0 => localCSeq[b.dialog] <= b.cseq
              /\ \A j \in 1 .. i - 1 : queues["dialog"][j].dialog = b.dialog =>
                                          queues["dialog"][j].cseq < b.cseq
    BY DEF DialogInv, RequestInv
  <2>4. /\ saved[b.dialog] > 0 => saved'[b.dialog] > 0
        /\ saved'[b.dialog] > 0 => b.cseq <= saved'[b.dialog]
    <3> HIDE DEF b
    <3> QED
      BY SMT, <2>1, <2>2, <2>3
  <2>5. saved'[b.dialog] > 0 =>
           /\ localCSeq[b.dialog] > 0 => localCSeq[b.dialog] <= b.cseq
           /\ \A j \in 1 .. i - 1 : queues["dialog"][j].dialog = b.dialog =>
                                       queues["dialog"][j].cseq < b.cseq
    BY <2>2, <2>3
  <2>6. b.kind = "restored" => /\ b.dialog \in lost /\ saved'[b.dialog] > 0
                               /\ b.cseq \in 1 .. MaxCSeq /\ Below(b.dialog, b.cseq)
    BY <2>3, <2>4
  <2> QED
    BY <2>2, <2>3, <2>4, <2>5, <2>6
<1>14. SavedInv'
  <2>1. ASSUME NEW e \in Dialogs
        PROVE  /\ saved'[e] >= -1
               /\ localCSeq[e] <= MaxCSeq /\ (localCSeq[e] > 0 => Below(e, localCSeq[e]))
               /\ e \in lost => localCSeq[e] = 0
               /\ saved'[e] > 0 =>
                     /\ Below(e, saved'[e] + 1)
                     /\ localCSeq[e] > 0 => localCSeq[e] <= saved'[e] + 1
    <3>1. /\ saved[e] >= -1
          /\ localCSeq[e] <= MaxCSeq /\ (localCSeq[e] > 0 => Below(e, localCSeq[e]))
          /\ e \in lost => localCSeq[e] = 0
          /\ saved[e] > 0 => /\ Below(e, saved[e] + 1)
                             /\ localCSeq[e] > 0 => localCSeq[e] <= saved[e] + 1
      BY DEF DialogInv, SavedInv
    <3>2. CASE saved'[e] = saved[e]
      BY <3>1, <3>2
    <3>3. CASE e = d /\ saved[d] >= 0 /\ saved'[d] = n /\ n > saved[d]
      <4>1. sent[d] \in Seq(Int) /\ localCSeq[d] \in Int
        BY <1>1, <1>4 DEF OwnerTypeOK
      <4>2. CASE saved[d] = 0
        BY SMT, <1>4, <1>6, <3>1, <3>3, <4>2
      <4>3. CASE saved[d] > 0
        <5>1. Below(d, n + 1)
          BY SMT, <1>4, <3>1, <3>3, <4>1, <4>3 DEF Below, Under
        <5> QED
          BY SMT, <1>4, <1>6, <3>1, <3>3, <4>1, <4>3, <5>1
      <4> QED
        BY SMT, <1>4, <3>3, <4>2, <4>3
    <3> QED
      BY <1>9, <3>2, <3>3
  <2>2. ASSUME NEW i \in 1 .. Len(events')
        PROVE  LET e == events'[i] IN
               /\ e.cseq > 0
               /\ saved'[e.dialog] = 0 =>
                     /\ Below(e.dialog, e.cseq + 1)
                     /\ localCSeq[e.dialog] > 0 => localCSeq[e.dialog] <= e.cseq + 1
    <3>1. PICK j \in 1 .. Len(events) : events'[i] = events[j]
      BY <1>3
    <3>2. events[j].dialog \in Dialogs
      BY <1>1, ElementFacts
    <3>3. saved'[events[j].dialog] = 0 => saved[events[j].dialog] = 0
      BY SMT, <1>4, <1>6, <1>9, <3>2
    <3> QED
      BY <3>1, <3>3 DEF DialogInv, SavedInv
  <2> QED
    BY <1>5, <2>1, <2>2 DEF SavedInv, Below
<1>15. DialogCSeqRises'
  BY <1>5 DEF DialogInv, DialogCSeqRises, CSeqInRange
<1> QED
  BY <1>10, <1>11, <1>12, <1>13, <1>14, <1>15 DEF DialogInv

\* What ends a runtime leaves only what was sent and what was saved.
LEMMA RuntimeGoneKeeps ==
    ASSUME DialogInv, RuntimeGone, OwnerTypeOK', IdentityInv',
           current'[Owner] # Idle => current[Owner] # Idle /\ calling = NoCall,
           \A d \in Dialogs : identity'[d] = Used <=> identity[d] = Used,
           events' = events \/ events' = <<>>,
           UNCHANGED <<saved, sent>>
    PROVE  DialogInv'
<1>1. /\ \A k \in Kinds : queues'[k] = <<>>
      /\ \A d \in Dialogs : localCSeq'[d] = 0
      /\ lost' = {d \in Dialogs : identity[d] = Used} /\ calling' = NoCall
  BY DEF RuntimeGone
<1>2. queues'["invite"] = <<>> /\ queues'["dialog"] = <<>>
  BY <1>1 DEF Kinds
<1>3. KindsInv'
  BY SMT, <1>1 DEF KindsInv, Kinds, DialogInv
<1>4. \A i \in 1 .. Len(events') : i \in 1 .. Len(events) /\ events'[i] = events[i]
  BY SMT
<1>5. FreshInv'
  BY SMT, <1>1, <1>2, <1>4 DEF DialogInv, FreshInv
<1>6. InviteInv' /\ RequestInv'
  BY SMT, <1>2 DEF InviteInv, RequestInv
<1>7. SavedInv'
  <2>1. \A d \in Dialogs : saved[d] >= -1 /\ (saved[d] > 0 => Below(d, saved[d] + 1))
    BY DEF DialogInv, SavedInv
  <2>2. \A i \in 1 .. Len(events') :
           /\ events'[i].cseq > 0 /\ events'[i].dialog \in Dialogs
           /\ saved[events'[i].dialog] = 0 => Below(events'[i].dialog, events'[i].cseq + 1)
    BY <1>4, ElementFacts DEF DialogInv, SavedInv
  <2>3. 0 <= MaxCSeq /\ ~(0 > 0)
    BY SMT, AllocatorAssumption
  <2> QED
    BY <1>1, <2>1, <2>2, <2>3 DEF SavedInv, Below
<1>8. DialogCSeqRises'
  BY DEF DialogInv, DialogCSeqRises, CSeqInRange
<1> QED
  BY <1>3, <1>5, <1>6, <1>7, <1>8 DEF DialogInv

\* A stop and a crash end the runtime.
LEMMA EndsKeep ==
    ASSUME DialogInv, StopRuntime \/ Crash
    PROVE  DialogInv'
<1>1. OwnerTypeOK /\ KindsInv /\ IdentityInv
  BY DEF DialogInv
<1>2. CASE StopRuntime
  <2>1. /\ RuntimeGone /\ calling = NoCall
        /\ UNCHANGED <<sequence, current, granted, calls, identity, making, saved, sent, events>>
    BY <1>2 DEF StopRuntime, allocatorVars
  <2>2. OwnerTypeOK'
    BY SMT, <1>1, <2>1 DEF OwnerTypeOK, RuntimeGone
  <2>3. IdentityInv'
    BY <1>1, <2>1 DEF IdentityInv
  <2> QED
    BY <2>1, <2>2, <2>3, RuntimeGoneKeeps
<1>3. CASE Crash
  <2>1. /\ RuntimeGone /\ events' = <<>>
        /\ sequence' \in Nat /\ current' = [t \in Callers |-> Idle] /\ granted' \in Seq(Int)
        /\ identity' = [d \in Dialogs |-> IF identity[d] = Used THEN Used ELSE 0]
        /\ making' = [t \in Callers |-> NoDialog]
        /\ UNCHANGED <<calls, saved, sent>>
    BY SMT, <1>1, <1>3, AllocatorAssumption DEF Crash, RestartProcess, AllocatorInit, OwnerTypeOK
  <2>2. OwnerTypeOK'
    <3>1. identity' \in [Dialogs -> -1 .. MaxCSeq]
      BY SMT, <2>1, AllocatorAssumption DEF Used
    <3> QED
      BY SMT, <1>1, <2>1, <3>1 DEF OwnerTypeOK, RuntimeGone, Idle
  <2>3. IdentityInv'
    BY <2>1, OwnerAssumption DEF IdentityInv, NoDialog
  <2>4. \A d \in Dialogs : identity'[d] = Used <=> identity[d] = Used
    BY SMT, <2>1 DEF Used
  <2>5. current'[Owner] = Idle
    BY <2>1, OwnerAssumption
  <2> QED
    BY <2>1, <2>2, <2>3, <2>4, <2>5, RuntimeGoneKeeps
<1> QED
  BY <1>2, <1>3

-----------------------------------------------------------------------------
(* Every step keeps the invariant of the dialogs.                            *)

\* Every step of the owner, the other threads and the application keeps the invariant.
LEMMA DialogNext == DialogInv /\ [OwnerNext]_ownerVars => DialogInv'
<1> SUFFICES ASSUME DialogInv, [OwnerNext]_ownerVars PROVE DialogInv'
  OBVIOUS
<1>1. CASE \E r \in Requests : Call(r)
  BY <1>1, PlainCallsKeep, SendInviteKeeps, RequestCallsKeep DEF Call
<1>2. CASE Threads
  BY <1>2, ThreadsKeep
<1>3. CASE PollGoesOn \/ StartAgain \/ UNCHANGED ownerVars
  <2>1. UNCHANGED <<sequence, current, granted, calling, queues, calls, identity, making, saved,
                    lost, localCSeq, sent, events>>
    BY <1>3 DEF PollGoesOn, StartAgain, ownerVars, allocatorVars, queueVars, appVars, dialogVars
  <2>2. OwnerTypeOK'
    BY <2>1 DEF DialogInv, OwnerTypeOK
  <2>3. KindsInv' /\ IdentityInv'
    BY SMT, <2>1 DEF DialogInv, KindsInv, IdentityInv
  <2> QED
    BY <2>1, <2>2, <2>3, QuietKeeps DEF dialogVars
<1>4. CASE RunCommand
  BY <1>4, RunCommandKeeps
<1>5. CASE \E d \in Dialogs : EmitResponse(d)
  BY <1>5, EmitResponseKeeps
<1>6. CASE TakeEvent
  BY <1>6, TakeEventKeeps
<1>7. CASE StopRuntime \/ Crash
  BY <1>7, EndsKeep
<1> QED
  BY <1>1, <1>2, <1>3, <1>4, <1>5, <1>6, <1>7 DEF OwnerNext

\* The CSeqs of a dialog rise over any number of requests, responses, stops and crashes,
\* whatever the dialogs, the threads and the bounds: the dialog that PJSIP counts and the
\* one that send_restored_dialog_request restores from the saved CSeq never use one twice.
THEOREM DialogCSeqRisesCorrect == OwnerSpec => []DialogCSeqRises
<1>1. DialogInv => DialogCSeqRises
  BY DEF DialogInv
<1> QED
  BY <1>1, DialogInit, DialogNext, PTL DEF OwnerSpec

-----------------------------------------------------------------------------
(* SIP_CSEQ, for any number of threads, maximum and allocations.             *)

CSeqs == 1 .. MaxCSeq

\* The counter holds the value handed out last.
CounterInv ==
    /\ granted \in Seq(CSeqs)
    /\ current \in [Callers -> Int]
    /\ sequence = IF granted = <<>> THEN 0 ELSE granted[Len(granted)]

\* Two values less than a cycle apart differ by their distance, less a wrap.
CycleInv ==
    \A i, j \in 1 .. Len(granted) :
        i < j /\ j - i < MaxCSeq
            => \/ granted[j] = granted[i] + (j - i)
               \/ granted[j] = granted[i] + (j - i) - MaxCSeq

\* At the start nothing is handed out.
LEMMA CounterInit == AllocatorInit => CounterInv /\ CycleInv
BY SMT, AllocatorAssumption DEF AllocatorInit, CounterInv, CycleInv, CSeqs, Idle

\* What an exchange that succeeds does to the history.
LEMMA CounterStep ==
    ASSUME CounterInv, NEW t \in Callers, Exchange(t)
    PROVE  /\ NextValue(sequence) \in 1 .. MaxCSeq
           /\ granted' = Append(granted, NextValue(sequence))
           /\ sequence' = NextValue(sequence)
           /\ CounterInv'
<1>1. sequence \in 0 .. MaxCSeq
  BY SMT, AllocatorAssumption DEF CounterInv, CSeqs
<1>2. NextValue(sequence) \in 1 .. MaxCSeq
  BY SMT, <1>1, AllocatorAssumption DEF NextValue
<1>3. /\ granted' = Append(granted, NextValue(sequence))
      /\ sequence' = NextValue(sequence)
  BY DEF Exchange
<1>4. granted' \in Seq(CSeqs) /\ granted' # <<>>
      /\ granted'[Len(granted')] = NextValue(sequence)
  BY SMT, <1>2, <1>3 DEF CounterInv, CSeqs
<1>5. current' \in [Callers -> Int]
  BY SMT DEF Exchange, CounterInv, Idle
<1> QED
  BY <1>2, <1>3, <1>4, <1>5 DEF CounterInv

\* Every step of the threads keeps what the counter holds.
LEMMA CounterNext ==
    ASSUME CounterInv, [AllocatorNext]_allocatorVars
    PROVE  CounterInv'
<1>1. CASE UNCHANGED allocatorVars
  BY <1>1 DEF allocatorVars, CounterInv
<1>2. ASSUME NEW t \in Callers, Exchange(t) PROVE CounterInv'
  BY <1>2, CounterStep
<1>3. ASSUME NEW t \in Callers, Load(t) \/ ExchangeFails(t) PROVE CounterInv'
  <2>1. Held \subseteq Int
    BY SMT, AllocatorAssumption DEF Held, CounterInv, CSeqs
  <2> QED
    BY <1>3, <2>1 DEF Load, ExchangeFails, CounterInv
<1>4. CASE RestartProcess
  BY SMT, <1>4, AllocatorAssumption DEF RestartProcess, CounterInv, CSeqs, Idle
<1> QED
  BY <1>1, <1>2, <1>3, <1>4 DEF AllocatorNext

\* Append keeps what is there.
LEMMA AppendKeeps ==
    ASSUME NEW S, NEW s \in Seq(S), NEW e \in S
    PROVE  /\ Len(s) \in Nat /\ Len(Append(s, e)) = Len(s) + 1
           /\ \A i \in 1 .. Len(s) : s[i] \in S /\ Append(s, e)[i] = s[i]
           /\ Append(s, e)[Len(s) + 1] = e
BY SMT

\* The arithmetic of a step: b is m after a, or m less a wrap; c succeeds b.
LEMMA CycleStep ==
    ASSUME NEW a \in 1 .. MaxCSeq, NEW b \in 1 .. MaxCSeq, NEW m \in Nat, m + 1 < MaxCSeq,
           b = a + m \/ b = a + m - MaxCSeq,
           NEW c, c = IF b >= MaxCSeq THEN 1 ELSE b + 1
    PROVE  c = a + (m + 1) \/ c = a + (m + 1) - MaxCSeq
BY SMT, AllocatorAssumption

\* ... and the distances of the values handed out.
LEMMA CycleNext ==
    ASSUME CounterInv, CycleInv, [AllocatorNext]_allocatorVars
    PROVE  CycleInv'
<1>1. CASE UNCHANGED granted
  BY <1>1 DEF CycleInv
<1>2. ASSUME NEW t \in Callers, Exchange(t) PROVE CycleInv'
  <2> DEFINE n == Len(granted)
             v == NextValue(sequence)
  <2>0. v \in CSeqs /\ granted' = Append(granted, v) /\ granted \in Seq(CSeqs)
    BY <1>2, CounterStep DEF CounterInv, CSeqs
  <2> HIDE DEF v
  <2>1. /\ n \in Nat /\ Len(granted') = n + 1
        /\ \A i \in 1 .. n : granted[i] \in CSeqs /\ granted'[i] = granted[i]
        /\ granted'[n + 1] = v
    BY SMT, <2>0, AppendKeeps
  <2> SUFFICES ASSUME NEW i \in 1 .. n + 1, NEW j \in 1 .. n + 1, i < j, j - i < MaxCSeq
               PROVE  \/ granted'[j] = granted'[i] + (j - i)
                      \/ granted'[j] = granted'[i] + (j - i) - MaxCSeq
    BY <2>1 DEF CycleInv
  <2> HIDE DEF n
  <2>2. i \in 1 .. n
    BY SMT, <2>1
  <2>3. CASE j \in 1 .. n
    BY <2>1, <2>2, <2>3 DEF CycleInv, n
  <2>4. CASE j = n + 1
    <3>1. sequence = granted[n] /\ granted[n] \in 1 .. MaxCSeq
      BY SMT, <2>1, <2>2 DEF CounterInv, CSeqs, n
    <3>2. v = IF granted[n] >= MaxCSeq THEN 1 ELSE granted[n] + 1
      BY <3>1 DEF v, NextValue
    <3>3. granted[i] \in 1 .. MaxCSeq /\ n - i \in Nat /\ (n - i) + 1 = j - i
          /\ granted'[j] = v /\ granted'[i] = granted[i]
      BY SMT, <2>1, <2>2, <2>4 DEF CSeqs
    <3>4. granted[n] = granted[i] + (n - i) \/ granted[n] = granted[i] + (n - i) - MaxCSeq
      <4>1. CASE i = n
        BY SMT, <4>1, <2>1, <3>1, <3>3
      <4>2. CASE i < n
        BY SMT, <2>1, <2>2, <2>4, <4>2, AllocatorAssumption DEF CycleInv, n
      <4> QED
        BY SMT, <2>1, <2>2, <4>1, <4>2
    <3>5. v = granted[i] + ((n - i) + 1) \/ v = granted[i] + ((n - i) + 1) - MaxCSeq
      BY <3>1, <3>2, <3>3, <3>4, CycleStep
    <3> QED
      BY <3>3, <3>5
  <2> QED
    BY SMT, <2>1, <2>3, <2>4
<1>3. CASE RestartProcess
  BY SMT, <1>3 DEF RestartProcess, CycleInv
<1> QED
  BY <1>1, <1>2, <1>3 DEF AllocatorNext, allocatorVars, Load, ExchangeFails

\* The loop is an atomic counter, for any threads and any maximum: a step of a
\* caller is a grant of the next value or none at all.
THEOREM AllocatorCountsAtomically == AllocatorSpec => CountsAtomically
<1>1. AllocatorInit => Atomic!Init
  BY DEF AllocatorInit, Atomic!Init
<1>2. ASSUME CounterInv, [AllocatorNext]_allocatorVars
      PROVE  [Atomic!Grant \/ Atomic!Restart]_granted
  <2>1. ASSUME NEW t \in Callers, Exchange(t) PROVE Atomic!Grant
    BY <1>2, <2>1, CounterStep
       DEF CounterInv, Atomic!Grant, Atomic!Successor, Atomic!Latest, NextValue
  <2>2. CASE RestartProcess
    BY <2>2 DEF RestartProcess, Atomic!Restart
  <2>3. CASE UNCHANGED granted
    BY <2>3
  <2> QED
    BY <1>2, <2>1, <2>2, <2>3 DEF AllocatorNext, allocatorVars, Load, ExchangeFails
<1> QED
  BY <1>1, <1>2, CounterInit, CounterNext, PTL
     DEF AllocatorSpec, CountsAtomically, Atomic!Spec

\* No CSeq is handed out twice within a cycle of MaxCSeq allocations.
THEOREM AllocatorDistinctInCycle == AllocatorSpec => []DistinctInCycle
<1>1. CounterInv /\ CycleInv => DistinctInCycle
  <2> SUFFICES ASSUME CounterInv, CycleInv,
                      NEW i \in 1 .. Len(granted), NEW j \in 1 .. Len(granted),
                      i < j, j - i < MaxCSeq
               PROVE  granted[i] # granted[j]
    BY DEF DistinctInCycle
  <2>1. granted[i] \in CSeqs /\ Len(granted) \in Nat
    BY SMT DEF CounterInv
  <2>2. \/ granted[j] = granted[i] + (j - i)
        \/ granted[j] = granted[i] + (j - i) - MaxCSeq
    BY DEF CycleInv
  <2> QED
    BY SMT, <2>1, <2>2, AllocatorAssumption DEF CSeqs
<1> QED
  BY <1>1, CounterInit, CounterNext, CycleNext, PTL DEF AllocatorSpec

-----------------------------------------------------------------------------
(* The order of the calls.                                                   *)

\* The numbers of a queue rise, up to that of the last call.
Ordered(s, n) ==
    \A i \in 1 .. Len(s) : s[i].number <= n /\ \A j \in 1 .. i - 1 : s[j].number < s[i].number

\* A request of a dialog was called after its INVITE.
Follow(invites, requests) ==
    \A i \in 1 .. Len(invites), j \in 1 .. Len(requests) :
        invites[i].dialog = requests[j].dialog => invites[i].number < requests[j].number

\* The commands of a dialog have the numbers of their calls: they rise in each queue,
\* and a request that waits with the INVITE of its dialog was called after it.
NumberInv ==
    /\ Ordered(queues["invite"], calls) /\ Ordered(queues["dialog"], calls)
    /\ Follow(queues["invite"], queues["dialog"])

\* A poll that has come to the requests of the dialogs has left no INVITE, and nothing
\* is queued while it lasts.
PollInv ==
    /\ phase \in 0 .. 7
    /\ phase # 0 => current[Owner] = Idle
    /\ phase > 3 => queues["invite"] = <<>>

OrderInv == NumberInv /\ PollInv

\* The numbers in a queue
LEMMA NumbersAreInts ==
    ASSUME NEW s \in Seq(CommandType)
    PROVE  Len(s) \in Nat /\ \A i \in 1 .. Len(s) : s[i].number \in Int
<1>1. \A i \in 1 .. Len(s) : s[i] \in CommandType
  BY SMT
<1> QED
  BY SMT, <1>1 DEF CommandType

\* A command with a number above all others goes to the end of a queue.
LEMMA AppendOrder ==
    ASSUME NEW s \in Seq(CommandType), NEW n \in Int, Ordered(s, n),
           NEW c \in CommandType, c.number = n + 1
    PROVE  Ordered(s, n + 1) /\ Ordered(Append(s, c), n + 1)
<1> DEFINE t == Append(s, c)
<1>1. /\ Len(t) = Len(s) + 1 /\ Len(s) \in Nat /\ t[Len(s) + 1] = c
      /\ \A i \in 1 .. Len(s) : t[i] = s[i]
  BY SMT, AppendFacts
<1>2. \A i \in 1 .. Len(s) : s[i].number \in Int
  BY NumbersAreInts
<1> HIDE DEF t
<1>3. \A i \in 1 .. Len(s) : s[i].number <= n
  BY DEF Ordered
<1>4. ASSUME NEW i \in 1 .. Len(t)
      PROVE  t[i].number <= n + 1 /\ \A j \in 1 .. i - 1 : t[j].number < t[i].number
  <2>1. CASE i \in 1 .. Len(s)
    <3>1. \A j \in 1 .. i - 1 : j \in 1 .. Len(s)
      BY SMT, <1>1, <2>1
    <3>2. \A j \in 1 .. i - 1 : s[j].number < s[i].number
      BY <2>1 DEF Ordered
    <3>3. t[i] = s[i] /\ \A j \in 1 .. i - 1 : t[j] = s[j]
      BY <1>1, <2>1, <3>1
    <3>4. s[i].number <= n + 1
      BY SMT, <1>2, <1>3, <2>1
    <3> QED
      BY <3>2, <3>3, <3>4
  <2>2. CASE i = Len(s) + 1
    <3>1. \A j \in 1 .. i - 1 : j \in 1 .. Len(s)
      BY SMT, <1>1, <2>2
    <3> QED
      BY SMT, <1>1, <1>2, <1>3, <2>2, <3>1
  <2> QED
    BY SMT, <1>1, <2>1, <2>2
<1>5. Ordered(s, n + 1)
  BY SMT, <1>2 DEF Ordered
<1> QED
  BY <1>4, <1>5 DEF Ordered, t

\* The first command leaves a queue.
LEMMA TailOrder ==
    ASSUME NEW s \in Seq(CommandType), s # <<>>, NEW n \in Int, Ordered(s, n)
    PROVE  Ordered(Tail(s), n)
<1> DEFINE t == Tail(s)
<1>1. /\ Len(t) = Len(s) - 1 /\ Len(s) \in Nat \ {0}
      /\ \A i \in 1 .. Len(t) : t[i] = s[i + 1]
  BY TailFacts
<1> HIDE DEF t
<1>2. ASSUME NEW i \in 1 .. Len(t)
      PROVE  t[i].number <= n /\ \A j \in 1 .. i - 1 : t[j].number < t[i].number
  <2>1. i + 1 \in 1 .. Len(s) /\ \A j \in 1 .. i - 1 : j \in 1 .. Len(t) /\ j + 1 \in 1 .. (i + 1) - 1
    BY SMT, <1>1
  <2> QED
    BY <1>1, <2>1 DEF Ordered
<1> QED
  BY <1>2 DEF Ordered, t

\* At the start the queues are empty.
LEMMA OrderInit == OwnerInit => OrderInv
BY SMT, OwnerAssumption DEF OwnerInit, AllocatorInit, OrderInv, NumberInv, PollInv, Kinds, Ordered,
       Follow

\* So the first command of the queue that the poll is at comes before all others of its
\* dialog.
LEMMA OrderImplies ==
    ASSUME DialogInv, OrderInv
    PROVE  CallOrder
<1> SUFFICES ASSUME phase # 0, Kind \in Kinds, queues[Kind] # <<>>,
                    NEW e \in DialogCommands, Head(queues[Kind]) \in DialogCommands,
                    e.dialog = Head(queues[Kind]).dialog
             PROVE  e.number >= Head(queues[Kind]).number
  BY DEF CallOrder
<1> DEFINE c == Head(queues[Kind])
<1>1. /\ queues[Kind] \in Seq(CommandType) /\ queues["invite"] \in Seq(CommandType)
      /\ queues["dialog"] \in Seq(CommandType)
  BY DEF DialogInv, OwnerTypeOK, Kinds
<1>2. c = queues[Kind][1] /\ 1 \in 1 .. Len(queues[Kind]) /\ c \in CommandType
  BY SMT, <1>1, TailFacts
<1>2a. \A x \in DialogCommands :
          \E k \in {"invite", "dialog"} : \E i \in 1 .. Len(queues[k]) : x = queues[k][i]
  BY SMT, <1>1 DEF DialogCommands
<1>2b. PICK k \in {"invite", "dialog"} : \E i \in 1 .. Len(queues[k]) : e = queues[k][i]
  BY <1>2a
<1>3. PICK i \in 1 .. Len(queues[k]) : e = queues[k][i]
  BY <1>2b
<1>4. Kind \in {"invite", "dialog"}
  <2>1. c.kind \in {"invite", "dialog", "restored"}
    <3>1. PICK l \in {"invite", "dialog"} : \E j \in 1 .. Len(queues[l]) : c = queues[l][j]
      BY <1>2a
    <3>2. \A j \in 1 .. Len(queues[l]) : queues[l][j].kind \in {"invite", "dialog", "restored"}
      BY SMT DEF DialogInv, KindsInv
    <3> QED
      BY <3>1, <3>2
  <2>2. Kind \in {"message", "response", "subscribe"} => c.kind = Kind
    BY SMT, <1>2 DEF DialogInv, KindsInv
  <2> QED
    BY <2>1, <2>2 DEF Kinds
<1>5. phase \in 1 .. 7 /\ (Kind = "dialog" <=> phase = 4)
  BY SMT DEF OrderInv, PollInv, Kind, PollOrder
<1>6. e.number \in Int /\ c.number \in Int
  BY <1>1, <1>2, <1>3, NumbersAreInts
<1>7. CASE k = Kind
  <2>1. i = 1 \/ 1 \in 1 .. i - 1
    BY SMT, <1>1, <1>3, <1>7
  <2> QED
    BY SMT, <1>2, <1>3, <1>4, <1>6, <1>7, <2>1 DEF OrderInv, NumberInv, Ordered
<1>8. CASE k # Kind
  <2>1. CASE Kind = "dialog"
    BY SMT, <1>1, <1>3, <1>5, <1>8, <2>1 DEF OrderInv, PollInv
  <2>2. CASE Kind = "invite"
    BY SMT, <1>2, <1>3, <1>6, <1>8, <2>2 DEF OrderInv, NumberInv, Follow
  <2> QED
    BY <1>4, <2>1, <2>2
<1> QED
  BY <1>7, <1>8

\* A command that is queued has a number above all others.
LEMMA SubmitOrder ==
    ASSUME DialogInv, NumberInv, NEW r \in Requests, NEW cseq \in Int, Submit(r, cseq),
           r.kind = "invite" => \A i \in 1 .. Len(queues["dialog"]) :
                                    queues["dialog"][i].dialog # r.dialog
    PROVE  NumberInv'
<1> DEFINE c == TheCommand(r, cseq)
           q == QueueOf(r.kind)
           v == queues["invite"]
           d == queues["dialog"]
<1>1. OwnerTypeOK /\ c \in CommandType /\ q \in Kinds /\ calls \in Int
  BY SubmitFacts DEF DialogInv, OwnerTypeOK
<1>0. v \in Seq(CommandType) /\ d \in Seq(CommandType)
  BY DEF DialogInv, OwnerTypeOK, Kinds
<1>2. CASE UNCHANGED queueVars
  BY <1>2 DEF queueVars, NumberInv
<1>3. CASE ShimAccepts(r)
  <2>1. queues'[q] = Append(queues[q], c) /\ \A k \in Kinds \ {q} : queues'[k] = queues[k]
    BY <1>1, <1>3, SubmitFacts
  <2>2. calls' = calls + 1
    BY <1>3 DEF Submit
  <2>3. c.number = calls + 1 /\ c.dialog = r.dialog
    BY DEF TheCommand
  <2>4. q = "invite" => r.kind = "invite"
    BY RequestsAssumption DEF QueueOf
  <2>5. Ordered(v, calls) /\ Ordered(d, calls) /\ Follow(v, d)
    BY DEF NumberInv
  <2>6. /\ Ordered(v, calls + 1) /\ Ordered(Append(v, c), calls + 1)
        /\ Ordered(d, calls + 1) /\ Ordered(Append(d, c), calls + 1)
    BY <1>0, <1>1, <2>3, <2>5, AppendOrder
  <2>7. ASSUME q = "invite" PROVE Follow(Append(v, c), d)
    <3>1. /\ Len(Append(v, c)) = Len(v) + 1 /\ Len(v) \in Nat /\ Append(v, c)[Len(v) + 1] = c
          /\ \A i \in 1 .. Len(v) : Append(v, c)[i] = v[i]
      BY SMT, <1>0, <1>1, AppendFacts
    <3> QED
      BY SMT, <2>3, <2>4, <2>5, <2>7, <3>1 DEF Follow
  <2>8. Follow(v, Append(d, c))
    <3>1. /\ Len(Append(d, c)) = Len(d) + 1 /\ Len(d) \in Nat /\ Append(d, c)[Len(d) + 1] = c
          /\ \A i \in 1 .. Len(d) : Append(d, c)[i] = d[i]
      BY SMT, <1>0, <1>1, AppendFacts
    <3>2. \A i \in 1 .. Len(v) : v[i].number \in Int /\ v[i].number <= calls
      BY <1>0, <2>5, NumbersAreInts DEF Ordered
    <3> QED
      BY SMT, <1>1, <2>3, <2>5, <3>1, <3>2 DEF Follow
  <2>9. \/ q = "invite" /\ queues'["invite"] = Append(v, c) /\ queues'["dialog"] = d
        \/ queues'["invite"] = v /\ queues'["dialog"] = Append(d, c)
        \/ queues'["invite"] = v /\ queues'["dialog"] = d
    BY <2>1 DEF Kinds
  <2> HIDE DEF c, q
  <2> QED
    BY <2>2, <2>5, <2>6, <2>7, <2>8, <2>9 DEF NumberInv
<1> QED
  BY <1>2, <1>3 DEF Submit

\* Taking the first command of a queue leaves the others in order.
LEMMA TakeOrder ==
    ASSUME DialogInv, OrderInv, RunCommand
    PROVE  OrderInv'
<1> DEFINE v == queues["invite"]
           d == queues["dialog"]
<1>1. /\ phase' = phase /\ calls' = calls /\ current' = current /\ Kind \in Kinds
      /\ queues[Kind] # <<>> /\ queues' = [queues EXCEPT ![Kind] = Tail(@)]
  BY DEF RunCommand, allocatorVars
<1>2. v \in Seq(CommandType) /\ d \in Seq(CommandType) /\ calls \in Int
  BY DEF DialogInv, OwnerTypeOK, Kinds
<1>3. /\ queues'[Kind] = Tail(queues[Kind])
      /\ \A k \in Kinds \ {Kind} : queues'[k] = queues[k]
  BY <1>1 DEF DialogInv, OwnerTypeOK
<1>4. \/ Kind = "invite" /\ queues'["invite"] = Tail(v) /\ queues'["dialog"] = d
      \/ Kind = "dialog" /\ queues'["invite"] = v /\ queues'["dialog"] = Tail(d)
      \/ queues'["invite"] = v /\ queues'["dialog"] = d
  BY <1>1, <1>3 DEF Kinds
<1>5. Ordered(v, calls) /\ Ordered(d, calls) /\ Follow(v, d)
  BY DEF OrderInv, NumberInv
<1>6. NumberInv'
  <2>1. CASE Kind = "invite" /\ queues'["invite"] = Tail(v) /\ queues'["dialog"] = d
    <3>1. Ordered(Tail(v), calls)
      BY <1>1, <1>2, <1>5, <2>1, TailOrder
    <3>2. Follow(Tail(v), d)
      <4>1. /\ Len(Tail(v)) = Len(v) - 1 /\ Len(v) \in Nat \ {0}
            /\ \A i \in 1 .. Len(v) - 1 : Tail(v)[i] = v[i + 1]
        BY <1>1, <1>2, <2>1, TailFacts
      <4> QED
        BY SMT, <1>5, <4>1 DEF Follow
    <3> QED
      BY <1>1, <1>5, <2>1, <3>1, <3>2 DEF NumberInv
  <2>2. CASE Kind = "dialog" /\ queues'["invite"] = v /\ queues'["dialog"] = Tail(d)
    <3>1. Ordered(Tail(d), calls)
      BY <1>1, <1>2, <1>5, <2>2, TailOrder
    <3>2. Follow(v, Tail(d))
      <4>1. /\ Len(Tail(d)) = Len(d) - 1 /\ Len(d) \in Nat \ {0}
            /\ \A i \in 1 .. Len(d) - 1 : Tail(d)[i] = d[i + 1]
        BY <1>1, <1>2, <2>2, TailFacts
      <4> QED
        BY SMT, <1>5, <4>1 DEF Follow
    <3> QED
      BY <1>1, <1>5, <2>2, <3>1, <3>2 DEF NumberInv
  <2>3. CASE queues'["invite"] = v /\ queues'["dialog"] = d
    BY <1>1, <1>5, <2>3 DEF NumberInv
  <2> QED
    BY <1>4, <2>1, <2>2, <2>3
<1>7. phase > 3 => queues'["invite"] = <<>>
  <2>1. phase > 3 => Kind # "invite"
    BY SMT DEF OrderInv, PollInv, Kind, PollOrder
  <2> QED
    BY <1>4, <2>1 DEF OrderInv, PollInv
<1> QED
  BY <1>1, <1>6, <1>7 DEF OrderInv, PollInv

\* The parts that a poll has before it
Due ==
    {q \in phase + 1 .. Len(PollOrder) : PollOrder[q] \in Kinds => queues[PollOrder[q]] # <<>>}

\* A poll goes on with the first of them, and ends when there is none.
LEMMA FirstDue ==
    ASSUME phase \in 0 .. 7
    PROVE  /\ \A q \in Due : q \in 1 .. 7 /\ q > phase
           /\ Due = {} => After(phase) = 0
           /\ Due # {} => After(phase) \in Due /\ \A r \in Due : After(phase) <= r
<1>1. After(phase) = IF Due = {} THEN 0 ELSE CHOOSE q \in Due : \A r \in Due : q <= r
  BY DEF After, Due
<1>2. Len(PollOrder) = 7
  BY DEF PollOrder
<1>3. \A q \in Due : q \in 1 .. 7 /\ q > phase
  BY SMT, <1>2 DEF Due
<1>4. Due # {} => \E q \in Due : \A r \in Due : q <= r
  <2> SUFFICES ASSUME Due # {} PROVE \E q \in Due : \A r \in Due : q <= r
    OBVIOUS
  <2>1. CASE \E q \in Due : q <= 3
    <3>1. CASE 1 \in Due
      BY SMT, <1>3, <3>1
    <3>2. CASE 1 \notin Due /\ 2 \in Due
      BY SMT, <1>3, <3>2
    <3>3. CASE 1 \notin Due /\ 2 \notin Due /\ 3 \in Due
      BY SMT, <1>3, <3>3
    <3> QED
      BY SMT, <1>3, <2>1, <3>1, <3>2, <3>3
  <2>2. CASE \A q \in Due : q > 3
    <3>1. CASE 4 \in Due
      BY SMT, <1>3, <2>2, <3>1
    <3>2. CASE 4 \notin Due /\ 5 \in Due
      BY SMT, <1>3, <2>2, <3>2
    <3>3. CASE 4 \notin Due /\ 5 \notin Due
      BY SMT, <1>3, <2>2, <3>3
    <3> QED
      BY <3>1, <3>2, <3>3
  <2> QED
    BY SMT, <1>3, <2>1, <2>2
<1> QED
  BY <1>1, <1>3, <1>4

\* A poll goes from one part to the next that has something to do: it does not go past
\* INVITEs that wait.
LEMMA PollOrderKept ==
    ASSUME DialogInv, OrderInv, PollGoesOn
    PROVE  OrderInv'
<1>1. phase' = After(phase) /\ UNCHANGED <<queues, calls>>
  BY DEF PollGoesOn, queueVars
<1>2. phase \in 0 .. 7
  BY DEF OrderInv, PollInv
<1>3. phase' # 0 => phase' \in Due /\ \A r \in Due : phase' <= r
  BY <1>1, <1>2, FirstDue
<1>4. phase' > 3 => queues["invite"] = <<>>
  <2> SUFFICES ASSUME phase' > 3, queues["invite"] # <<>> PROVE FALSE
    OBVIOUS
  <2>1. PollOrder[3] = "invite" /\ Len(PollOrder) = 7
    BY DEF PollOrder
  <2>2. phase \in 0 .. 2
    <3>1. phase # 3
      BY SMT, <2>1 DEF PollGoesOn, Kind, Kinds
    <3> QED
      BY SMT, <1>2, <3>1 DEF OrderInv, PollInv
  <2>3. 3 \in Due
    BY SMT, <2>1, <2>2 DEF Due
  <2>4. phase' \in 1 .. 7 /\ phase' <= 3
    BY SMT, <1>1, <1>2, <2>3, FirstDue
  <2> QED
    BY SMT, <2>4
<1>5. phase' \in 0 .. 7
  BY SMT, <1>1, <1>2, FirstDue
<1>6. current'[Owner] = Idle
  BY DEF PollGoesOn, allocatorVars, NoCall, DialogInv, KindsInv
<1> QED
  BY <1>1, <1>4, <1>5, <1>6 DEF OrderInv, NumberInv, PollInv

\* Every step of the runtime keeps the order.
LEMMA OrderNext ==
    ASSUME DialogInv, OrderInv, [OwnerNext]_ownerVars
    PROVE  OrderInv'
<1>1. ASSUME NEW r \in Requests, SendInvite(r)
      PROVE  OrderInv'
  <2>1. phase = 0 /\ phase' = phase /\ Submit(r, identity[r.dialog]) /\ r.kind = "invite"
    BY <1>1 DEF SendInvite, Ready
  <2>2. r.dialog \in Dialogs /\ identity[r.dialog] \in Int /\ identity[r.dialog] # Used
    <3>1. r.dialog \in Dialogs
      BY <2>1, RequestsAssumption
    <3>2. identity[r.dialog] \in 1 .. MaxCSeq
      BY <1>1 DEF SendInvite, CSeqInRange
    <3> QED
      BY SMT, <3>1, <3>2, AllocatorAssumption DEF Used
  <2>3. \A i \in 1 .. Len(queues["dialog"]) : queues["dialog"][i].dialog # r.dialog
    BY <2>2 DEF DialogInv, FreshInv
  <2>4. NumberInv'
    BY <2>1, <2>2, <2>3, SubmitOrder DEF OrderInv
  <2> QED
    BY SMT, <2>1, <2>4 DEF OrderInv, PollInv
<1>2. ASSUME NEW r \in Requests, SendDialogRequest(r) \/ SendRestoredDialogRequest(r)
      PROVE  OrderInv'
  <2>1. phase = 0 /\ phase' = phase /\ Submit(r, saved[r.dialog] + 1)
        /\ r.kind \in {"dialog", "restored"}
    BY <1>2 DEF SendDialogRequest, SendRestoredDialogRequest, Ready
  <2>2. saved[r.dialog] + 1 \in Int
    <3>1. r.dialog \in Dialogs
      BY <2>1, RequestsAssumption
    <3>2. saved[r.dialog] \in Int
      BY <3>1 DEF DialogInv, OwnerTypeOK
    <3> QED
      BY SMT, <3>2
  <2>3. NumberInv'
    BY <2>1, <2>2, SubmitOrder DEF OrderInv
  <2> QED
    BY SMT, <2>1, <2>3 DEF OrderInv, PollInv
<1>3. ASSUME NEW r \in Requests, SendMessage(r) \/ RespondInvite(r) \/ SendSubscribe(r)
      PROVE  OrderInv'
  <2>1. phase = 0 /\ phase' = phase /\ r.kind \in {"message", "response", "subscribe"}
        /\ (Submit(r, 0) \/ UNCHANGED queueVars)
    BY <1>3 DEF SendMessage, RespondInvite, SendSubscribe, Ready
  <2>2. NumberInv'
    BY SMT, <2>1, SubmitOrder DEF OrderInv, NumberInv, queueVars
  <2> QED
    BY SMT, <2>1, <2>2 DEF OrderInv, PollInv
<1>4. CASE Threads
  <2>1. PICK t \in Callers : \/ \E d \in Dialogs : GenerateIdentity(t, d)
                             \/ Allocated(t) \/ AllocationRetries(t)
    BY <1>4 DEF Threads
  <2>2. CASE t = Owner /\ Allocated(t)
    <3>1. current[Owner] # Idle /\ phase' = phase /\ Submit(calling, NextValue(current[t]))
          /\ calling \in Requests /\ calling.kind \in {"message", "subscribe"}
      BY <2>2 DEF Allocated, Exchange, DialogInv, KindsInv
    <3>2. NextValue(current[t]) \in Int
      BY SMT DEF NextValue, DialogInv, OwnerTypeOK
    <3>3. NumberInv'
      BY <3>1, <3>2, SubmitOrder DEF OrderInv
    <3> QED
      BY SMT, <3>1, <3>3 DEF OrderInv, PollInv
  <2>3. CASE ~(t = Owner /\ Allocated(t))
    <3>1. phase' = phase /\ UNCHANGED queueVars
      BY <2>1, <2>3 DEF GenerateIdentity, Allocated, AllocationRetries
    <3>2. current[Owner] = Idle => current'[Owner] = Idle
      <4>1. t = Owner => AllocationRetries(t)
        BY <2>1, <2>3 DEF GenerateIdentity
      <4>2. current \in [Callers -> Int]
        BY DEF DialogInv, OwnerTypeOK
      <4> QED
        BY <2>1, <4>1, <4>2, OwnerAssumption
           DEF GenerateIdentity, Allocated, AllocationRetries, Load, Exchange, ExchangeFails
    <3> QED
      BY <3>1, <3>2 DEF OrderInv, NumberInv, PollInv, queueVars
  <2> QED
    BY <2>2, <2>3
<1>5. CASE (\E d \in Dialogs : EmitResponse(d)) \/ TakeEvent \/ UNCHANGED ownerVars \/ StartAgain
  <2>1. UNCHANGED <<allocatorVars, phase, queueVars>>
    BY <1>5 DEF EmitResponse, TakeEvent, StartAgain, ownerVars
  <2> QED
    BY <2>1 DEF OrderInv, NumberInv, PollInv, queueVars, allocatorVars
<1>6. CASE StopRuntime \/ Crash
  <2>1. phase' = 0 /\ queues' = [k \in Kinds |-> <<>>]
    BY <1>6 DEF StopRuntime, Crash, RuntimeGone
  <2> QED
    BY SMT, <2>1 DEF OrderInv, NumberInv, PollInv, Ordered, Follow, Kinds
<1> QED
  BY <1>1, <1>2, <1>3, <1>4, <1>5, <1>6, TakeOrder, PollOrderKept DEF OwnerNext, Call

\* The commands of a dialog run in the order of the calls that queued them, although an
\* INVITE and the requests of its dialog wait in different queues, for any dialogs,
\* requests and bounds (the order in which gmv_process_io_commands works off the queues).
THEOREM CallOrderCorrect == OwnerSpec => []CallOrder
<1> DEFINE Inv == DialogInv /\ OrderInv
<1>1. OwnerInit => Inv
  BY DialogInit, OrderInit
<1>2. Inv /\ [OwnerNext]_ownerVars => Inv'
  BY DialogNext, OrderNext
<1>3. Inv => CallOrder
  BY OrderImplies
<1> HIDE DEF Inv
<1> QED
  BY <1>1, <1>2, <1>3, PTL DEF OwnerSpec

-----------------------------------------------------------------------------
(* What a poll leaves in the queues.                                         *)

\* The queues that a poll has been at are empty.
BehindInv ==
    \A q \in 1 .. 7 : q < phase /\ PollOrder[q] \in Kinds => queues[PollOrder[q]] = <<>>

\* A poll that ends, or is ended by a stop or a crash, leaves no command behind.
PollHandlesAll == phase # 0 /\ phase' = 0 => \A k \in Kinds : queues'[k] = <<>>

\* While a poll lasts nothing is queued.
LEMMA PollTakesOnly ==
    ASSUME DialogInv, OrderInv, [OwnerNext]_ownerVars, phase # 0
    PROVE  \/ phase' = phase /\ UNCHANGED queues
           \/ RunCommand \/ PollGoesOn
           \/ phase' = 0 /\ queues' = [k \in Kinds |-> <<>>]
<1>1. ASSUME NEW r \in Requests, Call(r) PROVE FALSE
  BY <1>1 DEF Call, SendMessage, SendInvite, SendDialogRequest, SendRestoredDialogRequest,
     RespondInvite, SendSubscribe, Ready
<1>2. CASE Threads
  <2>1. PICK t \in Callers : \/ \E d \in Dialogs : GenerateIdentity(t, d)
                             \/ Allocated(t) \/ AllocationRetries(t)
    BY <1>2 DEF Threads
  <2>2. ~(t = Owner /\ Allocated(t))
    BY DEF OrderInv, PollInv, Allocated, Exchange
  <2> QED
    BY <2>1, <2>2 DEF GenerateIdentity, Allocated, AllocationRetries, queueVars
<1>3. CASE (\E d \in Dialogs : EmitResponse(d)) \/ TakeEvent \/ StartAgain \/ UNCHANGED ownerVars
  BY <1>3 DEF EmitResponse, TakeEvent, StartAgain, ownerVars, queueVars
<1>4. CASE StopRuntime \/ Crash
  BY <1>4 DEF StopRuntime, Crash, RuntimeGone
<1> QED
  BY <1>1, <1>2, <1>3, <1>4 DEF OwnerNext

\* A poll goes on only past queues that are empty.
LEMMA GoesOnPast ==
    ASSUME OrderInv, BehindInv, PollGoesOn
    PROVE  /\ UNCHANGED queues
           /\ \A q \in 1 .. 7 : (phase' # 0 => q < phase') /\ PollOrder[q] \in Kinds
                                => queues[PollOrder[q]] = <<>>
<1> SUFFICES ASSUME NEW q \in 1 .. 7, phase' # 0 => q < phase', PollOrder[q] \in Kinds
             PROVE  UNCHANGED queues /\ queues[PollOrder[q]] = <<>>
  BY DEF PollGoesOn, queueVars
<1>1. phase \in 0 .. 7 /\ phase' = After(phase) /\ UNCHANGED queues
  BY DEF OrderInv, PollInv, PollGoesOn, queueVars
<1>2. CASE q < phase
  BY <1>1, <1>2 DEF BehindInv
<1>3. CASE q = phase
  <2>1. phase # 0
    BY SMT, <1>3
  <2> QED
    BY <1>1, <1>3, <2>1 DEF PollGoesOn, Kind
<1>4. CASE q > phase
  <2>1. q \in phase + 1 .. Len(PollOrder)
    BY SMT, <1>1, <1>4 DEF PollOrder
  <2>2. q \notin Due
    <3>1. CASE Due = {}
      BY <3>1
    <3>2. CASE Due # {}
      <4>1. phase' \in Due /\ \A r \in Due : phase' <= r
        BY <1>1, <3>2, FirstDue
      <4>2. phase' \in 1 .. 7 /\ phase' # 0
        BY SMT, <1>1, <4>1, FirstDue
      <4>3. ~(phase' <= q)
        BY SMT, <4>2
      <4> QED
        BY <4>1, <4>3
    <3> QED
      BY <3>1, <3>2
  <2> QED
    BY <1>1, <2>1, <2>2 DEF Due
<1> QED
  BY SMT, <1>1, <1>2, <1>3, <1>4

\* Every step keeps what a poll has been at empty, and a poll ends with all of it.
LEMMA BehindNext ==
    ASSUME DialogInv, OrderInv, BehindInv, [OwnerNext]_ownerVars
    PROVE  BehindInv' /\ PollHandlesAll
<1>1. phase \in 0 .. 7 /\ queues \in [Kinds -> Seq(CommandType)]
  BY DEF OrderInv, PollInv, DialogInv, OwnerTypeOK
<1>2. CASE phase' = 0
  <2>1. BehindInv'
    BY SMT, <1>2 DEF BehindInv
  <2>2. ASSUME phase # 0, NEW k \in Kinds PROVE queues'[k] = <<>>
    <3>1. CASE PollGoesOn
      <4>1. \E q \in 1 .. 7 : PollOrder[q] = k
        BY SMT DEF Kinds, PollOrder
      <4> QED
        BY <1>2, <3>1, <4>1, GoesOnPast
    <3>2. CASE queues' = [l \in Kinds |-> <<>>]
      BY <3>2
    <3>3. ~RunCommand
      BY <1>2, <2>2 DEF RunCommand
    <3> QED
      BY <1>2, <2>2, <3>1, <3>2, <3>3, PollTakesOnly
  <2> QED
    BY <2>1, <2>2 DEF PollHandlesAll
<1>3. CASE phase' # 0
  <2>1. BehindInv'
    <3>1. CASE PollGoesOn
      BY <1>3, <3>1, GoesOnPast DEF BehindInv
    <3>2. CASE phase # 0 /\ RunCommand
      <4>1. phase' = phase /\ queues' = [queues EXCEPT ![Kind] = Tail(@)]
        BY <3>2 DEF RunCommand
      <4>2. \A q \in 1 .. 7 : q < phase => PollOrder[q] # Kind
        BY SMT, <1>1 DEF Kind, PollOrder
      <4> QED
        BY <1>1, <4>1, <4>2 DEF BehindInv
    <3>3. CASE phase' = phase /\ UNCHANGED queues
      BY <3>3 DEF BehindInv
    <3>4. CASE phase = 0 /\ ~PollGoesOn
      <4>1. phase' = 0
        BY <3>4 DEF OwnerNext, Call, SendMessage, SendInvite, SendDialogRequest,
           SendRestoredDialogRequest, RespondInvite, SendSubscribe, Threads, GenerateIdentity,
           Allocated, AllocationRetries, RunCommand, EmitResponse, TakeEvent, StartAgain,
           StopRuntime, Crash, RuntimeGone, ownerVars
      <4> QED
        BY <1>3, <4>1
    <3> QED
      BY <1>3, <3>1, <3>2, <3>3, <3>4, PollTakesOnly
  <2> QED
    BY <1>3, <2>1 DEF PollHandlesAll
<1> QED
  BY <1>2, <1>3

\* A poll works off every command it finds, whatever kinds there are of them, and
\* nothing is queued while it lasts (gmv_process_io_commands).
THEOREM PollHandlesAllCorrect == OwnerSpec => [][PollHandlesAll]_ownerVars
<1> DEFINE Inv == DialogInv /\ OrderInv /\ BehindInv
<1>1. OwnerInit => Inv
  <2>1. OwnerInit => BehindInv
    BY SMT DEF OwnerInit, BehindInv
  <2> QED
    BY <2>1, DialogInit, OrderInit
<1>2. Inv /\ [OwnerNext]_ownerVars => Inv' /\ PollHandlesAll
  BY DialogNext, OrderNext, BehindNext
<1> HIDE DEF Inv
<1> QED
  BY <1>1, <1>2, PTL DEF OwnerSpec

-----------------------------------------------------------------------------
\* A step with the subscriptions is one of the runtime, or changes nothing but them.
LEMMA SubscriptionsStepOwns ==
    ASSUME [SubscriptionsNext]_allVars
    PROVE  [OwnerNext]_ownerVars
<1>1. CASE UNCHANGED allVars
  BY <1>1 DEF allVars
<1>2. CASE \/ (\E r \in Requests : Call(r)) \/ Threads \/ TakeEvent \/ StartAgain
           \/ \E d \in Dialogs : frame = NoFrame /\ EmitResponse(d)
  BY <1>2 DEF OwnerNext
<1>3. CASE PollSteps
  <2>1. CASE PollGoesOn \/ RunCommand
    BY <2>1 DEF OwnerNext
  <2>2. CASE SubscribeRefused \/ \E s \in Subs : SubscribeInitial(s) \/ SubscribeRefresh(s)
    BY <2>1, <2>2 DEF SubscribeRefused, SubscribeInitial, SubscribeRefresh, TakesSubscribe
  <2> QED
    BY <1>3, <2>1, <2>2 DEF PollSteps
<1>4. CASE UNCHANGED ownerVars
  BY <1>4
<1>5. CASE StopRuntime \/ Crash
  BY <1>5 DEF OwnerNext
<1> QED
  BY <1>1, <1>2, <1>3, <1>4, <1>5 DEF SubscriptionsNext

\* The runtime with its subscriptions implements OwnerApi.
THEOREM SubscriptionsImplementOwner == SubscriptionsSpec => OwnerSpec
<1>1. SubscriptionsInit => OwnerInit
  BY DEF SubscriptionsInit
<1>2. [SubscriptionsNext]_allVars => [OwnerNext]_ownerVars
  BY SubscriptionsStepOwns
<1> QED
  BY <1>1, <1>2, PTL DEF SubscriptionsSpec, OwnerSpec

\* The CSeqs of a dialog rise, whatever the subscriptions do between its requests.
THEOREM RuntimeCSeqRises == SubscriptionsSpec => []DialogCSeqRises
BY SubscriptionsImplementOwner, DialogCSeqRisesCorrect, PTL

\* The commands of a dialog run in the order of their calls, whatever SUBSCRIBE requests
\* wait and run between them.
THEOREM RuntimeCallOrder == SubscriptionsSpec => []CallOrder
BY SubscriptionsImplementOwner, CallOrderCorrect, PTL

-----------------------------------------------------------------------------
\* A call of the application loads the counter or leaves it alone.
LEMMA CallAllocates ==
    ASSUME NEW r \in Requests, Call(r)
    PROVE  Load(Owner) \/ UNCHANGED allocatorVars
BY DEF Call, SendMessage, SendInvite, SendDialogRequest, SendRestoredDialogRequest,
       RespondInvite, SendSubscribe

\* So does every other step of the runtime, or it allocates or restarts the process.
LEMMA OwnerStepAllocates ==
    ASSUME [OwnerNext]_ownerVars
    PROVE  [AllocatorNext]_allocatorVars
<1>1. ASSUME NEW r \in Requests, Call(r)
      PROVE  [AllocatorNext]_allocatorVars
  BY <1>1, CallAllocates, OwnerAssumption DEF AllocatorNext
<1>2. CASE Threads
  BY <1>2 DEF Threads, GenerateIdentity, Allocated, AllocationRetries, AllocatorNext
<1>3. CASE \/ TakeEvent \/ StartAgain \/ PollGoesOn \/ RunCommand
           \/ \E d \in Dialogs : EmitResponse(d)
  BY <1>3 DEF TakeEvent, StartAgain, PollGoesOn, RunCommand, EmitResponse
<1>4. CASE StopRuntime \/ Crash
  BY <1>4 DEF StopRuntime, Crash, AllocatorNext
<1>5. CASE UNCHANGED ownerVars
  BY <1>5 DEF ownerVars
<1> QED
  BY <1>1, <1>2, <1>3, <1>4, <1>5 DEF OwnerNext

\* The runtime implements CSeqAllocator.
THEOREM RuntimeAllocates == SubscriptionsSpec => AllocatorSpec
<1>1. OwnerInit => AllocatorInit
  BY DEF OwnerInit
<1>2. [OwnerNext]_ownerVars => [AllocatorNext]_allocatorVars
  BY OwnerStepAllocates
<1> QED
  BY <1>1, <1>2, SubscriptionsImplementOwner, PTL DEF OwnerSpec, AllocatorSpec

\* The CSeqs of MESSAGE, of a first SUBSCRIBE and of SipInviteIdentity::generate are
\* those of an atomic counter, for any number of threads.
THEOREM RuntimeCountsAtomically == SubscriptionsSpec => CountsAtomically
BY RuntimeAllocates, AllocatorCountsAtomically, PTL

-----------------------------------------------------------------------------
(* The subscriptions.                                                        *)

SubType == [operation : Int, association : Nat, set : BOOLEAN, active : Nat,
            cleanup : BOOLEAN, allocated : BOOLEAN]

EvsubType == [state : {"none", "active", "terminated"}, modData : BOOLEAN, open : Int,
              timer : BOOLEAN]

FrameType == [at : {"initial", "refresh", "timer"}, of : Subs,
              tsx : {"none", "open", "reported"}, number : Int]

SubscriptionTypes ==
    /\ sub \in [Subs -> SubType] /\ evsub \in [Subs -> EvsubType]
    /\ listed \in SUBSET Subs /\ (frame = NoFrame \/ frame \in FrameType)

\* A handler is inside PJSIP with the subscription.
InHand(s) == frame # NoFrame /\ frame.of = s

\* A subscription k with evsub e.  One that is listed is whole; one that is not is only
\* there for the handler that holds it, and marked for it to free.  An evsub does not
\* end before the transaction that a handler waits for has reported, which takes the
\* operation away: so the handler finds no ended evsub without an operation.
Consistent(k, e, isListed, held, tsx) ==
    /\ k.active = IF held THEN 1 ELSE 0
    /\ isListed => /\ k.allocated /\ k.set /\ ~k.cleanup
                   /\ e.modData /\ e.state \in {"active", "terminated"}
                   /\ e.state = "terminated" => k.operation # 0
                   /\ held => IF tsx = "reported" THEN k.operation = 0
                              ELSE e.state = "active"
    /\ ~isListed => /\ ~e.modData
                    /\ k.allocated <=> held
                    /\ held => k.cleanup

SubscriptionInv ==
    /\ SubscriptionTypes
    /\ \A s \in Subs : Consistent(sub[s], evsub[s], s \in listed, InHand(s), frame.tsx)

\* What a subscription that was freed, and its evsub, look like.
LEMMA FreedFields ==
    /\ Freed \in SubType /\ Freed.active = 0 /\ ~Freed.allocated /\ Freed.cleanup
    /\ Forgotten \in EvsubType /\ ~Forgotten.modData
<1>1. NoSub \in SubType /\ NoEvsub \in EvsubType
  BY SMT DEF NoSub, SubType, NoEvsub, EvsubType
<1>2. Freed \in SubType /\ Freed.active = 0 /\ ~Freed.allocated /\ Freed.cleanup
  BY <1>1 DEF Freed, NoSub, SubType
<1>3. Forgotten \in EvsubType /\ ~Forgotten.modData
  BY <1>1 DEF Forgotten, NoEvsub, EvsubType
<1> QED
  BY <1>2, <1>3

\* At the start there is no subscription.
LEMMA SubscriptionInit == SubscriptionsInit => SubscriptionInv
<1> SUFFICES ASSUME SubscriptionsInit PROVE SubscriptionInv
  OBVIOUS
<1>1. SubscriptionTypes
  BY SMT DEF SubscriptionsInit, SubscriptionTypes, SubType, EvsubType, NoSub, NoEvsub
<1>2. ASSUME NEW s \in Subs
      PROVE  Consistent(sub[s], evsub[s], s \in listed, InHand(s), frame.tsx)
  <2>1. sub[s] = NoSub /\ evsub[s] = NoEvsub /\ s \notin listed /\ ~InHand(s)
    BY DEF SubscriptionsInit, InHand
  <2> QED
    BY SMT, <2>1 DEF Consistent, NoSub, NoEvsub
<1> QED
  BY <1>1, <1>2 DEF SubscriptionInv

\* What SubscriptionReferences asks for is part of the invariant.
LEMMA SubscriptionReferred == SubscriptionInv => SubscriptionReferences
BY DEF SubscriptionInv, SubscriptionTypes, SubType, EvsubType, SubscriptionReferences,
       InHand, Consistent

\* What is left to show of a step that changes one subscription, and the frame only from
\* or to one that holds it.
LEMMA OneChanges ==
    ASSUME SubscriptionInv, SubscriptionTypes', NEW s \in Subs,
           \A r \in Subs : r # s =>
               sub'[r] = sub[r] /\ evsub'[r] = evsub[r] /\ (r \in listed' <=> r \in listed),
           frame = NoFrame \/ frame.of = s, frame' = NoFrame \/ frame'.of = s,
           Consistent(sub[s], evsub[s], s \in listed, InHand(s), frame.tsx)'
    PROVE  SubscriptionInv'
<1>1. ASSUME NEW r \in Subs, r # s
      PROVE  Consistent(sub[r], evsub[r], r \in listed, InHand(r), frame.tsx)'
  <2>1. ~InHand(r) /\ ~InHand(r)'
    BY <1>1 DEF InHand
  <2>2. Consistent(sub[r], evsub[r], r \in listed, InHand(r), frame.tsx)
    BY DEF SubscriptionInv
  <2> QED
    BY <1>1, <2>1, <2>2 DEF Consistent
<1> QED
  BY <1>1 DEF SubscriptionInv

\* gmv_start_subscription_request on a subscription that is, or becomes, whole
LEMMA StartKeeps ==
    ASSUME SubscriptionInv, NEW s \in Subs, NEW k \in SubType, NEW e \in EvsubType,
           NEW at \in {"initial", "refresh", "timer"}, NEW number \in Int,
           StartRequest(at, s, k, e, number), listed' = listed \cup {s},
           k.active = 0, k.allocated, k.set, ~k.cleanup, e.modData, e.state = "active",
           frame = NoFrame
    PROVE  SubscriptionInv'
<1>1. PICK made \in BOOLEAN :
        /\ sub' = [sub EXCEPT ![s] = [k EXCEPT !.active = @ + 1]]
        /\ evsub' = [evsub EXCEPT ![s] = [e EXCEPT !.open = IF made THEN @ + 1 ELSE @]]
        /\ frame' = [at |-> at, of |-> s, tsx |-> IF made THEN "open" ELSE "none",
                     number |-> number]
  BY DEF StartRequest
<1>2. SubscriptionTypes'
  BY SMT, <1>1 DEF SubscriptionInv, SubscriptionTypes, SubType, EvsubType, FrameType
<1>3. frame' # NoFrame /\ frame'.of = s /\ frame'.tsx # "reported"
  BY <1>1 DEF NoFrame
<1>4. Consistent(sub[s], evsub[s], s \in listed, InHand(s), frame.tsx)'
  BY SMT, <1>1, <1>3 DEF SubscriptionInv, SubscriptionTypes, SubType, EvsubType, InHand, Consistent
<1>5. \A r \in Subs : r # s =>
          sub'[r] = sub[r] /\ evsub'[r] = evsub[r] /\ (r \in listed' <=> r \in listed)
  BY <1>1 DEF SubscriptionInv, SubscriptionTypes
<1> QED
  BY <1>2, <1>3, <1>4, <1>5, OneChanges

\* The transaction of a handler's request reports, and the handler goes on.
LEMMA FrameReports ==
    ASSUME NEW s \in Subs, frame = NoFrame \/ frame.of = s,
           frame' = frame \/ (frame \in FrameType /\ frame' = [frame EXCEPT !.tsx = "reported"])
    PROVE  (InHand(s)' <=> InHand(s)) /\ (frame' = NoFrame \/ frame'.of = s)
<1>1. CASE frame' = frame
  BY <1>1 DEF InHand
<1>2. CASE frame \in FrameType /\ frame' = [frame EXCEPT !.tsx = "reported"]
  <2>1. frame # NoFrame /\ frame' # NoFrame /\ frame'.of = frame.of
    BY SMT, <1>2 DEF FrameType, NoFrame
  <2> QED
    BY <2>1 DEF InHand
<1> QED
  BY <1>1, <1>2

\* A subscription and its evsub forget each other.
LEMMA DropKeeps ==
    ASSUME SubscriptionInv, NEW s \in listed, NEW k \in SubType, Drop(s, k),
           k.active = sub[s].active, k.allocated, ~k.cleanup,
           frame = NoFrame \/ frame.of = s,
           frame' = frame \/ (frame \in FrameType /\ frame' = [frame EXCEPT !.tsx = "reported"])
    PROVE  SubscriptionInv'
<1>0. s \in Subs /\ sub[s].active = IF InHand(s) THEN 1 ELSE 0
  BY DEF SubscriptionInv, SubscriptionTypes, Consistent
<1>1. /\ sub'[s] \in SubType /\ sub'[s].active = sub[s].active
      /\ sub'[s].allocated <=> InHand(s)
      /\ sub'[s].cleanup
  <2> DEFINE l == [k EXCEPT !.set = FALSE]
  <2>1. l \in SubType /\ l.active = sub[s].active /\ l.allocated /\ ~l.cleanup
    BY DEF SubType
  <2>2. sub'[s] = IF l.active = 0 THEN Freed ELSE [l EXCEPT !.cleanup = TRUE]
    BY <1>0, <2>1 DEF Drop, Dropped, Removed, SubscriptionInv, SubscriptionTypes
  <2> HIDE DEF l
  <2>3. CASE InHand(s)
    <3>1. sub'[s] = [l EXCEPT !.cleanup = TRUE]
      BY SMT, <1>0, <2>1, <2>2, <2>3
    <3> QED
      BY <2>1, <2>3, <3>1 DEF SubType
  <2>4. CASE ~InHand(s)
    <3>1. sub'[s] = Freed
      BY <1>0, <2>1, <2>2, <2>4
    <3> QED
      BY <1>0, <2>4, <3>1, FreedFields
  <2> QED
    BY <2>3, <2>4
<1>2. evsub'[s] = Forgotten /\ s \notin listed'
  BY <1>0 DEF Drop, SubscriptionInv, SubscriptionTypes
<1>4. frame' = NoFrame \/ frame' \in FrameType
  BY DEF FrameType, SubscriptionInv, SubscriptionTypes
<1>5. SubscriptionTypes'
  BY <1>0, <1>1, <1>2, <1>4, FreedFields DEF Drop, SubscriptionInv, SubscriptionTypes
<1>6. \A r \in Subs : r # s =>
          sub'[r] = sub[r] /\ evsub'[r] = evsub[r] /\ (r \in listed' <=> r \in listed)
  BY <1>0 DEF Drop, SubscriptionInv, SubscriptionTypes
<1>7. (InHand(s)' <=> InHand(s)) /\ (frame' = NoFrame \/ frame'.of = s)
  BY <1>0, FrameReports
<1>8. Consistent(sub[s], evsub[s], s \in listed, InHand(s), frame.tsx)'
  BY <1>0, <1>1, <1>2, <1>7, FreedFields DEF Consistent
<1> QED
  BY <1>0, <1>5, <1>6, <1>7, <1>8, OneChanges

\* gmv_send_subscribe_on_owner makes a subscription whole before it starts the request.
LEMMA InitialKeeps ==
    ASSUME SubscriptionInv, OwnerTypeOK, NEW s \in Subs, SubscribeInitial(s)
    PROVE  SubscriptionInv'
<1> DEFINE k == [NoSub EXCEPT !.operation = Command.number, !.association = Command.association,
                              !.set = TRUE, !.allocated = TRUE]
           e == [NoEvsub EXCEPT !.state = "active", !.modData = TRUE]
<1>1. Command \in CommandType
  BY SMT DEF SubscribeInitial, TakesSubscribe, At, RunCommand, Command, OwnerTypeOK
<1>2. Command.number \in Int /\ Command.association \in Nat
  BY <1>1 DEF CommandType
<1>3. NoSub \in SubType /\ NoEvsub \in EvsubType
  BY SMT DEF NoSub, SubType, NoEvsub, EvsubType
<1>4. k \in SubType /\ k.active = 0 /\ k.allocated /\ k.set /\ ~k.cleanup
  BY <1>2, <1>3 DEF NoSub, SubType
<1>5. e \in EvsubType /\ e.modData /\ e.state = "active"
  BY <1>3 DEF NoEvsub, EvsubType
<1>6. StartRequest("initial", s, k, e, Command.number) /\ listed' = listed \cup {s}
      /\ frame = NoFrame
  BY DEF SubscribeInitial, TakesSubscribe, At
<1> HIDE DEF k, e
<1> QED
  BY <1>2, <1>4, <1>5, <1>6, StartKeeps

\* ... and refreshes one that is whole and has no operation.
LEMMA RefreshKeeps ==
    ASSUME SubscriptionInv, OwnerTypeOK, NEW s \in Subs, SubscribeRefresh(s)
    PROVE  SubscriptionInv'
<1> DEFINE k == [sub[s] EXCEPT !.operation = Command.number]
<1>1. Command \in CommandType
  BY SMT DEF SubscribeRefresh, TakesSubscribe, At, RunCommand, Command, OwnerTypeOK
<1>2. Command.number \in Int
  BY <1>1 DEF CommandType
<1>3. StartRequest("refresh", s, k, evsub[s], Command.number) /\ listed' = listed \cup {s}
      /\ frame = NoFrame /\ s \in listed /\ sub[s].operation = 0
  BY DEF SubscribeRefresh, TakesSubscribe, At
<1>4. sub[s] \in SubType /\ evsub[s] \in EvsubType
      /\ Consistent(sub[s], evsub[s], TRUE, FALSE, frame.tsx)
  BY <1>3 DEF SubscriptionInv, SubscriptionTypes, InHand, Consistent
<1>5. k \in SubType /\ k.active = 0 /\ k.allocated /\ k.set /\ ~k.cleanup
  BY <1>2, <1>4 DEF SubType, Consistent
<1>6. evsub[s].modData /\ evsub[s].state = "active"
  BY <1>3, <1>4 DEF Consistent
<1> HIDE DEF k
<1> QED
  BY <1>2, <1>3, <1>4, <1>5, <1>6, StartKeeps

\* The refresh timer starts a request only when none is under way.
LEMMA ClientRefreshKeeps ==
    ASSUME SubscriptionInv, NEW s \in Subs, ClientRefresh(s)
    PROVE  SubscriptionInv'
<1>1. frame = NoFrame /\ s \in listed /\ evsub[s].state = "active"
  BY DEF ClientRefresh, At, SubscriptionInv, Consistent
<1>2. sub[s] \in SubType /\ evsub[s] \in EvsubType
      /\ Consistent(sub[s], evsub[s], TRUE, FALSE, frame.tsx)
  BY <1>1 DEF SubscriptionInv, SubscriptionTypes, InHand, Consistent
<1> DEFINE e == [evsub[s] EXCEPT !.timer = FALSE]
<1>3. e \in EvsubType /\ e.modData /\ e.state = "active"
  BY <1>1, <1>2 DEF EvsubType, Consistent
<1>4. CASE sub[s].operation = 0
  <2>1. StartRequest("timer", s, sub[s], e, 0) /\ listed' = listed \cup {s}
    BY <1>1, <1>4 DEF ClientRefresh
  <2> HIDE DEF e
  <2> QED
    BY SMT, <1>1, <1>2, <1>3, <2>1, StartKeeps DEF Consistent
<1>5. CASE sub[s].operation # 0
  <2>1. evsub' = [evsub EXCEPT ![s] = e] /\ UNCHANGED <<sub, listed, frame>>
    BY <1>2, <1>5 DEF ClientRefresh, EvsubType, SubscriptionInv, SubscriptionTypes
  <2> HIDE DEF e
  <2>2. SubscriptionTypes'
    BY <1>3, <2>1 DEF SubscriptionInv, SubscriptionTypes
  <2>3. \A r \in Subs : r # s =>
            sub'[r] = sub[r] /\ evsub'[r] = evsub[r] /\ (r \in listed' <=> r \in listed)
    BY <2>1 DEF SubscriptionInv, SubscriptionTypes
  <2>4. evsub'[s] = e
    BY <2>1 DEF SubscriptionInv, SubscriptionTypes
  <2>5. Consistent(sub[s], evsub[s], s \in listed, InHand(s), frame.tsx)'
    BY <1>1, <1>2, <1>3, <2>1, <2>4 DEF InHand, Consistent
  <2> QED
    BY <1>1, <2>1, <2>2, <2>3, <2>5, OneChanges
<1> QED
  BY <1>4, <1>5

\* A subscription that stays, with its evsub, in the list or out of it.
LEMMA KeepKeeps ==
    ASSUME SubscriptionInv, NEW s \in Subs, NEW k \in SubType, NEW e \in EvsubType, Keep(s, k, e),
           frame = NoFrame \/ frame.of = s,
           frame' = frame \/ (frame \in FrameType /\ frame' = [frame EXCEPT !.tsx = "reported"]),
           Consistent(k, e, s \in listed, InHand(s), frame'.tsx)
    PROVE  SubscriptionInv'
<1>1. frame' = NoFrame \/ frame' \in FrameType
  BY DEF FrameType, SubscriptionInv, SubscriptionTypes
<1>2. SubscriptionTypes'
  BY <1>1 DEF Keep, SubscriptionInv, SubscriptionTypes
<1>3. \A r \in Subs : r # s =>
          sub'[r] = sub[r] /\ evsub'[r] = evsub[r] /\ (r \in listed' <=> r \in listed)
  BY DEF Keep, SubscriptionInv, SubscriptionTypes
<1>4. (InHand(s)' <=> InHand(s)) /\ (frame' = NoFrame \/ frame'.of = s)
  BY FrameReports
<1>5. sub'[s] = k /\ evsub'[s] = e /\ listed' = listed
  BY DEF Keep, SubscriptionInv, SubscriptionTypes
<1>6. Consistent(sub[s], evsub[s], s \in listed, InHand(s), frame.tsx)'
  BY <1>4, <1>5 DEF Consistent
<1> QED
  BY <1>2, <1>3, <1>4, <1>6, OneChanges

\* gmv_subscription_on_state drops a subscription without an operation; one with an
\* operation is not in the hands of a handler whose transaction has reported.
LEMMA TerminatesKeeps ==
    ASSUME SubscriptionInv, NEW s \in Subs, EvsubTerminates(s)
    PROVE  SubscriptionInv'
<1> DEFINE e == [evsub[s] EXCEPT !.state = "terminated"]
<1>1. /\ sub[s] \in SubType /\ evsub[s] \in EvsubType
      /\ Consistent(sub[s], evsub[s], s \in listed, InHand(s), frame.tsx)
  BY DEF SubscriptionInv, SubscriptionTypes
<1>2. e \in EvsubType /\ e.modData = evsub[s].modData /\ e.state = "terminated"
  BY <1>1 DEF EvsubType
<1>3. /\ evsub[s].state = "active" /\ UNCHANGED frame
      /\ frame = NoFrame \/ (frame.of = s /\ frame.tsx = "reported")
      /\ IF e.modData /\ sub[s].operation = 0 THEN Drop(s, sub[s]) ELSE Keep(s, sub[s], e)
  BY DEF EvsubTerminates, CallsBack, At
<1> HIDE DEF e
<1>4. CASE e.modData /\ sub[s].operation = 0
  <2>1. s \in listed /\ sub[s].allocated /\ ~sub[s].cleanup
    BY <1>1, <1>2, <1>4 DEF Consistent
  <2> QED
    BY <1>1, <1>3, <1>4, <2>1, DropKeeps
<1>5. CASE ~(e.modData /\ sub[s].operation = 0)
  <2>1. Consistent(sub[s], e, s \in listed, InHand(s), frame'.tsx)
    BY <1>1, <1>2, <1>3, <1>5 DEF Consistent, InHand
  <2> QED
    BY <1>1, <1>2, <1>3, <1>5, <2>1, KeepKeeps
<1> QED
  BY <1>4, <1>5

\* gmv_subscription_on_tsx_state reports the operation and takes it away.
LEMMA TsxStateKeeps ==
    ASSUME SubscriptionInv, NEW s \in Subs, NEW ends \in BOOLEAN, SubscribeTsxState(s, ends)
    PROVE  SubscriptionInv'
<1> DEFINE k == [sub[s] EXCEPT !.operation = 0]
           e == [evsub[s] EXCEPT !.open = IF ends THEN @ - 1 ELSE @,
                                 !.timer = @ \/ (frame = NoFrame /\ ~ends)]
<1>1. /\ sub[s] \in SubType /\ evsub[s] \in EvsubType
      /\ Consistent(sub[s], evsub[s], s \in listed, InHand(s), frame.tsx)
  BY DEF SubscriptionInv, SubscriptionTypes
<1>2. e \in EvsubType /\ e.modData = evsub[s].modData /\ e.state = evsub[s].state
  <2>1. (evsub[s].timer \/ (frame = NoFrame /\ ~ends)) \in BOOLEAN
        /\ (IF ends THEN evsub[s].open - 1 ELSE evsub[s].open) \in Int
    BY SMT, <1>1 DEF EvsubType
  <2> QED
    BY <1>1, <2>1 DEF EvsubType
<1>3. /\ k \in SubType /\ k.operation = 0 /\ k.active = sub[s].active /\ k.set = sub[s].set
      /\ k.allocated = sub[s].allocated /\ k.cleanup = sub[s].cleanup
  BY SMT, <1>1 DEF SubType
<1>4. /\ frame = NoFrame \/ frame.of = s
      /\ frame' = IF frame = NoFrame THEN frame ELSE [frame EXCEPT !.tsx = "reported"]
      /\ IF ~e.modData \/ sub[s].operation = 0 THEN Keep(s, sub[s], e)
         ELSE IF e.state = "terminated" THEN Drop(s, k) ELSE Keep(s, k, e)
  BY DEF SubscribeTsxState, CallsBack, At
<1>5. frame' = frame \/ (frame \in FrameType /\ frame' = [frame EXCEPT !.tsx = "reported"])
  BY <1>4 DEF SubscriptionInv, SubscriptionTypes
<1>6. InHand(s) => frame'.tsx = "reported"
  BY <1>4, <1>5 DEF InHand, FrameType, SubscriptionInv, SubscriptionTypes
<1> HIDE DEF e, k
<1>7. CASE ~e.modData \/ sub[s].operation = 0
  <2>1. Consistent(sub[s], e, s \in listed, InHand(s), frame'.tsx)
    BY <1>1, <1>2, <1>6, <1>7 DEF Consistent
  <2> QED
    BY <1>1, <1>2, <1>4, <1>5, <1>7, <2>1, KeepKeeps
<1>8. CASE e.modData /\ sub[s].operation # 0
  <2>1. s \in listed /\ k.allocated /\ ~k.cleanup
    BY <1>1, <1>2, <1>3, <1>8 DEF Consistent
  <2>2. CASE e.state = "terminated"
    BY <1>3, <1>4, <1>5, <1>8, <2>1, <2>2, DropKeeps
  <2>3. CASE e.state # "terminated"
    <3>1. Consistent(k, e, s \in listed, InHand(s), frame'.tsx)
      BY <1>1, <1>2, <1>3, <1>6, <2>1, <2>3 DEF Consistent
    <3> QED
      BY <1>2, <1>3, <1>4, <1>5, <1>8, <2>3, <3>1, KeepKeeps
  <2> QED
    BY <2>2, <2>3
<1> QED
  BY <1>7, <1>8

\* The handler lets go of the subscription and frees it if it was removed meanwhile.
LEMMA ReturnsKeeps ==
    ASSUME SubscriptionInv, NEW ok \in BOOLEAN, RequestReturns(ok)
    PROVE  SubscriptionInv'
<1>1. PICK s \in Subs : s = frame.of /\ frame \in FrameType /\ frame # NoFrame /\ frame' = NoFrame
  BY DEF RequestReturns, FrameType, SubscriptionInv, SubscriptionTypes
<1> DEFINE k == sub[s]
<1>2. InHand(s) /\ ~InHand(s)'
  BY <1>1 DEF InHand
<1>3. k \in SubType /\ evsub[s] \in EvsubType
      /\ Consistent(k, evsub[s], s \in listed, TRUE, frame.tsx)
  BY <1>1, <1>2 DEF SubscriptionInv, SubscriptionTypes, Consistent
<1>4. k.active = 1 /\ (k.cleanup <=> s \notin listed)
  BY <1>3 DEF Consistent
<1>5. SubscriptionTypes' /\ Consistent(sub[s], evsub[s], s \in listed, InHand(s), frame.tsx)'
      /\ \A r \in Subs : r # s =>
            sub'[r] = sub[r] /\ evsub'[r] = evsub[r] /\ (r \in listed' <=> r \in listed)
  <2>1. CASE ~ok /\ frame.at = "initial" /\ ~k.cleanup
    <3> DEFINE l == [k EXCEPT !.set = FALSE]
    <3>1. l \in SubType /\ l.active = 1 /\ ~l.cleanup
      BY <1>3, <1>4, <2>1 DEF SubType
    <3>2. Dropped(s, k) = [l EXCEPT !.cleanup = TRUE]
      BY SMT, <1>4, <2>1, <3>1 DEF Dropped, Removed
    <3> HIDE DEF l
    <3>3. Dropped(s, k).active = 1 /\ Dropped(s, k).cleanup
      BY <3>1, <3>2 DEF SubType
    <3>4. Released(Dropped(s, k)) = Freed
      BY <3>3 DEF Released
    <3>5. /\ sub' = [sub EXCEPT ![s] = Freed] /\ listed' = listed \ {s}
          /\ evsub' = [evsub EXCEPT ![s] = Forgotten]
      BY <1>1, <2>1, <3>4 DEF RequestReturns
    <3>6. sub'[s] = Freed /\ evsub'[s] = Forgotten /\ s \notin listed'
      BY <1>1, <3>5 DEF SubscriptionInv, SubscriptionTypes
    <3>7. Consistent(sub[s], evsub[s], s \in listed, InHand(s), frame.tsx)'
      BY <1>2, <3>6, FreedFields DEF Consistent
    <3> QED
      BY <1>1, <3>5, <3>7, FreedFields DEF SubscriptionInv, SubscriptionTypes
  <2>2. CASE ~(~ok /\ frame.at = "initial" /\ ~k.cleanup)
    <3> DEFINE l == IF ~ok /\ frame.at = "refresh" THEN [k EXCEPT !.operation = 0] ELSE k
    <3>1. /\ l \in SubType /\ l.active = 1 /\ l.set = k.set
          /\ l.allocated = k.allocated /\ l.cleanup = k.cleanup
          /\ l.operation = k.operation \/ (~ok /\ frame.at = "refresh")
      BY SMT, <1>3, <1>4 DEF SubType
    <3>2. sub' = [sub EXCEPT ![s] = Released(l)] /\ UNCHANGED <<listed, evsub>>
      BY <1>1, <2>2 DEF RequestReturns
    <3> HIDE DEF l
    <3>3. CASE s \in listed
      <4>1. Released(l) = [l EXCEPT !.active = 0]
        BY SMT, <1>4, <3>1, <3>3 DEF Released, SubType
      <4> DEFINE m == Released(l)
      <4>2. /\ m \in SubType /\ m.active = 0 /\ m.set = k.set /\ m.operation = l.operation
            /\ m.allocated = k.allocated /\ m.cleanup = k.cleanup
        BY SMT, <3>1, <4>1 DEF SubType
      <4>3. sub'[s] = m /\ evsub'[s] = evsub[s] /\ s \in listed'
        BY <1>1, <3>2, <3>3 DEF SubscriptionInv, SubscriptionTypes
      <4>4. evsub[s].state = "terminated" => l.operation # 0
        <5>1. ~ok => frame.tsx \in {"none", "reported"}
          BY <1>1 DEF RequestReturns, FrameType
        <5> QED
          BY <1>3, <3>1, <3>3, <5>1 DEF Consistent
      <4> HIDE DEF m
      <4>5. Consistent(sub[s], evsub[s], s \in listed, InHand(s), frame.tsx)'
        BY <1>2, <1>3, <3>3, <4>2, <4>3, <4>4 DEF Consistent
      <4> QED
        BY <1>1, <3>2, <4>2, <4>3, <4>5 DEF SubscriptionInv, SubscriptionTypes
    <3>4. CASE s \notin listed
      <4>1. Released(l) = Freed
        BY <1>4, <3>1, <3>4 DEF Released
      <4>2. sub'[s] = Freed /\ evsub'[s] = evsub[s] /\ s \notin listed'
        BY <1>1, <3>2, <3>4, <4>1 DEF SubscriptionInv, SubscriptionTypes
      <4>3. Consistent(sub[s], evsub[s], s \in listed, InHand(s), frame.tsx)'
        BY <1>2, <1>3, <3>4, <4>2, FreedFields DEF Consistent
      <4> QED
        BY <1>1, <3>2, <4>1, <4>3, FreedFields DEF SubscriptionInv, SubscriptionTypes
    <3> QED
      BY <3>3, <3>4
  <2> QED
    BY <2>1, <2>2
<1> QED
  BY <1>1, <1>5, OneChanges

\* gmv_close_association_calls comes when no handler holds a subscription.
LEMMA CloseKeeps ==
    ASSUME SubscriptionInv, NEW a \in Connections, CloseConnection(a)
    PROVE  SubscriptionInv'
<1> DEFINE gone == {s \in listed : sub[s].association = a}
<1>1. /\ frame = NoFrame /\ frame' = frame /\ listed' = listed \ gone
      /\ sub' = [s \in Subs |-> IF s \in gone THEN Dropped(s, sub[s]) ELSE sub[s]]
      /\ evsub' = [s \in Subs |-> IF s \in gone THEN Forgotten ELSE evsub[s]]
  BY DEF CloseConnection, At
<1>2. gone \subseteq listed
  OBVIOUS
<1> HIDE DEF gone
<1>3. ASSUME NEW s \in Subs
      PROVE  /\ sub'[s] \in SubType /\ evsub'[s] \in EvsubType
             /\ Consistent(sub[s], evsub[s], s \in listed, InHand(s), frame.tsx)'
  <2>1. /\ sub[s] \in SubType /\ evsub[s] \in EvsubType
        /\ Consistent(sub[s], evsub[s], s \in listed, FALSE, frame.tsx)
    BY <1>1 DEF SubscriptionInv, SubscriptionTypes, InHand, Consistent
  <2>2. CASE s \in gone
    <3> DEFINE l == [sub[s] EXCEPT !.set = FALSE]
    <3>1. l.active = 0 /\ ~l.cleanup
      BY <1>2, <2>1, <2>2 DEF Consistent, SubType
    <3>2. Dropped(s, sub[s]) = Freed
      BY <1>2, <2>2, <3>1 DEF Dropped, Removed
    <3>3. sub'[s] = Freed /\ evsub'[s] = Forgotten /\ s \notin listed' /\ ~InHand(s)'
      BY <1>1, <2>2, <3>2 DEF InHand
    <3> QED
      BY <3>3, FreedFields DEF Consistent
  <2>3. CASE s \notin gone
    <3>1. sub'[s] = sub[s] /\ evsub'[s] = evsub[s] /\ (s \in listed' <=> s \in listed)
          /\ ~InHand(s)'
      BY <1>1, <2>3 DEF InHand
    <3> QED
      BY <2>1, <3>1 DEF Consistent
  <2> QED
    BY <2>2, <2>3
<1>4. SubscriptionTypes'
  BY <1>1, <1>3 DEF SubscriptionInv, SubscriptionTypes
<1> QED
  BY <1>3, <1>4 DEF SubscriptionInv

\* gmv_runtime_release, or a crash, leaves nothing.
LEMMA GoneKeeps ==
    ASSUME SubscriptionsGone
    PROVE  SubscriptionInv'
<1>1. NoSub \in SubType /\ NoEvsub \in EvsubType
  BY SMT DEF NoSub, SubType, NoEvsub, EvsubType
<1>2. ASSUME NEW s \in Subs
      PROVE  /\ sub'[s] \in SubType /\ evsub'[s] \in EvsubType
             /\ Consistent(sub[s], evsub[s], s \in listed, InHand(s), frame.tsx)'
  <2>1. /\ sub'[s] \in {NoSub, Freed} /\ evsub'[s] \in {NoEvsub, Forgotten}
        /\ s \notin listed' /\ ~InHand(s)'
    BY DEF SubscriptionsGone, InHand
  <2>2. sub'[s].active = 0 /\ ~sub'[s].allocated /\ ~evsub'[s].modData
    BY SMT, <2>1, FreedFields DEF NoSub, NoEvsub
  <2> QED
    BY <1>1, <2>1, <2>2, FreedFields DEF Consistent
<1>3. SubscriptionTypes'
  BY <1>2 DEF SubscriptionsGone, SubscriptionTypes
<1> QED
  BY <1>2, <1>3 DEF SubscriptionInv

\* Every step of the runtime keeps the invariant of the subscriptions.
LEMMA SubscriptionStep ==
    ASSUME SubscriptionInv, OwnerTypeOK, [SubscriptionsNext]_allVars
    PROVE  SubscriptionInv'
<1>1. CASE UNCHANGED subVars
  BY <1>1 DEF subVars, SubscriptionInv, SubscriptionTypes, InHand, Consistent
<1>2. CASE \E s \in Subs : SubscribeInitial(s) \/ SubscribeRefresh(s)
  BY <1>2, InitialKeeps, RefreshKeeps
<1>3. CASE \E ok \in BOOLEAN : RequestReturns(ok)
  BY <1>3, ReturnsKeeps
<1>4. CASE EvsubCallback
  BY <1>4, ClientRefreshKeeps, TerminatesKeeps, TsxStateKeeps DEF EvsubCallback
<1>5. CASE \E a \in Connections : CloseConnection(a)
  BY <1>5, CloseKeeps
<1>6. CASE SubscriptionsGone
  BY <1>6, GoneKeeps
<1> QED
  BY <1>1, <1>2, <1>3, <1>4, <1>5, <1>6
     DEF SubscriptionsNext, PollSteps, SubscribeRefused, allVars

\* No subscription is freed under the handler that is inside PJSIP with it, none that its
\* evsub refers to, and none is left behind, for any subscriptions and connections
\* (gmv_start_subscription_request, gmv_remove_subscription, gmv_release_subscription).
THEOREM SubscriptionReferencesCorrect == SubscriptionsSpec => []SubscriptionReferences
<1> DEFINE Inv == DialogInv /\ SubscriptionInv
<1>1. SubscriptionsInit => Inv
  BY DialogInit, SubscriptionInit DEF SubscriptionsInit
<1>2. Inv /\ [SubscriptionsNext]_allVars => Inv'
  BY DialogNext, SubscriptionsStepOwns, SubscriptionStep DEF DialogInv
<1>3. Inv => SubscriptionReferences
  BY SubscriptionReferred
<1> HIDE DEF Inv
<1> QED
  BY <1>1, <1>2, <1>3, PTL DEF SubscriptionsSpec

-----------------------------------------------------------------------------
(* What is owed to the application.                                         *)

\* The subscription reports operation n with the next transaction of its evsub, or there
\* is none and the handler that could not start it reports a fault.
Carries(s, n) ==
    /\ s \in listed /\ sub[s].operation = n
    /\ evsub[s].open > 0 \/ (InHand(s) /\ frame.tsx = "none" /\ frame.number = n)

\* Whatever is still owed to the application, something is there to report it.
OwedIsCarried == \A n \in owed : \E s \in Subs : Carries(s, n)

OwedInv ==
    /\ 0 \notin owed
    /\ \A s \in Subs : evsub[s].open >= 0
    /\ \A s \in Subs : InHand(s) /\ frame.tsx # "reported" /\ s \in listed
                          => sub[s].operation = frame.number
    /\ OwedIsCarried

\* No SUBSCRIBE has the number 0, which stands for none.
NumberedInv ==
    calls >= 0 /\ \A i \in 1 .. Len(queues["subscribe"]) : queues["subscribe"][i].number > 0

\* What becomes of the queues in a step of the runtime
LEMMA QueueSteps ==
    ASSUME DialogInv, [OwnerNext]_ownerVars
    PROVE  \/ UNCHANGED queueVars \/ RunCommand
           \/ \E r \in Requests, cseq \in Int : Submit(r, cseq)
           \/ queues' = [k \in Kinds |-> <<>>] /\ calls' = calls
<1>1. ASSUME NEW r \in Requests, SendInvite(r)
      PROVE  \E cseq \in Int : Submit(r, cseq)
  <2>1. Submit(r, identity[r.dialog]) /\ identity[r.dialog] \in 1 .. MaxCSeq
    BY <1>1 DEF SendInvite, CSeqInRange
  <2>2. identity[r.dialog] \in Int
    BY SMT, <2>1, AllocatorAssumption
  <2> QED
    BY <2>1, <2>2
<1>2. ASSUME NEW r \in Requests, SendDialogRequest(r) \/ SendRestoredDialogRequest(r)
      PROVE  \E cseq \in Int : Submit(r, cseq)
  <2>1. Submit(r, saved[r.dialog] + 1) /\ r.dialog \in Dialogs
    BY <1>2, RequestsAssumption DEF SendDialogRequest, SendRestoredDialogRequest
  <2>2. saved[r.dialog] + 1 \in Int
    BY SMT, <2>1 DEF DialogInv, OwnerTypeOK
  <2> QED
    BY <2>1, <2>2
<1>3. ASSUME NEW r \in Requests, SendMessage(r) \/ RespondInvite(r) \/ SendSubscribe(r)
      PROVE  Submit(r, 0) \/ UNCHANGED queueVars
  BY <1>3 DEF SendMessage, RespondInvite, SendSubscribe
<1>4. CASE Threads
  <2>1. PICK t \in Callers : \/ \E d \in Dialogs : GenerateIdentity(t, d)
                             \/ Allocated(t) \/ AllocationRetries(t)
    BY <1>4 DEF Threads
  <2>2. CASE t = Owner /\ Allocated(t)
    <3>1. Submit(calling, NextValue(current[t])) /\ calling \in Requests
      BY <2>2 DEF Allocated, Exchange, DialogInv, KindsInv
    <3>2. NextValue(current[t]) \in Int
      BY SMT DEF NextValue, DialogInv, OwnerTypeOK
    <3> QED
      BY <3>1, <3>2
  <2>3. CASE ~(t = Owner /\ Allocated(t))
    BY <2>1, <2>3 DEF GenerateIdentity, Allocated, AllocationRetries
  <2> QED
    BY <2>2, <2>3
<1>5. CASE \/ (\E d \in Dialogs : EmitResponse(d)) \/ TakeEvent \/ StartAgain \/ PollGoesOn
           \/ UNCHANGED ownerVars
  BY <1>5 DEF EmitResponse, TakeEvent, StartAgain, PollGoesOn, ownerVars
<1>6. CASE StopRuntime \/ Crash
  BY <1>6 DEF StopRuntime, Crash, RuntimeGone
<1>7. 0 \in Int
  BY SMT
<1> QED
  BY <1>1, <1>2, <1>3, <1>4, <1>5, <1>6, <1>7 DEF OwnerNext, Call

\* A number is one more than the calls so far.
LEMMA NumberedStep ==
    ASSUME DialogInv, NumberedInv, [OwnerNext]_ownerVars
    PROVE  NumberedInv'
<1> DEFINE q == queues["subscribe"]
<1>1. q \in Seq(CommandType) /\ calls \in Int /\ queues \in [Kinds -> Seq(CommandType)]
  BY DEF DialogInv, OwnerTypeOK, Kinds
<1>2. CASE UNCHANGED queueVars
  BY <1>2 DEF queueVars, NumberedInv
<1>3. CASE RunCommand
  <2>1. calls' = calls /\ (queues'["subscribe"] = q \/ (q # <<>> /\ queues'["subscribe"] = Tail(q)))
    BY SMT, <1>1, <1>3 DEF RunCommand, Kinds
  <2>2. q # <<>> => /\ Len(Tail(q)) = Len(q) - 1 /\ Len(q) \in Nat \ {0}
                    /\ \A i \in 1 .. Len(q) - 1 : Tail(q)[i] = q[i + 1]
    BY <1>1, TailFacts
  <2>3. CASE q # <<>> /\ queues'["subscribe"] = Tail(q)
    <3>1. \A i \in 1 .. Len(q) - 1 : i + 1 \in 1 .. Len(q)
      BY SMT, <2>2, <2>3
    <3> QED
      BY <2>1, <2>2, <2>3, <3>1 DEF NumberedInv
  <2> QED
    BY <2>1, <2>3 DEF NumberedInv
<1>4. ASSUME NEW r \in Requests, NEW cseq \in Int, Submit(r, cseq)
      PROVE  NumberedInv'
  <2> DEFINE c == TheCommand(r, cseq)
  <2>1. CASE ShimAccepts(r)
    <3>1. c \in CommandType /\ (queues'["subscribe"] = q \/ queues'["subscribe"] = Append(q, c))
      <4>1. "subscribe" \in Kinds /\ OwnerTypeOK
        BY DEF Kinds, DialogInv
      <4> QED
        BY <1>4, <2>1, <4>1, SubmitFacts
    <3>2. calls' = calls + 1 /\ c.number = calls + 1
      BY <1>4, <2>1 DEF Submit, TheCommand
    <3> HIDE DEF c
    <3>3. /\ Len(Append(q, c)) = Len(q) + 1 /\ Len(q) \in Nat /\ Append(q, c)[Len(q) + 1] = c
          /\ \A i \in 1 .. Len(q) : Append(q, c)[i] = q[i]
      BY SMT, <1>1, <3>1, AppendFacts
    <3> QED
      BY SMT, <1>1, <3>1, <3>2, <3>3 DEF NumberedInv
  <2>2. CASE ~ShimAccepts(r)
    BY <1>4, <2>2 DEF Submit, queueVars, NumberedInv
  <2> QED
    BY <2>1, <2>2
<1>5. CASE queues' = [k \in Kinds |-> <<>>] /\ calls' = calls
  BY SMT, <1>5 DEF NumberedInv, Kinds
<1> QED
  BY <1>2, <1>3, <1>4, <1>5, QueueSteps

\* What is left to show of a step that changes one subscription, and the frame only from
\* or to one that holds it.
LEMMA OneCarries ==
    ASSUME OwedInv, NEW s \in Subs,
           \A r \in Subs : r # s =>
               sub'[r] = sub[r] /\ evsub'[r] = evsub[r] /\ (r \in listed' <=> r \in listed),
           frame = NoFrame \/ frame.of = s, frame' = NoFrame \/ frame'.of = s,
           0 \notin owed', evsub'[s].open >= 0,
           InHand(s)' /\ frame'.tsx # "reported" /\ s \in listed'
               => sub'[s].operation = frame'.number,
           \A n \in owed' : n \in owed \/ Carries(s, n)',
           \A n \in owed' : Carries(s, n) => Carries(s, n)'
    PROVE  OwedInv'
<1>1. \A r \in Subs : r # s => ~InHand(r) /\ ~InHand(r)'
  BY DEF InHand
<1>2. ASSUME NEW n \in owed'
      PROVE  \E r \in Subs : Carries(r, n)'
  <2>1. CASE Carries(s, n)'
    BY <2>1
  <2>2. CASE ~Carries(s, n)'
    <3>1. PICK r \in Subs : Carries(r, n)
      BY <1>2, <2>2 DEF OwedInv, OwedIsCarried
    <3>2. r # s
      BY <1>2, <2>2, <3>1
    <3> QED
      BY <1>1, <3>1, <3>2 DEF Carries
  <2> QED
    BY <2>1, <2>2
<1>3. ASSUME NEW r \in Subs
      PROVE  evsub'[r].open >= 0
  BY DEF OwedInv
<1>4. ASSUME NEW r \in Subs, InHand(r)', frame'.tsx # "reported", r \in listed'
      PROVE  sub'[r].operation = frame'.number
  BY <1>1, <1>4
<1> QED
  BY <1>2, <1>3, <1>4 DEF OwedInv, OwedIsCarried

\* A request that is started for an operation carries it, made or not.
LEMMA StartCarries ==
    ASSUME SubscriptionInv, OwedInv, NEW s \in Subs, NEW k \in SubType, NEW e \in EvsubType,
           NEW at, NEW number \in Int, StartRequest(at, s, k, e, number),
           listed' = listed \cup {s}, k.operation = number, e.open >= 0, frame = NoFrame,
           s \in listed => sub[s].operation = 0,
           owed' = owed \cup ({number} \ {0})
    PROVE  OwedInv'
<1>1. PICK made \in BOOLEAN :
        /\ sub' = [sub EXCEPT ![s] = [k EXCEPT !.active = @ + 1]]
        /\ evsub' = [evsub EXCEPT ![s] = [e EXCEPT !.open = IF made THEN @ + 1 ELSE @]]
        /\ frame' = [at |-> at, of |-> s, tsx |-> IF made THEN "open" ELSE "none",
                     number |-> number]
  BY DEF StartRequest
<1>2. /\ sub'[s].operation = number /\ evsub'[s].open = IF made THEN e.open + 1 ELSE e.open
      /\ s \in listed'
      /\ \A r \in Subs : r # s =>
            sub'[r] = sub[r] /\ evsub'[r] = evsub[r] /\ (r \in listed' <=> r \in listed)
  BY SMT, <1>1 DEF SubscriptionInv, SubscriptionTypes, SubType, EvsubType
<1>3. frame'.of = s /\ frame'.number = number /\ (~made => frame'.tsx = "none")
  BY <1>1
<1>4. evsub'[s].open >= 0 /\ (made => evsub'[s].open > 0)
  BY SMT, <1>2 DEF EvsubType
<1>5. frame' # NoFrame
  BY SMT, <1>3 DEF NoFrame, Subs
<1>6. Carries(s, number)'
  BY <1>2, <1>3, <1>4, <1>5 DEF Carries, InHand
<1>7. 0 \notin owed' /\ \A n \in owed' : n \in owed \/ n = number
  BY DEF OwedInv
<1>8. \A n \in owed' : ~Carries(s, n)
  BY <1>7 DEF Carries
<1> QED
  BY <1>2, <1>3, <1>4, <1>6, <1>7, <1>8, OneCarries

\* The first SUBSCRIBE and a refresh by the application ...
LEMMA SubscribeCarries ==
    ASSUME SubscriptionInv, OwedInv, OwnerTypeOK, NumberedInv, NEW s \in Subs,
           SubscribeInitial(s) \/ SubscribeRefresh(s)
    PROVE  OwedInv'
<1> DEFINE q == queues["subscribe"]
<1>1. Command = Head(q) /\ q # <<>> /\ q \in Seq(CommandType) /\ frame = NoFrame
  BY DEF SubscribeInitial, SubscribeRefresh, TakesSubscribe, At, RunCommand, Command, OwnerTypeOK
<1>2. Command = q[1] /\ 1 \in 1 .. Len(q) /\ Command \in CommandType
  BY SMT, <1>1, TailFacts
<1>3. Command.number \in Int /\ Command.association \in Nat /\ Command.number # 0
  <2>1. Command.number > 0
    BY <1>2 DEF NumberedInv
  <2>2. Command.number \in Int /\ Command.association \in Nat
    BY <1>2 DEF CommandType
  <2> QED
    BY SMT, <2>1, <2>2
<1>4. owed' = owed \cup ({Command.number} \ {0})
  BY <1>3 DEF SubscribeInitial, SubscribeRefresh
<1>5. CASE SubscribeInitial(s)
  <2> DEFINE k == [NoSub EXCEPT !.operation = Command.number,
                                !.association = Command.association,
                                !.set = TRUE, !.allocated = TRUE]
             e == [NoEvsub EXCEPT !.state = "active", !.modData = TRUE]
  <2>1. NoSub \in SubType /\ NoEvsub \in EvsubType /\ NoEvsub.open = 0 /\ ~NoSub.allocated
    BY SMT DEF NoSub, SubType, NoEvsub, EvsubType
  <2>2. k \in SubType /\ k.operation = Command.number
    BY <1>3, <2>1 DEF SubType
  <2>3. e \in EvsubType /\ e.open = 0
    BY <2>1 DEF EvsubType
  <2>4. StartRequest("initial", s, k, e, Command.number) /\ listed' = listed \cup {s}
        /\ sub[s] = NoSub
    BY <1>5 DEF SubscribeInitial
  <2> HIDE DEF k, e
  <2>5. s \notin listed
    BY <2>1, <2>4 DEF SubscriptionInv, Consistent
  <2>6. e.open >= 0
    BY SMT, <2>3
  <2> QED
    BY <1>1, <1>3, <1>4, <2>2, <2>3, <2>4, <2>5, <2>6, StartCarries
<1>6. CASE SubscribeRefresh(s)
  <2> DEFINE k == [sub[s] EXCEPT !.operation = Command.number]
  <2>1. StartRequest("refresh", s, k, evsub[s], Command.number) /\ listed' = listed \cup {s}
        /\ sub[s].operation = 0
    BY <1>6 DEF SubscribeRefresh
  <2>2. k \in SubType /\ k.operation = Command.number /\ evsub[s] \in EvsubType
    BY <1>3 DEF SubscriptionInv, SubscriptionTypes, SubType
  <2> HIDE DEF k
  <2> QED
    BY <1>1, <1>3, <1>4, <2>1, <2>2, StartCarries DEF OwedInv
<1> QED
  BY <1>5, <1>6

\* ... a refresh that evsub wants ...
LEMMA ClientRefreshCarries ==
    ASSUME SubscriptionInv, OwedInv, NEW s \in Subs, ClientRefresh(s)
    PROVE  OwedInv'
<1> DEFINE e == [evsub[s] EXCEPT !.timer = FALSE]
<1>1. frame = NoFrame /\ sub[s] \in SubType /\ evsub[s] \in EvsubType /\ evsub[s].open >= 0
  BY DEF ClientRefresh, At, SubscriptionInv, SubscriptionTypes, OwedInv
<1>2. e \in EvsubType /\ e.open = evsub[s].open
  BY <1>1 DEF EvsubType
<1>3. CASE sub[s].operation = 0
  <2>1. StartRequest("timer", s, sub[s], e, 0) /\ UNCHANGED <<listed, owed>>
    BY <1>3 DEF ClientRefresh
  <2>2. s \in listed
    BY DEF ClientRefresh, SubscriptionInv, Consistent
  <2>3. listed' = listed \cup {s} /\ owed' = owed \cup ({0} \ {0})
    BY <2>1, <2>2
  <2>4. 0 \in Int /\ e.open >= 0
    BY SMT, <1>1, <1>2
  <2> HIDE DEF e
  <2> QED
    BY <1>1, <1>2, <1>3, <2>1, <2>3, <2>4, StartCarries
<1>4. CASE sub[s].operation # 0
  <2>1. evsub' = [evsub EXCEPT ![s] = e] /\ UNCHANGED <<sub, listed, frame, owed>>
    BY <1>1, <1>4 DEF ClientRefresh, EvsubType, SubscriptionInv, SubscriptionTypes
  <2> HIDE DEF e
  <2>2. evsub'[s] = e /\ \A r \in Subs : r # s => evsub'[r] = evsub[r]
    BY <2>1 DEF SubscriptionInv, SubscriptionTypes
  <2>3. \A n \in owed' : Carries(s, n) => Carries(s, n)'
    BY <1>2, <2>1, <2>2 DEF Carries, InHand
  <2> QED
    BY <1>1, <1>2, <2>1, <2>2, <2>3, OneCarries DEF OwedInv, InHand
<1> QED
  BY <1>3, <1>4

\* A subscription that is given up carries nothing that stays owed.
LEMMA DropCarries ==
    ASSUME SubscriptionInv, OwedInv, NEW s \in Subs, NEW k, Drop(s, k),
           frame = NoFrame \/ frame.of = s, frame' = NoFrame \/ frame'.of = s,
           owed' \subseteq owed, \A n \in owed' : ~Carries(s, n)
    PROVE  OwedInv'
<1>1. evsub'[s] = Forgotten /\ s \notin listed'
  BY DEF Drop, SubscriptionInv, SubscriptionTypes
<1>2. evsub'[s].open >= 0
  BY SMT, <1>1 DEF Forgotten, NoEvsub
<1>3. \A r \in Subs : r # s =>
          sub'[r] = sub[r] /\ evsub'[r] = evsub[r] /\ (r \in listed' <=> r \in listed)
  BY DEF Drop, SubscriptionInv, SubscriptionTypes
<1>4. 0 \notin owed'
  BY DEF OwedInv
<1> QED
  BY <1>1, <1>2, <1>3, <1>4, OneCarries

\* ... and one that stays carries what it did.
LEMMA KeepCarries ==
    ASSUME SubscriptionInv, OwedInv, NEW s \in Subs, NEW k, NEW e, Keep(s, k, e),
           frame = NoFrame \/ frame.of = s, frame' = NoFrame \/ frame'.of = s,
           e.open >= 0, owed' \subseteq owed,
           InHand(s)' /\ frame'.tsx # "reported" /\ s \in listed => k.operation = frame'.number,
           \A n \in owed' : Carries(s, n) => k.operation = n /\ e.open > 0
    PROVE  OwedInv'
<1>1. sub'[s] = k /\ evsub'[s] = e /\ listed' = listed
  BY DEF Keep, SubscriptionInv, SubscriptionTypes
<1>2. \A r \in Subs : r # s =>
          sub'[r] = sub[r] /\ evsub'[r] = evsub[r] /\ (r \in listed' <=> r \in listed)
  BY DEF Keep, SubscriptionInv, SubscriptionTypes
<1>3. 0 \notin owed'
  BY DEF OwedInv
<1>4. \A n \in owed' : Carries(s, n) => Carries(s, n)'
  BY <1>1 DEF Carries
<1> QED
  BY <1>1, <1>2, <1>3, <1>4, OneCarries

\* ... the end of an evsub ...
LEMMA TerminatesCarries ==
    ASSUME SubscriptionInv, OwedInv, NEW s \in Subs, EvsubTerminates(s)
    PROVE  OwedInv'
<1> DEFINE e == [evsub[s] EXCEPT !.state = "terminated"]
<1>1. evsub[s] \in EvsubType /\ evsub[s].open >= 0
  BY DEF SubscriptionInv, SubscriptionTypes, OwedInv
<1>2. e.open = evsub[s].open
  BY <1>1 DEF EvsubType
<1>3. /\ UNCHANGED <<frame, owed>>
      /\ frame = NoFrame \/ (frame.of = s /\ frame.tsx = "reported")
      /\ IF e.modData /\ sub[s].operation = 0 THEN Drop(s, sub[s]) ELSE Keep(s, sub[s], e)
  BY DEF EvsubTerminates, CallsBack, At
<1> HIDE DEF e
<1>4. CASE e.modData /\ sub[s].operation = 0
  <2>1. \A n \in owed' : ~Carries(s, n)
    BY <1>3, <1>4 DEF OwedInv, Carries
  <2> QED
    BY <1>3, <1>4, <2>1, DropCarries
<1>5. CASE ~(e.modData /\ sub[s].operation = 0)
  <2>1. \A n \in owed' : Carries(s, n) => sub[s].operation = n /\ e.open > 0
    BY <1>2, <1>3 DEF Carries, InHand
  <2>2. InHand(s)' => frame'.tsx = "reported"
    BY <1>3 DEF InHand
  <2> QED
    BY <1>1, <1>2, <1>3, <1>5, <2>1, <2>2, KeepCarries
<1> QED
  BY <1>4, <1>5

\* ... and a transaction, which reports what its subscription carries.
LEMMA TsxStateCarries ==
    ASSUME SubscriptionInv, OwedInv, NEW s \in Subs, NEW ends \in BOOLEAN,
           SubscribeTsxState(s, ends)
    PROVE  OwedInv'
<1> DEFINE k == [sub[s] EXCEPT !.operation = 0]
           e == [evsub[s] EXCEPT !.open = IF ends THEN @ - 1 ELSE @,
                                 !.timer = @ \/ (frame = NoFrame /\ ~ends)]
<1>1. /\ sub[s] \in SubType /\ evsub[s] \in EvsubType
      /\ Consistent(sub[s], evsub[s], s \in listed, InHand(s), frame.tsx)
  BY DEF SubscriptionInv, SubscriptionTypes
<1>2. k.operation = 0 /\ e.modData = evsub[s].modData /\ e.open >= 0
  <2>1. evsub[s].open > 0 /\ evsub[s].open \in Int
    BY <1>1 DEF SubscribeTsxState, EvsubType
  <2>2. e.open = IF ends THEN evsub[s].open - 1 ELSE evsub[s].open
    BY <1>1 DEF EvsubType
  <2>3. k.operation = 0 /\ e.modData = evsub[s].modData
    BY SMT, <1>1 DEF SubType, EvsubType
  <2> HIDE DEF e
  <2> QED
    BY SMT, <2>1, <2>2, <2>3
<1>3. /\ frame = NoFrame \/ frame.of = s
      /\ frame' = IF frame = NoFrame THEN frame ELSE [frame EXCEPT !.tsx = "reported"]
      /\ IF ~e.modData \/ sub[s].operation = 0 THEN Keep(s, sub[s], e) /\ owed' = owed
         ELSE /\ owed' = owed \ {sub[s].operation}
              /\ IF e.state = "terminated" THEN Drop(s, k) ELSE Keep(s, k, e)
  BY DEF SubscribeTsxState, CallsBack, At, Reports
<1>4. (frame' = NoFrame \/ frame'.of = s) /\ (InHand(s)' => frame'.tsx = "reported")
  BY <1>3 DEF InHand, FrameType, SubscriptionInv, SubscriptionTypes
<1> HIDE DEF e, k
<1>5. CASE ~e.modData \/ sub[s].operation = 0
  <2>0. owed' = owed /\ (s \in listed => evsub[s].modData)
    BY <1>1, <1>3, <1>5 DEF Consistent
  <2>1. \A n \in owed' : ~Carries(s, n)
    BY <1>2, <1>5, <2>0 DEF OwedInv, Carries
  <2> QED
    BY <1>2, <1>3, <1>4, <1>5, <2>1, KeepCarries
<1>6. CASE e.modData /\ sub[s].operation # 0
  <2>1. owed' \subseteq owed /\ \A n \in owed' : ~Carries(s, n)
    BY <1>3, <1>6 DEF Carries
  <2> QED
    BY <1>2, <1>3, <1>4, <1>6, <2>1, DropCarries, KeepCarries
<1> QED
  BY <1>5, <1>6

\* A handler that returns leaves what it started to the transaction, and reports the rest.
LEMMA ReturnsCarries ==
    ASSUME SubscriptionInv, OwedInv, NEW ok \in BOOLEAN, RequestReturns(ok)
    PROVE  OwedInv'
<1>1. PICK s \in Subs : s = frame.of /\ frame # NoFrame /\ InHand(s)
  BY DEF RequestReturns, SubscriptionInv, SubscriptionTypes, FrameType, InHand
<1>2. /\ sub[s] \in SubType /\ evsub[s] \in EvsubType /\ evsub[s].open >= 0
      /\ Consistent(sub[s], evsub[s], s \in listed, TRUE, frame.tsx)
  BY <1>1 DEF SubscriptionInv, SubscriptionTypes, OwedInv
<1>3. frame' = NoFrame /\ ~InHand(s)'
  BY DEF RequestReturns, InHand
<1>4. evsub'[s] \in {evsub[s], Forgotten}
  BY <1>1 DEF RequestReturns, SubscriptionInv, SubscriptionTypes
<1>5. evsub'[s].open >= 0
  <2>1. Forgotten.open = 0
    BY SMT DEF Forgotten, NoEvsub
  <2> QED
    BY SMT, <1>2, <1>4, <2>1
<1>6. \A r \in Subs : r # s =>
          sub'[r] = sub[r] /\ evsub'[r] = evsub[r] /\ (r \in listed' <=> r \in listed)
  BY <1>1 DEF RequestReturns, SubscriptionInv, SubscriptionTypes
<1>7. owed' \subseteq owed /\ 0 \notin owed'
  BY DEF RequestReturns, Reports, OwedInv
<1>8. CASE ok
  <2>1. /\ sub'[s] = Released(sub[s]) /\ evsub'[s] = evsub[s] /\ listed' = listed
        /\ frame.tsx # "none"
    BY <1>1, <1>8 DEF RequestReturns, SubscriptionInv, SubscriptionTypes
  <2>2. s \in listed => sub'[s].operation = sub[s].operation
    BY SMT, <1>2, <2>1 DEF Released, Consistent, SubType
  <2>3. \A n \in owed' : Carries(s, n) => Carries(s, n)'
    BY <2>1, <2>2 DEF Carries
  <2> QED
    BY <1>1, <1>3, <1>5, <1>6, <1>7, <2>3, OneCarries
<1>9. CASE ~ok
  <2>1. owed' = owed \ {frame.number} /\ frame.tsx # "open"
    BY <1>9 DEF RequestReturns, Reports
  <2>2. frame.tsx = "reported" => (s \in listed => sub[s].operation = 0)
    BY <1>2 DEF Consistent
  <2>3. frame.tsx # "reported" => (s \in listed => sub[s].operation = frame.number)
    BY <1>1 DEF OwedInv
  <2>4. \A n \in owed' : ~Carries(s, n)
    BY <2>1, <2>2, <2>3 DEF Carries, OwedInv
  <2> QED
    BY <1>1, <1>3, <1>5, <1>6, <1>7, <2>4, OneCarries
<1> QED
  BY <1>8, <1>9

\* A connection takes its subscriptions with it, and what they carry.
LEMMA CloseCarries ==
    ASSUME SubscriptionInv, OwedInv, NEW a \in Connections, CloseConnection(a)
    PROVE  OwedInv'
<1> DEFINE gone == {s \in listed : sub[s].association = a}
<1>1. /\ frame = NoFrame /\ frame' = NoFrame /\ owed' = owed \ {sub[s].operation : s \in gone}
      /\ listed' = listed \ gone
  BY DEF CloseConnection, At
<1>2. \A s \in Subs : s \notin gone => sub'[s] = sub[s] /\ evsub'[s] = evsub[s]
  BY DEF CloseConnection
<1>3. \A s \in Subs : s \in gone => evsub'[s] = Forgotten
  BY DEF CloseConnection
<1>4. \A s \in Subs : ~InHand(s) /\ ~InHand(s)'
  BY <1>1 DEF InHand
<1>5. \A s \in Subs : evsub'[s].open >= 0
  <2>1. Forgotten.open >= 0
    BY SMT DEF Forgotten, NoEvsub
  <2> HIDE DEF gone
  <2> QED
    BY <1>2, <1>3, <2>1 DEF OwedInv
<1>6. OwedIsCarried'
  <2> SUFFICES ASSUME NEW n \in owed' PROVE \E s \in Subs : Carries(s, n)'
    BY DEF OwedIsCarried
  <2>1. PICK s \in Subs : Carries(s, n)
    BY <1>1 DEF OwedInv, OwedIsCarried
  <2>2. s \notin gone
    BY <1>1, <2>1 DEF Carries
  <2>3. Carries(s, n)'
    BY <1>1, <1>2, <1>4, <2>1, <2>2 DEF Carries
  <2> QED
    BY <2>3
<1> QED
  BY <1>1, <1>4, <1>5, <1>6 DEF OwedInv

\* ... and so does the runtime.
LEMMA GoneCarries ==
    ASSUME SubscriptionsGone
    PROVE  OwedInv'
<1>1. owed' = {} /\ frame' = NoFrame
  BY DEF SubscriptionsGone
<1>2. Forgotten.open >= 0 /\ NoEvsub.open >= 0
  BY SMT DEF Forgotten, NoEvsub
<1>3. \A s \in Subs : evsub'[s].open >= 0
  BY <1>2 DEF SubscriptionsGone
<1> QED
  BY <1>1, <1>3 DEF OwedInv, OwedIsCarried, InHand

\* Every step keeps what is owed carried.
LEMMA OwedStep ==
    ASSUME DialogInv, SubscriptionInv, NumberedInv, OwedInv, [SubscriptionsNext]_allVars
    PROVE  OwedInv'
<1>1. CASE UNCHANGED subVars
  <2>1. UNCHANGED <<sub, evsub, listed, frame, owed>>
    BY <1>1 DEF subVars
  <2>2. \A s \in Subs : (InHand(s)' <=> InHand(s)) /\ \A n : Carries(s, n)' <=> Carries(s, n)
    BY <2>1 DEF InHand, Carries
  <2>3. OwedIsCarried'
    BY <2>1, <2>2 DEF OwedInv, OwedIsCarried
  <2> QED
    BY <2>1, <2>2, <2>3 DEF OwedInv
<1>2. CASE \E s \in Subs : SubscribeInitial(s) \/ SubscribeRefresh(s)
  BY <1>2, SubscribeCarries DEF DialogInv
<1>3. CASE \E ok \in BOOLEAN : RequestReturns(ok)
  BY <1>3, ReturnsCarries
<1>4. CASE EvsubCallback
  BY <1>4, ClientRefreshCarries, TerminatesCarries, TsxStateCarries DEF EvsubCallback
<1>5. CASE \E a \in Connections : CloseConnection(a)
  BY <1>5, CloseCarries
<1>6. CASE SubscriptionsGone
  BY <1>6, GoneCarries
<1> QED
  BY <1>1, <1>2, <1>3, <1>4, <1>5, <1>6
     DEF SubscriptionsNext, PollSteps, SubscribeRefused, allVars

\* Nothing is owed at the start.
LEMMA OwedStarts == SubscriptionsInit => NumberedInv /\ OwedInv
<1> SUFFICES ASSUME SubscriptionsInit PROVE NumberedInv /\ OwedInv
  OBVIOUS
<1>1. NumberedInv
  <2>1. calls = 0 /\ queues["subscribe"] = <<>>
    BY DEF SubscriptionsInit, OwnerInit, Kinds
  <2> QED
    BY SMT, <2>1 DEF NumberedInv
<1>2. owed = {} /\ frame = NoFrame /\ \A s \in Subs : evsub[s] = NoEvsub
  BY DEF SubscriptionsInit
<1>3. NoEvsub.open >= 0
  BY SMT DEF NoEvsub
<1> QED
  BY <1>1, <1>2, <1>3 DEF OwedInv, OwedIsCarried, InHand

\* A SUBSCRIBE that was handled and is not yet reported is never without something that
\* will report it: a transaction of the subscription that has its number, or the handler
\* still in the call that did not start one.  gmv_subscription_on_state gives up no
\* subscription that still carries an operation, and
\* gmv_subscription_on_tsx_state takes none away without reporting it.
THEOREM OwedIsCarriedCorrect == SubscriptionsSpec => []OwedIsCarried
<1> DEFINE Inv == DialogInv /\ SubscriptionInv /\ NumberedInv /\ OwedInv
<1>1. SubscriptionsInit => Inv
  BY DialogInit, SubscriptionInit, OwedStarts DEF SubscriptionsInit
<1>2. Inv /\ [SubscriptionsNext]_allVars => Inv'
  BY DialogNext, SubscriptionsStepOwns, SubscriptionStep, NumberedStep, OwedStep DEF DialogInv
<1>3. Inv => OwedIsCarried
  BY DEF OwedInv
<1> HIDE DEF Inv
<1> QED
  BY <1>1, <1>2, <1>3, PTL DEF SubscriptionsSpec

=============================================================================
