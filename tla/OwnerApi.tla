------------------------------ MODULE OwnerApi ------------------------------
(***************************************************************************)
(* The calls of SipRuntime that send (runtime.rs), from their checks in    *)
(* Rust and in the shim to the queue of each kind and the poll that        *)
(* empties the queues kind by kind, and what becomes of the CSeqs of a     *)
(* dialog when the runtime stops or the process dies and the application   *)
(* goes on from a SipDialogSnapshot.                                       *)
(*                                                                         *)
(* What the handlers do to PJSIP's calls and operations is in              *)
(* CallOperations; here a handler sends, or fails, and uses up a CSeq.  A  *)
(* call that is refused changes nothing, but for a CSeq that the shim's    *)
(* refusal leaves unused.                                                  *)
(*                                                                         *)
(* The application keeps what SipDialogSnapshot asks of it: it counts the  *)
(* CSeq of a request up and saves it before it calls.  It sends requests   *)
(* in a dialog it has had a snapshot of, in the live dialog as long as the *)
(* runtime that made it is there, in the restored one after.               *)
(***************************************************************************)
EXTENDS CSeqAllocator

CONSTANTS
    Owner,         \* the caller that owns the runtime
    Dialogs,       \* Call-IDs of the INVITEs the application makes
    Requests,      \* arguments it passes to the calls
    MaxCalls,      \* bound: calls that are queued
    MaxEvents,     \* bound: events in the channel
    MaxRestarts    \* bound: stops and crashes

ASSUME OwnerAssumption == Owner \in Callers /\ Dialogs # {} /\ "none" \notin Dialogs

ASSUME RequestsAssumption ==
    \A r \in Requests :
        /\ r.kind \in {"message", "invite", "dialog", "restored", "response", "subscribe"}
        /\ r.method \in STRING /\ r.association \in Nat
        /\ \/ r.dialog \in Dialogs
           \/ r.dialog = "none" /\ r.kind \in {"message", "response", "subscribe"}

VARIABLES
    up,            \* started, not stopped
    phase,         \* 0 between polls, else the place in PollOrder
    calling,       \* the call that waits for its CSeq
    queues,        \* message_head .. subscribe_head
    calls,         \* calls queued so far; their operation ids
    identity,      \* CSeq of the SipInviteIdentity of a dialog
    making,        \* the dialog that a thread generates an identity for
    localCSeq,     \* dialog->local.cseq of a live dialog, 0 without one
    sent,          \* CSeqs of the requests sent in a dialog
    saved,         \* CSeq the application has saved for a dialog
    lost,          \* dialogs whose runtime is gone
    events,        \* channel of events that carry a snapshot
    restarts

queueVars == <<queues, calls>>
dialogVars == <<localCSeq, sent>>
appVars == <<identity, making, saved, lost>>
ownerVars == <<allocatorVars, up, phase, calling, queueVars, appVars, dialogVars, events,
               restarts>>

NoCall == [kind |-> "none"]
NoDialog == "none"
Used == -1          \* the identity was passed to send_invite
GivenUp == -1       \* the call was ended before its dialog was known

\* Faulty: SUBSCRIBE is forgotten.
PollOrderShort == <<"events", "message", "invite", "dialog", "response", "timers">>

\* Faulty: the requests of a dialog before the INVITEs.
PollOrderDialogFirst ==
    <<"events", "message", "dialog", "invite", "response", "subscribe", "timers">>

\* A poll: the packets and closes of the transports, the queues by kind, PJSIP's timers
PollOrder ==
    <<"events", "message", "invite", "dialog", "response", "subscribe", "timers">>

Kinds == {"message", "invite", "dialog", "response", "subscribe"}

OwnerInit ==
    /\ AllocatorInit
    /\ up = TRUE /\ phase = 0 /\ calling = NoCall
    /\ queues = [k \in Kinds |-> <<>>] /\ calls = 0
    /\ identity = [d \in Dialogs |-> 0]
    /\ making = [t \in Callers |-> NoDialog]
    /\ localCSeq = [d \in Dialogs |-> 0] /\ sent = [d \in Dialogs |-> <<>>]
    /\ saved = [d \in Dialogs |-> 0] /\ lost = {}
    /\ events = <<>> /\ restarts = 0

-----------------------------------------------------------------------------
(* The checks.  The strings of a request are judged by the worst of them:      *)
(* "plain", "empty" (one that must not be), "nul", "line" (a line break where    *)
(* it is refused) or "long".                                                   *)

\* UDP, or TCP with an association
Reachable(r) == r.protocol = "udp" \/ (r.protocol = "tcp" /\ r.association # 0)

Filled(r) == r.text \notin {"empty", "nul"}

OneLine(r) == Filled(r) /\ r.text # "line"

\* INFO requires content_type and body.
InfoHasBody(r) == r.method = "INFO" => r.body = "typed"

CSeqInRange(cseq) == cseq \in 1 .. MaxCSeq

\* What only gmv_sip_runtime_send_* refuses: strings beyond its buffers, a body
\* beyond a packet, a restored dialog without a remote port.
ShimAccepts(r) == r.text # "long" /\ (r.kind = "restored" => r.port # 0)

\* A call comes between two polls of a runtime that is not stopped.
Ready == up /\ phase = 0 /\ calling = NoCall /\ calls < MaxCalls

QueueOf(kind) == IF kind = "restored" THEN "dialog" ELSE kind

\* The end of a call: the command goes to the end of its queue.
Submit(r, cseq) ==
    IF ShimAccepts(r)
    THEN LET command == [kind |-> r.kind, dialog |-> r.dialog, method |-> r.method,
                         association |-> r.association, cseq |-> cseq,
                         number |-> calls + 1]
         IN /\ queues' = [queues EXCEPT ![QueueOf(r.kind)] = Append(@, command)]
            /\ calls' = calls + 1
    ELSE UNCHANGED queueVars

-----------------------------------------------------------------------------
(* The calls.                                                                *)

\* send_message, up to next_sip_cseq
SendMessage(r) ==
    /\ r.kind = "message" /\ Ready
    /\ r.operation # 0 /\ Reachable(r) /\ Filled(r) /\ r.body = "typed"
    /\ calling' = r
    /\ Load(Owner)
    /\ UNCHANGED <<up, phase, queueVars, appVars, dialogVars, events, restarts>>

\* send_invite with an identity that was generated for it
SendInvite(r) ==
    /\ r.kind = "invite" /\ Ready
    /\ r.operation # 0 /\ Reachable(r) /\ OneLine(r) /\ r.body # "none"
    /\ CSeqInRange(identity[r.dialog])
    /\ Submit(r, identity[r.dialog])
    /\ identity' = [identity EXCEPT ![r.dialog] = IF ShimAccepts(r) THEN Used ELSE @]
    /\ UNCHANGED <<allocatorVars, up, phase, calling, making, saved, lost, dialogVars,
                   events, restarts>>

\* send_dialog_request; a BYE may come before the dialog is known.  The command has
\* no CSeq, the live dialog does: cseq records the one the application has saved.
SendDialogRequest(r) ==
    /\ r.kind = "dialog" /\ Ready
    /\ r.operation # 0 /\ Filled(r) /\ InfoHasBody(r)
    /\ r.dialog \notin lost
    /\ \/ saved[r.dialog] > 0 /\ saved' = [saved EXCEPT ![r.dialog] = @ + 1]
       \/ /\ saved[r.dialog] = 0 /\ identity[r.dialog] = Used /\ r.method = "BYE"
          /\ saved' = [saved EXCEPT ![r.dialog] = GivenUp]
    /\ Submit(r, saved[r.dialog] + 1)
    /\ UNCHANGED <<allocatorVars, up, phase, calling, identity, making, lost, dialogVars,
                   events, restarts>>

\* send_restored_dialog_request with the snapshot's CSeq counted up and saved
SendRestoredDialogRequest(r) ==
    /\ r.kind = "restored" /\ Ready
    /\ r.operation # 0 /\ Reachable(r) /\ OneLine(r) /\ InfoHasBody(r)
    /\ r.dialog \in lost /\ saved[r.dialog] > 0
    /\ CSeqInRange(saved[r.dialog] + 1)
    /\ saved' = [saved EXCEPT ![r.dialog] = @ + 1]
    /\ Submit(r, saved[r.dialog] + 1)
    /\ UNCHANGED <<allocatorVars, up, phase, calling, identity, making, lost, dialogVars,
                   events, restarts>>

\* respond_invite
RespondInvite(r) ==
    /\ r.kind = "response" /\ Ready
    /\ r.status \in 200 .. 699 /\ (r.status < 300 => r.body = "sdp") /\ Filled(r)
    /\ Submit(r, 0)
    /\ UNCHANGED <<allocatorVars, up, phase, calling, appVars, dialogVars, events, restarts>>

\* send_subscribe: the first of a subscription takes a CSeq, a refresh does not.
SendSubscribe(r) ==
    /\ r.kind = "subscribe" /\ Ready
    /\ r.operation # 0 /\ Reachable(r) /\ Filled(r) /\ r.body # "untyped"
    /\ IF r.method = "initial"
       THEN r.expires # 0 /\ calling' = r /\ Load(Owner) /\ UNCHANGED queueVars
       ELSE Submit(r, 0) /\ UNCHANGED <<allocatorVars, calling>>
    /\ UNCHANGED <<up, phase, appVars, dialogVars, events, restarts>>

\* SipInviteIdentity::generate, on any thread
GenerateIdentity(t, d) ==
    /\ t # Owner /\ identity[d] = 0 /\ \A u \in Callers : making[u] # d
    /\ making' = [making EXCEPT ![t] = d]
    /\ Load(t)
    /\ UNCHANGED <<up, phase, calling, queueVars, identity, saved, lost, dialogVars, events,
                   restarts>>

\* next_sip_cseq returns, to a call of the owner or to generate.
Allocated(t) ==
    /\ Exchange(t)
    /\ LET cseq == NextValue(current[t]) IN
       IF t = Owner
       THEN /\ Submit(calling, cseq)
            /\ calling' = NoCall
            /\ UNCHANGED <<identity, making>>
       ELSE /\ identity' = [identity EXCEPT ![making[t]] = cseq]
            /\ making' = [making EXCEPT ![t] = NoDialog]
            /\ UNCHANGED <<calling, queueVars>>
    /\ UNCHANGED <<up, phase, saved, lost, dialogVars, events, restarts>>

AllocationRetries(t) ==
    /\ ExchangeFails(t)
    /\ UNCHANGED <<up, phase, calling, queueVars, appVars, dialogVars, events, restarts>>

-----------------------------------------------------------------------------
(* The poll.                                                                 *)

Kind == PollOrder[phase]

\* The next part of a poll that has something to do
After(p) ==
    LET due == {q \in p + 1 .. Len(PollOrder) :
                   PollOrder[q] \in Kinds => queues[PollOrder[q]] # <<>>}
    IN IF due = {} THEN 0 ELSE CHOOSE q \in due : \A r \in due : q <= r

\* A poll begins, or goes on when the queue of a kind is empty, and ends after the last.
PollGoesOn ==
    /\ up /\ calling = NoCall
    /\ phase # 0 /\ Kind \in Kinds => queues[Kind] = <<>>
    /\ phase' = After(phase)
    /\ UNCHANGED <<allocatorVars, up, calling, queueVars, appVars, dialogVars, events,
                   restarts>>

\* local.cseq is a 32-bit integer.
Increment(cseq) == IF cseq = MaxCSeq THEN -MaxCSeq - 1 ELSE cseq + 1

\* A request that PJSIP gives CSeq cseq; local.cseq is its successor.
Sends(d, cseq) ==
    /\ sent' = [sent EXCEPT ![d] = Append(@, cseq)]
    /\ localCSeq' = [localCSeq EXCEPT ![d] = Increment(cseq)]

\* gmv_send_invite_on_owner: a dialog whose local.cseq is the identity's
RunInvite(c) == UNCHANGED dialogVars \/ Sends(c.dialog, c.cseq)

\* gmv_send_dialog_on_owner in a live dialog: it fails, a BYE that comes before the
\* answer is a CANCEL, with the CSeq of its INVITE, or the next CSeq is used.
RunDialog(c) ==
    \/ UNCHANGED dialogVars
    \/ localCSeq[c.dialog] # 0 /\ Sends(c.dialog, localCSeq[c.dialog])

\* gmv_send_dialog_on_owner with a dialog made for the one request
RunRestored(c) ==
    \/ UNCHANGED dialogVars
    \/ sent' = [sent EXCEPT ![c.dialog] = Append(@, c.cseq)] /\ UNCHANGED localCSeq

\* The first command of a queue is handled.  MESSAGEs, answers and SUBSCRIBEs have no
\* part in the dialogs.
RunCommand ==
    /\ phase # 0 /\ Kind \in Kinds /\ queues[Kind] # <<>>
    /\ LET c == Head(queues[Kind]) IN
       \/ c.kind = "invite" /\ RunInvite(c)
       \/ c.kind = "dialog" /\ RunDialog(c)
       \/ c.kind = "restored" /\ RunRestored(c)
       \/ c.kind \in {"message", "response", "subscribe"} /\ UNCHANGED dialogVars
    /\ queues' = [queues EXCEPT ![Kind] = Tail(@)]
    /\ UNCHANGED <<allocatorVars, up, phase, calling, calls, appVars, events, restarts>>

-----------------------------------------------------------------------------
(* Events with snapshots.                                                    *)

\* Faulty: the CSeq before the last.
SnapshotBehind(d) == localCSeq[d] - 2

\* dialog_local_cseq: the CSeq that was used last
Snapshot(d) == localCSeq[d] - 1

\* copy_dialog_snapshot drops one without a CSeq.
CopiesSnapshot(d) == Snapshot(d) # 0

\* A response in a live dialog.  gmv_emit_event_ex adds the dialog unless local.cseq
\* has overflowed, and the callback sends the event.
EmitResponse(d) ==
    /\ up /\ phase # 0 /\ Len(events) < MaxEvents
    /\ localCSeq[d] > 0 /\ CopiesSnapshot(d)
    /\ events' = Append(events, [dialog |-> d, cseq |-> Snapshot(d)])
    /\ UNCHANGED <<allocatorVars, up, phase, calling, queueVars, appVars, dialogVars,
                   restarts>>

\* The application takes an event and saves the snapshot unless it is behind.
TakeEvent ==
    /\ events # <<>>
    /\ LET e == Head(events) IN
       saved' = [saved EXCEPT ![e.dialog] = IF @ # GivenUp /\ e.cseq > @ THEN e.cseq ELSE @]
    /\ events' = Tail(events)
    /\ UNCHANGED <<allocatorVars, up, phase, calling, queueVars, identity, making, lost,
                   dialogVars, restarts>>

-----------------------------------------------------------------------------
(* Stop and crash.                                                           *)

\* What the end of a runtime takes with it.
RuntimeGone ==
    /\ phase' = 0 /\ calling' = NoCall
    /\ queues' = [k \in Kinds |-> <<>>]
    /\ localCSeq' = [d \in Dialogs |-> 0]
    /\ lost' = {d \in Dialogs : identity[d] = Used}
    /\ restarts' = restarts + 1

\* SipRuntime::stop frees the queues; the counter and the events stay.
StopRuntime ==
    /\ up /\ phase = 0 /\ calling = NoCall /\ restarts < MaxRestarts
    /\ up' = FALSE
    /\ RuntimeGone
    /\ UNCHANGED <<allocatorVars, calls, identity, making, saved, sent, events>>

\* The process starts another runtime.
StartAgain ==
    /\ ~up /\ up' = TRUE
    /\ UNCHANGED <<allocatorVars, phase, calling, queueVars, appVars, dialogVars, events,
                   restarts>>

\* The process dies at any point and is started again: only what was saved is left.
Crash ==
    /\ restarts < MaxRestarts
    /\ RestartProcess
    /\ up' = TRUE
    /\ RuntimeGone
    /\ identity' = [d \in Dialogs |-> IF identity[d] = Used THEN Used ELSE 0]
    /\ making' = [t \in Callers |-> NoDialog]
    /\ events' = <<>>
    /\ UNCHANGED <<calls, saved, sent>>

-----------------------------------------------------------------------------
Call(r) ==
    \/ SendMessage(r) \/ SendInvite(r) \/ SendDialogRequest(r)
    \/ SendRestoredDialogRequest(r) \/ RespondInvite(r) \/ SendSubscribe(r)

\* next_sip_cseq, of the owner and of generate
Threads ==
    \E t \in Callers : \/ \E d \in Dialogs : GenerateIdentity(t, d)
                      \/ Allocated(t) \/ AllocationRetries(t)

\* A retry that reads the latest value
RetriesWithLatest(t) == AllocationRetries(t) /\ current'[t] = sequence

OwnerNext ==
    \/ \E r \in Requests : Call(r)
    \/ Threads \/ PollGoesOn \/ RunCommand
    \/ (\E d \in Dialogs : EmitResponse(d)) \/ TakeEvent
    \/ StopRuntime \/ StartAgain \/ Crash

OwnerSpec == OwnerInit /\ [][OwnerNext]_ownerVars

-----------------------------------------------------------------------------
(* Properties.                                                              *)

\* The CSeqs of a dialog rise and stay in range, from the INVITE on, over requests in
\* the live dialog, stops, crashes at any point and requests in the restored dialog.
\* Left out are the requests after local.cseq has overflowed.
DialogCSeqRises ==
    \A d \in Dialogs : \A i \in 1 .. Len(sent[d]) :
        sent[d][i] > 0 => /\ CSeqInRange(sent[d][i])
                          /\ \A j \in 1 .. i - 1 : sent[d][j] < sent[d][i]

DialogCommands ==
    UNION {{queues[k][i] : i \in DOMAIN queues[k]} : k \in {"invite", "dialog"}}

\* The poll takes the queues by kind and still keeps the order of the calls for one
\* dialog: no request in it is handled before its INVITE or before an earlier one.
CallOrder ==
    phase # 0 /\ Kind \in Kinds /\ queues[Kind] # <<>> =>
        LET c == Head(queues[Kind]) IN
        \A e \in DialogCommands : c \in DialogCommands /\ e.dialog = c.dialog
                                      => e.number >= c.number

\* Every call that was queued is handled, or dropped by the end of the runtime: the
\* queues are all empty again and again.
EveryCallHandled == []<>(\A k \in Kinds : queues[k] = <<>>)

=============================================================================
