--------------------------- MODULE CallOperations ---------------------------
(***************************************************************************)
(* The operations of the application on calls (INVITE, BYE or CANCEL,      *)
(* INFO, a request in a restored dialog), MESSAGE, and incoming INVITEs:   *)
(* which C objects they own, who frees them, and what the application      *)
(* hears.                                                                  *)
(*                                                                         *)
(* Everything runs on the owner thread, but a call into PJSIP that sends   *)
(* may call back before it returns.  `frame' is the handler that is inside *)
(* such a call; its object is held (active_calls) so that a callback which *)
(* removes it does not free it under the handler.                          *)
(*                                                                         *)
(* A command is queued by one call and handled in the next poll; nothing   *)
(* that matters here happens in between, so the two are one action.  The   *)
(* walk of the list by Call-ID is the choice of the call: Call-IDs of live *)
(* calls differ.  Stopping the runtime is not modelled.                    *)
(***************************************************************************)
EXTENDS Integers, FiniteSets

CONSTANTS
    Associations,     \* of UDP or TCP
    TcpAssociations,  \* the ones that can close
    MaxCalls,         \* bound: gmv_invite_call_t objects allocated
    MaxOperations     \* bound: operation ids used

ASSUME CallConstants ==
    /\ TcpAssociations \subseteq Associations
    /\ MaxCalls \in Nat /\ MaxOperations \in Nat

VARIABLES
    call,         \* gmv_invite_call_t, by allocation
    inviteCalls,  \* runtime->invite_calls
    session,      \* the pjsip_inv_session of a call and its transactions
    operation,    \* gmv_dialog_operation_t and gmv_outbound_operation_t, by operation id
    request,      \* the transaction of an operation of its own
    frame,        \* the handler that is inside a call into PJSIP
    open,         \* associations with a transport
    calls,        \* number of calls allocated so far
    operations,   \* number of operation ids used so far
    responses,    \* final OutboundResponse events of each operation
    faults,       \* RuntimeFault events of each operation
    misread       \* history: the call through which freed memory was first read

vars == <<call, inviteCalls, session, operation, request, frame, open, calls,
          operations, responses, faults, misread>>

Calls == 1 .. MaxCalls
Operations == 1 .. MaxOperations

\* opId and dialogOp are 0 for none; invite says whether call->invite is set.
CallType == [kind : {"none", "uac", "uas", "restored"}, opId : 0 .. MaxOperations,
             dialogOp : 0 .. MaxOperations, assoc : Associations \cup {"none"},
             finalEmitted : BOOLEAN, invite : BOOLEAN, active : Nat,
             cleanup : BOOLEAN, allocated : BOOLEAN]

\* modData: mod_data of the session points to its call.  inviteTsx is the INVITE
\* transaction of a UAC; ends counts the open BYE and CANCEL transactions,
\* endDone says that one that is final may report once more, deferred that
\* pjsip_inv_end_session waits for a response to the INVITE, answeredBy is the
\* last BYE operation for which it answered the INVITE instead.
SessionType == [state : {"none", "early", "confirmed", "disconnected"}, modData : BOOLEAN,
                inviteTsx : {"none", "open", "2xx", "failed"},
                ends : 0 .. MaxOperations, endDone : BOOLEAN, deferred : BOOLEAN,
                answeredBy : 0 .. MaxOperations]

\* An INFO on an incoming call is of kind uasInfo.  restoredCall is 0 for NULL; a
\* MESSAGE has only finalEmitted.
OperationType == [kind : {"none", "info", "uasInfo", "restored", "message"},
                  restoredCall : 0 .. MaxCalls, sessionHeld : BOOLEAN,
                  finalEmitted : BOOLEAN, active : Nat, cleanup : BOOLEAN,
                  allocated : BOOLEAN]

\* token: mod_data of the transaction points to its operation.  sessions counts
\* pjsip_dlg_inc_session minus pjsip_dlg_dec_session on the restored dialog.
RequestType == [tsx : {"none", "open", "final", "dropped"}, token : BOOLEAN, sessions : 0 .. 1]

NoFrame == [at |-> "poll", of |-> 0]

Frames == {NoFrame} \cup [at : {"invite", "end", "answer"}, of : Calls]
                    \cup [at : {"request"}, of : Operations]

NoCall == [kind |-> "none", opId |-> 0, dialogOp |-> 0, assoc |-> "none",
           finalEmitted |-> FALSE, invite |-> FALSE, active |-> 0,
           cleanup |-> FALSE, allocated |-> FALSE]

NoSession == [state |-> "none", modData |-> FALSE, inviteTsx |-> "none", ends |-> 0,
              endDone |-> FALSE, deferred |-> FALSE, answeredBy |-> 0]

NoOperation == [kind |-> "none", restoredCall |-> 0, sessionHeld |-> FALSE,
                finalEmitted |-> FALSE, active |-> 0, cleanup |-> FALSE,
                allocated |-> FALSE]

Init ==
    /\ call = [c \in Calls |-> NoCall] /\ inviteCalls = {}
    /\ session = [c \in Calls |-> NoSession]
    /\ operation = [o \in Operations |-> NoOperation]
    /\ request = [o \in Operations |-> [tsx |-> "none", token |-> FALSE, sessions |-> 0]]
    /\ frame = NoFrame
    /\ open = Associations
    /\ calls = 0 /\ operations = 0
    /\ responses = [o \in Operations |-> 0] /\ faults = [o \in Operations |-> 0]
    /\ misread = 0

-----------------------------------------------------------------------------
(* Holding, releasing and removing an object.                               *)

\* Faulty: never frees.
ReleasedOnly(k) == IF k.active = 0 THEN k ELSE [k EXCEPT !.active = @ - 1]

\* gmv_release_invite_call and gmv_release_dialog_operation
Released(k) ==
    IF k.active = 0 THEN k
    ELSE [k EXCEPT !.active = @ - 1, !.allocated = @ /\ ~(k.active = 1 /\ k.cleanup)]

\* Faulty: frees a call that a handler holds.
RemovedCallAtOnce(c, k) ==
    IF k.cleanup \/ c \notin inviteCalls THEN k
    ELSE [k EXCEPT !.cleanup = TRUE, !.allocated = FALSE]

\* gmv_remove_invite_call: unlink, and free unless a handler holds it.
RemovedCall(c, k) ==
    IF k.cleanup \/ c \notin inviteCalls THEN k
    ELSE [k EXCEPT !.cleanup = TRUE, !.allocated = k.active # 0]

\* The end of a call in a callback: its session forgets it and it is removed.
DropCall(c, k, s) ==
    /\ call' = [call EXCEPT ![c] = RemovedCall(c, [k EXCEPT !.invite = FALSE])]
    /\ inviteCalls' = inviteCalls \ {c}
    /\ session' = [session EXCEPT ![c] = [s EXCEPT !.modData = FALSE]]

\* PJSIP frees a session that has ended when its last transaction is over.
SessionLives(c) ==
    \/ session[c].state # "disconnected"
    \/ session[c].inviteTsx = "open" \/ session[c].ends > 0

\* misread after freed memory of one of the calls cs was read; 0 is none.
Misread(cs) == IF misread = 0 THEN cs ELSE {misread}

Freed(d) == d # 0 /\ ~call[d].allocated

\* The calls that gmv_remove_invite_call removes: the one the pointer was set to
\* while it is allocated.  Afterwards the function reads cleanup_pending in freed
\* memory: it returns, as that was set before the free, or, when the memory was
\* used again, finds nothing in the list or a call that was allocated there.
Denotes(d) == IF Freed(d) THEN {0} \cup {e \in inviteCalls : e > d} ELSE {d}

\* gmv_complete_dialog_operation on the operation itself
CompletedOperation(p) ==
    IF p.cleanup THEN p
    ELSE [p EXCEPT !.cleanup = TRUE, !.sessionHeld = FALSE, !.restoredCall = 0,
                   !.allocated = p.active # 0]

\* Faulty: takes a session from the dialog of a live call, too.
CompleteDialogOperationAny(o, p, r) ==
    /\ request' = [request EXCEPT ![o] = [r EXCEPT !.sessions = @ - 1]]
    /\ \E d \in Denotes(p.restoredCall) :
          /\ inviteCalls' = inviteCalls \ {d}
          /\ call' = IF d = 0 THEN call
                     ELSE [call EXCEPT ![d] = RemovedCall(d, call[d])]
    /\ misread' \in Misread(IF Freed(p.restoredCall) THEN {p.restoredCall} ELSE {0})

\* ... and on what it refers to: the restored dialog and the restored call.
CompleteDialogOperation(o, p, r) ==
    /\ request' = [request EXCEPT ![o] =
                      [r EXCEPT !.sessions = IF p.sessionHeld THEN @ - 1 ELSE @]]
    /\ \E d \in Denotes(p.restoredCall) :
          /\ inviteCalls' = inviteCalls \ {d}
          /\ call' = IF d = 0 THEN call
                     ELSE [call EXCEPT ![d] = RemovedCall(d, call[d])]
    /\ misread' \in Misread(IF Freed(p.restoredCall) THEN {p.restoredCall} ELSE {0})

Responds(o) == responses' = [responses EXCEPT ![o] = @ + 1]

\* gmv_emit_command_fault
Faults(o, ok) == faults' = IF ok THEN faults ELSE [faults EXCEPT ![o] = @ + 1]

\* PJSIP calls back from a poll, or from inside the call a handler has made.
CallsBack(at, of) == frame = NoFrame \/ (frame.at \in at /\ frame.of = of)

-----------------------------------------------------------------------------
(* Commands of the application.                                             *)

\* A command that is refused before anything is listed or sent: no transport,
\* no such call, a BYE already under way, an error of PJSIP or of malloc.
CommandFails ==
    /\ frame = NoFrame /\ operations < MaxOperations
    /\ operations' = operations + 1
    /\ Faults(operations + 1, FALSE)
    /\ UNCHANGED <<call, inviteCalls, session, operation, request, frame, open, calls,
                   responses, misread>>

\* gmv_send_invite_on_owner up to pjsip_inv_send_msg
SendInvite(a) ==
    /\ frame = NoFrame /\ a \in open
    /\ calls < MaxCalls /\ operations < MaxOperations
    /\ calls' = calls + 1 /\ operations' = operations + 1
    /\ call' = [call EXCEPT ![calls + 1] =
                   [NoCall EXCEPT !.kind = "uac", !.opId = operations + 1, !.assoc = a,
                                  !.invite = TRUE, !.active = 1, !.allocated = TRUE]]
    /\ inviteCalls' = inviteCalls \cup {calls + 1}
    /\ session' = [session EXCEPT ![calls + 1] =
                      [NoSession EXCEPT !.state = "early", !.modData = TRUE,
                                        !.inviteTsx = "open"]]
    /\ frame' = [at |-> "invite", of |-> calls + 1]
    /\ UNCHANGED <<operation, request, open, responses, faults, misread>>

\* ... and what it does when pjsip_inv_send_msg returns
InviteSent(ok) ==
    LET c == frame.of
        k == call[c]
        undo == ~ok /\ ~k.cleanup
    IN
    /\ frame.at = "invite"
    /\ call' = [call EXCEPT ![c] =
                   Released(IF undo THEN RemovedCall(c, [k EXCEPT !.invite = FALSE]) ELSE k)]
    /\ inviteCalls' = IF undo THEN inviteCalls \ {c} ELSE inviteCalls
    /\ session' = IF undo THEN [session EXCEPT ![c].modData = FALSE] ELSE session
    /\ Faults(k.opId, ok)
    /\ frame' = NoFrame
    /\ UNCHANGED <<operation, request, open, calls, operations, responses, misread>>

\* How pjsip_inv_end_session takes a BYE: it waits for a response to the INVITE,
\* makes a CANCEL or a BYE, or answers, with the 200 it is given, an incoming
\* INVITE that has no final response yet.
Ends(c, how) ==
    \/ how = "waits" /\ session[c].inviteTsx = "open"
    \/ how = "sends" /\ (call[c].kind = "uac" \/ session[c].state = "confirmed")
    \/ how = "answers" /\ call[c].kind = "uas" /\ session[c].state = "early"

\* gmv_send_dialog_on_owner with BYE on a live call, up to pjsip_inv_send_msg
EndCall(c, how) ==
    /\ frame = NoFrame /\ operations < MaxOperations
    /\ c \in inviteCalls /\ call[c].invite /\ call[c].dialogOp = 0
    /\ session[c].state # "disconnected" /\ Ends(c, how)
    /\ operations' = operations + 1
    /\ call' = [call EXCEPT ![c].dialogOp = operations + 1,
                            ![c].active = IF how = "waits" THEN @ ELSE @ + 1]
    /\ session' = [session EXCEPT
                      ![c].deferred = (how = "waits"),
                      ![c].ends = IF how = "sends" THEN @ + 1 ELSE @,
                      ![c].answeredBy = IF how = "answers" THEN operations + 1 ELSE @]
    /\ frame' = IF how = "waits" THEN NoFrame ELSE [at |-> "end", of |-> c]
    /\ UNCHANGED <<inviteCalls, operation, request, open, calls, responses, faults, misread>>

\* pjsip_inv_send_msg returns; the answer to an INVITE has then moved the session,
\* and it fails only after the transaction of a BYE or CANCEL has reported.
EndSent(ok) ==
    LET c == frame.of IN
    /\ frame.at = "end"
    /\ IF ok THEN call[c].kind = "uac" \/ session[c].state # "early"
             ELSE session[c].ends = 0
    /\ call' = [call EXCEPT ![c] =
                   Released(IF ok THEN @ ELSE [@ EXCEPT !.dialogOp = 0])]
    /\ Faults(operations, ok)
    /\ frame' = NoFrame
    /\ UNCHANGED <<inviteCalls, session, operation, request, open, calls, operations,
                   responses, misread>>

\* gmv_respond_invite_on_owner: only on an incoming call
AnswerCall(c) ==
    /\ frame = NoFrame
    /\ c \in inviteCalls /\ call[c].invite /\ call[c].opId = 0
    /\ session[c].state = "early"
    /\ call' = [call EXCEPT ![c].active = @ + 1]
    /\ frame' = [at |-> "answer", of |-> c]
    /\ UNCHANGED <<inviteCalls, session, operation, request, open, calls, operations,
                   responses, faults, misread>>

\* pjsip_inv_send_msg returns; the final response has moved the session on.
AnswerSent ==
    /\ frame.at = "answer" /\ session[frame.of].state # "early"
    /\ call' = [call EXCEPT ![frame.of] = Released(@)]
    /\ frame' = NoFrame
    /\ UNCHANGED <<inviteCalls, session, operation, request, open, calls, operations,
                   responses, faults, misread>>

\* A request with a transaction of its own is handed to PJSIP, which may fail
\* before it has made the transaction.
BeginRequest(p, sessions) ==
    /\ frame = NoFrame /\ operations < MaxOperations
    /\ operations' = operations + 1
    /\ operation' = [operation EXCEPT ![operations + 1] = p]
    /\ \E made \in BOOLEAN :
          request' = [request EXCEPT ![operations + 1] =
                         [tsx |-> IF made THEN "open" ELSE "none", token |-> made,
                          sessions |-> sessions]]
    /\ frame' = [at |-> "request", of |-> operations + 1]
    /\ UNCHANGED <<session, open, responses, faults>>

\* gmv_send_message_on_owner; the operation is part of the tdata's pool
SendMessage ==
    /\ open # {}
    /\ BeginRequest([NoOperation EXCEPT !.kind = "message"], 0)
    /\ UNCHANGED <<call, inviteCalls, calls, misread>>

\* gmv_send_dialog_on_owner with INFO on a live call
SendInfo(c) ==
    /\ c \in inviteCalls /\ call[c].invite
    /\ BeginRequest([NoOperation EXCEPT
                        !.kind = IF call[c].kind = "uac" THEN "info" ELSE "uasInfo",
                        !.active = 1, !.allocated = TRUE], 0)
    /\ misread' \in Misread(IF SessionLives(c) THEN {0} ELSE {c})
    /\ UNCHANGED <<call, inviteCalls, calls>>

\* A BYE or an INFO on, or an answer to, a call whose session PJSIP has freed, when
\* what is read there refuses it.
UseFreedSession(c) ==
    /\ frame = NoFrame
    /\ c \in inviteCalls /\ call[c].invite /\ ~SessionLives(c)
    /\ misread' \in Misread({c})
    /\ \/ /\ operations < MaxOperations /\ operations' = operations + 1
          /\ Faults(operations + 1, FALSE)
       \/ UNCHANGED <<operations, faults>>
    /\ UNCHANGED <<call, inviteCalls, session, operation, request, frame, open, calls,
                   responses>>

\* gmv_send_dialog_on_owner with a restored dialog: the request gets a dialog,
\* whose session it holds, and a call that only carries the route.
SendRestored(a) ==
    /\ a \in open /\ calls < MaxCalls
    /\ BeginRequest([NoOperation EXCEPT !.kind = "restored", !.restoredCall = calls + 1,
                                        !.sessionHeld = TRUE, !.active = 1,
                                        !.allocated = TRUE], 1)
    /\ calls' = calls + 1
    /\ call' = [call EXCEPT ![calls + 1] =
                   [NoCall EXCEPT !.kind = "restored", !.assoc = a, !.allocated = TRUE]]
    /\ inviteCalls' = inviteCalls \cup {calls + 1}
    /\ UNCHANGED misread

\* pjsip_dlg_send_request or pjsip_endpt_send_request returns.  It fails when it
\* has made no transaction or after the transaction has reported its end, and
\* always when it has dropped the transaction.
RequestSent(ok) ==
    LET o == frame.of
        p == operation[o]
        complete == ~ok /\ p.kind # "message" /\ ~p.cleanup
    IN
    /\ frame.at = "request"
    /\ IF ok THEN request[o].tsx \in {"open", "final"} ELSE request[o].tsx # "open"
    /\ operation' = [operation EXCEPT ![o] =
                        Released(IF complete THEN CompletedOperation(p) ELSE p)]
    /\ IF complete THEN CompleteDialogOperation(o, p, request[o])
                   ELSE UNCHANGED <<request, call, inviteCalls, misread>>
    /\ Faults(o, ok)
    /\ frame' = NoFrame
    /\ UNCHANGED <<session, open, calls, operations, responses>>

-----------------------------------------------------------------------------
(* Callbacks of PJSIP.  They come in any order that its transactions allow.  *)

\* How a session can move: an incoming call is confirmed by an answer.
SessionMoves(c, to) ==
    /\ session[c].state \in {"early", "confirmed"} /\ session[c].state # to
    /\ to = "disconnected" \/ (call[c].kind = "uas" /\ frame.at \in {"answer", "end"})


\* Faulty: leaves the call to its transactions.
InviteStateChangedOnly(c, to) ==
    /\ CallsBack({"invite", "end", "answer"}, c)
    /\ session[c].modData /\ SessionMoves(c, to)
    /\ session' = [session EXCEPT ![c].state = to]
    /\ UNCHANGED <<call, inviteCalls, operation, request, frame, open, calls, operations,
                   responses, faults, misread>>

\* gmv_invite_on_state_changed
InviteStateChanged(c, to) ==
    LET k == call[c]
        s == [session[c] EXCEPT !.state = to]
    IN
    /\ CallsBack({"invite", "end", "answer"}, c)
    /\ session[c].modData /\ SessionMoves(c, to)
    /\ IF to = "disconnected" /\ k.finalEmitted /\ k.dialogOp = 0
       THEN DropCall(c, k, s)
       ELSE session' = [session EXCEPT ![c] = s] /\ UNCHANGED <<call, inviteCalls>>
    /\ UNCHANGED <<operation, request, frame, open, calls, operations, responses, faults,
                   misread>>

\* A response to the INVITE, or its timeout; a final one is reported again when
\* the transaction ends.  PJSIP moves the session before it reports: a failure
\* finds it disconnected, and one that has ended gets no more successes.
InviteReports(c, code) ==
    LET s == session[c] IN
    \/ s.inviteTsx = "open" /\ (code = "failed" <=> s.state = "disconnected")
    \/ s.inviteTsx = code

\* The session after it: a success confirms it, and once the peer has responded
\* PJSIP sends the CANCEL or BYE that was waiting.
AfterInviteReport(s, code) ==
    LET ends == s.deferred /\ code # "failed" IN
    [s EXCEPT !.inviteTsx = IF code = "1xx" THEN @ ELSE code,
              !.state = IF code = "2xx" /\ @ = "early" THEN "confirmed" ELSE @,
              !.deferred = @ /\ ~ends,
              !.ends = IF ends THEN @ + 1 ELSE @]

\* gmv_invite_on_tsx_state_changed for the INVITE
InviteTsxState(c, code) ==
    LET k == call[c]
        s == AfterInviteReport(session[c], code)
        final == code # "1xx"
    IN
    /\ CallsBack({"invite", "end"}, c)
    /\ session[c].modData /\ InviteReports(c, code)
    /\ IF final /\ ~k.finalEmitted
       THEN /\ Responds(k.opId)
            /\ IF s.state = "disconnected"
               THEN DropCall(c, [k EXCEPT !.finalEmitted = TRUE], s)
               ELSE /\ call' = [call EXCEPT ![c].finalEmitted = TRUE]
                    /\ session' = [session EXCEPT ![c] = s]
                    /\ UNCHANGED inviteCalls
       ELSE session' = [session EXCEPT ![c] = s] /\ UNCHANGED <<call, inviteCalls, responses>>
    /\ UNCHANGED <<operation, request, frame, open, calls, operations, faults, misread>>

\* gmv_invite_on_tsx_state_changed for the final response to a BYE or CANCEL, or
\* for the end of its transaction afterwards
EndTsxState(c, again) ==
    LET k == call[c]
        s == IF again THEN [session[c] EXCEPT !.endDone = FALSE]
                      ELSE [session[c] EXCEPT !.endDone = TRUE, !.ends = @ - 1]
    IN
    /\ CallsBack({"end"}, c)
    /\ session[c].modData
    /\ IF again THEN session[c].endDone ELSE session[c].ends > 0
    /\ IF k.dialogOp # 0
       THEN /\ Responds(k.dialogOp)
            /\ IF s.state = "disconnected"
               THEN DropCall(c, [k EXCEPT !.dialogOp = 0], s)
               ELSE /\ call' = [call EXCEPT ![c].dialogOp = 0]
                    /\ session' = [session EXCEPT ![c] = s]
                    /\ UNCHANGED inviteCalls
       ELSE session' = [session EXCEPT ![c] = s] /\ UNCHANGED <<call, inviteCalls, responses>>
    /\ UNCHANGED <<operation, request, frame, open, calls, operations, faults, misread>>

\* When the transaction of a request reports: with a final status, a second
\* time when it ends, or without a status when sending it fails.
RequestReports(o, status) ==
    /\ CallsBack({"request"}, o) /\ request[o].token
    /\ IF status THEN request[o].tsx \in {"open", "final"}
                 ELSE request[o].tsx = "open" /\ frame # NoFrame

Ended(status) == IF status THEN "final" ELSE "dropped"

\* Faulty: every report with a final status is an event.
OutboundCallbackAlways(o, status) ==
    /\ operation[o].kind = "message" /\ RequestReports(o, status)
    /\ request' = [request EXCEPT ![o].tsx = Ended(status)]
    /\ operation' = [operation EXCEPT ![o].finalEmitted = @ \/ status]
    /\ IF status THEN Responds(o) ELSE UNCHANGED responses
    /\ UNCHANGED <<call, inviteCalls, session, frame, open, calls, operations, faults,
                   misread>>

\* gmv_outbound_callback: the transaction of a MESSAGE
OutboundCallback(o, status) ==
    LET emits == status /\ ~operation[o].finalEmitted IN
    /\ operation[o].kind = "message" /\ RequestReports(o, status)
    /\ request' = [request EXCEPT ![o].tsx = Ended(status)]
    /\ operation' = [operation EXCEPT ![o].finalEmitted = @ \/ emits]
    /\ IF emits THEN Responds(o) ELSE UNCHANGED responses
    /\ UNCHANGED <<call, inviteCalls, session, frame, open, calls, operations, faults,
                   misread>>

\* gmv_on_tsx_state: the transaction of an INFO or of a restored dialog.  PJSIP
\* tells the usages of a dialog, and the shim's module is one of a dialog that it
\* has made, not of the dialog of an incoming call.
OnTsxState(o, status) ==
    /\ operation[o].kind \in {"info", "restored"} /\ RequestReports(o, status)
    /\ operation' = [operation EXCEPT ![o] = CompletedOperation(@)]
    /\ CompleteDialogOperation(o, operation[o],
                               [request[o] EXCEPT !.tsx = Ended(status), !.token = FALSE])
    /\ IF status THEN Responds(o) ELSE UNCHANGED responses
    /\ UNCHANGED <<session, frame, open, calls, operations, faults>>

\* The transaction of an INFO on an incoming call: the shim is not told.
TsxUnheard(o, status) ==
    /\ operation[o].kind = "uasInfo" /\ RequestReports(o, status)
    /\ request' = [request EXCEPT ![o].tsx = Ended(status), ![o].token = FALSE]
    /\ UNCHANGED <<call, inviteCalls, session, operation, frame, open, calls, operations,
                   responses, faults, misread>>

\* gmv_handle_incoming_invite; when it fails it leaves nothing behind
IncomingInvite(a) ==
    /\ frame = NoFrame /\ a \in open /\ calls < MaxCalls
    /\ calls' = calls + 1
    /\ call' = [call EXCEPT ![calls + 1] =
                   [NoCall EXCEPT !.kind = "uas", !.assoc = a, !.finalEmitted = TRUE,
                                  !.invite = TRUE, !.allocated = TRUE]]
    /\ inviteCalls' = inviteCalls \cup {calls + 1}
    /\ session' = [session EXCEPT ![calls + 1] =
                      [NoSession EXCEPT !.state = "early", !.modData = TRUE]]
    /\ UNCHANGED <<operation, request, frame, open, operations, responses, faults, misread>>

\* gmv_process_close_commands: the transport goes, then the calls over it.  What
\* PJSIP calls back while the transport goes is a callback before this step.
CloseAssociation(a) ==
    LET gone == {c \in inviteCalls : call[c].assoc = a} IN
    /\ frame = NoFrame /\ a \in open \cap TcpAssociations
    /\ open' = open \ {a}
    /\ call' = [c \in Calls |->
                   IF c \in gone THEN RemovedCall(c, [call[c] EXCEPT !.invite = FALSE])
                   ELSE call[c]]
    /\ session' = [c \in Calls |->
                      IF c \in gone THEN [session[c] EXCEPT !.modData = FALSE]
                      ELSE session[c]]
    /\ inviteCalls' = inviteCalls \ gone
    /\ misread' \in Misread({0} \cup {c \in gone : call[c].invite /\ ~SessionLives(c)})
    /\ UNCHANGED <<operation, request, frame, calls, operations, responses, faults>>

-----------------------------------------------------------------------------
Handler ==
    \/ \E ok \in BOOLEAN : InviteSent(ok) \/ EndSent(ok) \/ RequestSent(ok)
    \/ AnswerSent

\* The final answer that a handler is sending moves the session.
AnswerMoves ==
    /\ frame.at = "answer"
    /\ \E to \in {"confirmed", "disconnected"} : InviteStateChanged(frame.of, to)

\* send_message, send_invite, send_dialog_request, send_restored_dialog_request,
\* respond_invite and close_transport, with the handling of what they queue
Application ==
    \/ CommandFails \/ SendMessage
    \/ \E a \in Associations : SendInvite(a) \/ SendRestored(a) \/ CloseAssociation(a)
    \/ \E c \in Calls :
          \/ AnswerCall(c) \/ SendInfo(c) \/ UseFreedSession(c)
          \/ \E how \in {"waits", "sends", "answers"} : EndCall(c, how)

Callback ==
    \/ \E a \in Associations : IncomingInvite(a)
    \/ \E c \in Calls :
          \/ \E to \in {"confirmed", "disconnected"} : InviteStateChanged(c, to)
          \/ \E code \in {"1xx", "2xx", "failed"} : InviteTsxState(c, code)
          \/ \E again \in BOOLEAN : EndTsxState(c, again)
    \/ \E o \in Operations, status \in BOOLEAN :
          OutboundCallback(o, status) \/ OnTsxState(o, status) \/ TsxUnheard(o, status)

Next == Handler \/ Application \/ Callback

\* A call into PJSIP returns, and every transaction comes to its end: PJSIP has a
\* timer on each and the poll runs its timers.
Fairness ==
    /\ WF_vars(Handler) /\ WF_vars(AnswerMoves)
    /\ \A c \in Calls :
          /\ WF_vars(InviteTsxState(c, "2xx") \/ InviteTsxState(c, "failed"))
          /\ WF_vars(EndTsxState(c, FALSE))
    /\ \A o \in Operations :
          WF_vars(OutboundCallback(o, TRUE) \/ OnTsxState(o, TRUE) \/ TsxUnheard(o, TRUE))

Spec == Init /\ [][Next]_vars /\ Fairness

-----------------------------------------------------------------------------
\* Every variable has its type; a dialog never loses a session it was not given.
TypeOK ==
    /\ call \in [Calls -> CallType] /\ inviteCalls \subseteq Calls
    /\ session \in [Calls -> SessionType]
    /\ operation \in [Operations -> OperationType]
    /\ request \in [Operations -> RequestType]
    /\ frame \in Frames
    /\ open \subseteq Associations
    /\ calls \in 0 .. MaxCalls /\ operations \in 0 .. MaxOperations
    /\ responses \in [Operations -> Nat] /\ faults \in [Operations -> Nat]
    /\ misread \in 0 .. MaxCalls

\* A BYE has answered the INVITE of this incoming call.  No transaction reports
\* that BYE, so nothing clears dialogOp, or it failed after the session had ended.
AnsweredByBye(c) ==
    session[c].answeredBy # 0 /\ call[c].dialogOp \in {0, session[c].answeredBy}

\* Whatever PJSIP or a handler still refers to is allocated: the call in the
\* mod_data of a session, which is also listed and refers back to it; the session
\* of a listed call; the object of the handler that is inside PJSIP; the operation
\* in the mod_data of a transaction; the call of a restored dialog.  Two references
\* are not kept up, and freed memory is first read through one of them: the
\* restored call of a request in flight when its association closes, and the
\* session of a call that a BYE has answered.
LiveReferences ==
    /\ misread = 0 =>
          /\ \A c \in Calls : session[c].modData =>
                call[c].allocated /\ call[c].invite /\ c \in inviteCalls
          /\ \A c \in inviteCalls :
                call[c].allocated /\ (call[c].invite => SessionLives(c) \/ AnsweredByBye(c))
          /\ frame.at \in {"invite", "end", "answer"} => call[frame.of].allocated
          /\ \A o \in Operations : operation[o].kind \in {"info", "uasInfo", "restored"} =>
                /\ request[o].token \/ frame = [at |-> "request", of |-> o] =>
                      operation[o].allocated
                /\ Freed(operation[o].restoredCall) =>
                      call[operation[o].restoredCall].assoc \notin open
    /\ misread # 0 =>
          \/ call[misread].kind = "restored" /\ call[misread].assoc \notin open
          \/ session[misread].answeredBy # 0

\* Nothing is left behind as long as no freed memory was read: a call that is
\* allocated is listed or a handler holds it; an operation that is allocated has a
\* transaction that will report or a handler that will complete it, but for an INFO
\* that was sent on an incoming call, whose operation is leaked; and a restored
\* dialog loses its session, once, with its operation.
NothingLeftBehind ==
    misread = 0 =>
    /\ \A c \in Calls : call[c].allocated =>
          c \in inviteCalls \/ (frame.at \in {"invite", "end", "answer"} /\ frame.of = c)
    /\ \A o \in Operations :
          /\ operation[o].allocated =>
                \/ request[o].token \/ frame = [at |-> "request", of |-> o]
                \/ operation[o].kind = "uasInfo" /\ request[o].tsx = "final"
          /\ request[o].sessions = IF operation[o].sessionHeld THEN 1 ELSE 0
          /\ operation[o].sessionHeld => ~operation[o].cleanup

\* The application gets at most one final response for an operation, however
\* often PJSIP reports its transaction, and whichever transaction that is.
ResponseOnce == \A o \in Operations : responses[o] <= 1

Reported(o) == responses[o] + faults[o] > 0


\* A call whose session has ended leaves the list, although either of two
\* callbacks, or three with a BYE, may be the last, unless a BYE has answered it
\* or freed memory was read.
EndedCallsLeave ==
    \A c \in Calls : (c \in inviteCalls /\ session[c].state = "disconnected") ~>
                         c \notin inviteCalls \/ AnsweredByBye(c) \/ misread # 0
=============================================================================
