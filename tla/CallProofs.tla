----------------------------- MODULE CallProofs -----------------------------
(***************************************************************************)
(* The invariants of CallOperations, and the steps that change a call that *)
(* is there: its handlers, its callbacks and the BYE or CANCEL that ends   *)
(* it.  ReportInv is about ids and reports and holds over every kind of    *)
(* association.  ObjectInv is about the objects; it holds as long as no    *)
(* freed memory was read.                                                  *)
(***************************************************************************)
EXTENDS CallOperations, TLAPS

\* A leaf that does not name its prover is first-order reasoning, for Zenon.
USE ZenonT(20)

-----------------------------------------------------------------------------
(* The invariant.                                                            *)

CallFrames == {"invite", "end", "answer"}

\* A handler is inside PJSIP with a call, with a request of its own.
Holds(c) == frame.at \in CallFrames /\ frame.of = c
Sending(o) == frame.at = "request" /\ frame.of = o

\* An operation p with its request r, which a handler is sending or not.  The
\* transaction of an INFO or a restored dialog reports once, and completes it; the
\* handler completes the operation that got no transaction, or whose transaction was
\* dropped.  The transaction of an INFO on an incoming call completes nothing.
OperationFine(p, r, sending) ==
    /\ r.sessions = IF p.sessionHeld THEN 1 ELSE 0
    /\ p.kind = "none" => p = NoOperation /\ ~r.token /\ r.tsx = "none" /\ ~sending
    /\ p.kind = "message" => /\ p.active = 0 /\ ~p.cleanup /\ ~p.allocated
                             /\ ~p.sessionHeld /\ p.restoredCall = 0
    /\ p.kind \in {"info", "uasInfo", "restored"} =>
          /\ p.active = IF sending THEN 1 ELSE 0
          /\ p.cleanup => ~p.sessionHeld /\ p.restoredCall = 0 /\ ~r.token
                          /\ (p.allocated <=> sending)
          /\ ~p.cleanup => /\ p.allocated
                           /\ \/ r.token \/ (sending /\ r.tsx \in {"none", "dropped"})
                              \/ p.kind = "uasInfo" /\ r.tsx = "final"
          /\ r.token => r.tsx = "open"

OperationInv == \A o \in Operations : OperationFine(operation[o], request[o], Sending(o))

\* What was not allocated yet
FreshInv ==
    /\ \A c \in Calls : c > calls =>
          /\ call[c] = NoCall /\ session[c] = NoSession /\ c \notin inviteCalls
          /\ frame.at \in CallFrames => frame.of # c
    /\ \A c \in Calls : call[c].opId <= operations /\ call[c].dialogOp <= operations
    /\ \A c \in Calls :
          session[c].ends + (IF session[c].deferred THEN 1 ELSE 0) <= operations
    /\ \A o \in Operations : o > operations => operation[o] = NoOperation /\ responses[o] = 0

\* An operation id stands for the INVITE of one call, for one BYE or CANCEL, or for a
\* request of its own.
UsedOnce ==
    /\ \A c \in Calls, d \in Calls :
          /\ call[c].opId # 0 /\ call[c].opId = call[d].opId => c = d
          /\ call[c].dialogOp # 0 /\ call[c].dialogOp = call[d].dialogOp => c = d
          /\ call[c].opId # 0 => call[c].opId # call[d].dialogOp
    /\ \A o \in Operations, c \in Calls :
          operation[o].kind # "none" => call[c].opId # o /\ call[c].dialogOp # o

\* What is still to be reported was not.
Unreported ==
    /\ \A c \in Calls :
          /\ call[c].opId # 0 /\ ~call[c].finalEmitted => responses[call[c].opId] = 0
          /\ call[c].dialogOp # 0 => responses[call[c].dialogOp] = 0
          /\ session[c].inviteTsx # "none" => call[c].opId # 0
    /\ \A o \in Operations :
          \/ operation[o].kind = "message" /\ ~operation[o].finalEmitted
          \/ operation[o].kind \in {"info", "restored"} /\ request[o].token
          => responses[o] = 0

ReportInv == TypeOK /\ OperationInv /\ FreshInv /\ UsedOnce /\ Unreported /\ ResponseOnce

\* A call k with session s.  One that is listed is whole; one that is not is there only
\* for the handler that holds it, and marked for it to free.
CallFine(k, s, isListed, held) ==
    /\ k.active = (IF held THEN 1 ELSE 0) /\ (held => k.kind # "restored")
    /\ isListed => /\ k.allocated /\ ~k.cleanup /\ (k.invite <=> s.modData)
                   /\ k.kind = "restored" => ~s.modData
    /\ ~isListed => /\ ~s.modData /\ (k.allocated <=> held)
                    /\ held => k.cleanup

CallInv == \A c \in Calls : CallFine(call[c], session[c], c \in inviteCalls, Holds(c))

\* The restored call that an operation refers to is its own, and stays in the list until
\* the operation is completed or its association closes.
RestoredInv ==
    \A o \in Operations : operation[o].restoredCall # 0 =>
        LET c == operation[o].restoredCall IN
        /\ c \in Calls /\ c <= calls /\ call[c].kind = "restored"
        /\ c \in inviteCalls \/ call[c].assoc \notin open
        /\ \A p \in Operations : p # o => operation[p].restoredCall # c

ObjectInv == CallInv /\ RestoredInv

-----------------------------------------------------------------------------
(* The records.                                                              *)

\* What is not there yet has its type.
LEMMA NoneFacts ==
    /\ NoCall \in CallType /\ NoSession \in SessionType /\ NoOperation \in OperationType
    /\ NoFrame \in Frames
BY SMT, CallConstants
   DEF NoCall, CallType, NoSession, SessionType, NoOperation, OperationType, Frames

\* ... and these fields.
LEMMA NoneFields ==
    /\ NoCall.kind = "none" /\ NoCall.opId = 0 /\ NoCall.dialogOp = 0 /\ ~NoCall.finalEmitted
    /\ NoCall.active = 0 /\ ~NoCall.allocated
    /\ ~NoSession.modData /\ NoSession.inviteTsx = "none" /\ NoSession.ends = 0
    /\ ~NoSession.deferred /\ NoSession.answeredBy = 0
    /\ NoOperation.kind = "none" /\ NoOperation.restoredCall = 0 /\ ~NoOperation.sessionHeld
BY DEF NoCall, NoSession, NoOperation

\* What the handler's place says of it
LEMMA FrameFacts ==
    ASSUME TypeOK
    PROVE  /\ frame.at \in CallFrames => frame.of \in Calls
           /\ frame.at = "request" => frame.of \in Operations
           /\ frame.at \in CallFrames \cup {"request", "poll"}
           /\ frame = NoFrame <=> frame.at = "poll"
           /\ \A o \in Operations : frame = [at |-> "request", of |-> o] <=> Sending(o)
<1>1. frame = NoFrame \/ frame \in [at : CallFrames, of : Calls]
      \/ frame \in [at : {"request"}, of : Operations]
  BY DEF TypeOK, Frames, CallFrames
<1>2. CASE frame = NoFrame
  BY <1>2 DEF NoFrame, CallFrames, Sending
<1>3. CASE frame \in [at : CallFrames, of : Calls]
  BY SMT, <1>3 DEF NoFrame, CallFrames, Sending
<1>4. CASE frame \in [at : {"request"}, of : Operations]
  BY SMT, <1>4 DEF NoFrame, CallFrames, Sending
<1> QED
  BY <1>1, <1>2, <1>3, <1>4

\* The fields of a call that say whom it is for
SameCall(k, l) ==
    /\ k.kind = l.kind /\ k.opId = l.opId /\ k.dialogOp = l.dialogOp /\ k.assoc = l.assoc
    /\ k.finalEmitted = l.finalEmitted

\* gmv_remove_invite_call on a call that is listed
LEMMA RemovedCallFacts ==
    ASSUME NEW c, NEW k \in CallType
    PROVE  LET l == RemovedCall(c, k) IN
           /\ l \in CallType /\ SameCall(l, k) /\ l.invite = k.invite /\ l.active = k.active
           /\ c \in inviteCalls /\ ~k.cleanup => l.cleanup /\ (l.allocated <=> k.active # 0)
           /\ c \notin inviteCalls => l = k
<1>1. CASE k.cleanup \/ c \notin inviteCalls
  BY <1>1 DEF RemovedCall, SameCall
<1>2. CASE ~(k.cleanup \/ c \notin inviteCalls)
  <2>1. RemovedCall(c, k) = [k EXCEPT !.cleanup = TRUE, !.allocated = k.active # 0]
    BY <1>2 DEF RemovedCall
  <2> QED
    BY <1>2, <2>1 DEF CallType, SameCall
<1> QED
  BY <1>1, <1>2

\* gmv_release_invite_call
LEMMA ReleasedCallFacts ==
    ASSUME NEW k \in CallType
    PROVE  LET l == Released(k) IN
           /\ l \in CallType /\ SameCall(l, k) /\ l.invite = k.invite /\ l.cleanup = k.cleanup
           /\ k.active = 1 => l.active = 0 /\ (l.allocated <=> k.allocated /\ ~k.cleanup)
<1>1. CASE k.active = 0
  BY SMT, <1>1 DEF Released, SameCall
<1>2. CASE k.active # 0
  <2>1. Released(k) = [k EXCEPT !.active = @ - 1,
                                !.allocated = @ /\ ~(k.active = 1 /\ k.cleanup)]
    BY <1>2 DEF Released
  <2>2. PICK n \in Nat : n = k.active - 1
    BY SMT, <1>2 DEF CallType
  <2>3. PICK b \in BOOLEAN : b = (k.allocated /\ ~(k.active = 1 /\ k.cleanup))
    OBVIOUS
  <2>4. Released(k) = [k EXCEPT !.active = n, !.allocated = b]
    BY <2>1, <2>2, <2>3
  <2>5. b <=> k.allocated /\ ~(k.active = 1 /\ k.cleanup)
    BY <2>3
  <2>6. /\ Released(k) \in CallType /\ SameCall(Released(k), k)
        /\ Released(k).invite = k.invite /\ Released(k).cleanup = k.cleanup
        /\ Released(k).active = n /\ Released(k).allocated = b
    BY <2>4 DEF CallType, SameCall
  <2>7. k.active \in Nat
    BY DEF CallType
  <2> QED
    BY SMT, <2>2, <2>5, <2>6, <2>7
<1> QED
  BY <1>1, <1>2

\* gmv_release_dialog_operation
LEMMA ReleasedOperationFacts ==
    ASSUME NEW p \in OperationType
    PROVE  LET q == Released(p) IN
           /\ q \in OperationType /\ q.kind = p.kind /\ q.restoredCall = p.restoredCall
           /\ q.sessionHeld = p.sessionHeld /\ q.finalEmitted = p.finalEmitted
           /\ q.cleanup = p.cleanup
           /\ p.active = 1 => q.active = 0 /\ (q.allocated <=> p.allocated /\ ~p.cleanup)
           /\ p.active = 0 => q = p
<1>1. CASE p.active = 0
  BY SMT, <1>1 DEF Released
<1>2. CASE p.active # 0
  <2>1. Released(p) = [p EXCEPT !.active = @ - 1,
                                !.allocated = @ /\ ~(p.active = 1 /\ p.cleanup)]
    BY <1>2 DEF Released
  <2>2. PICK n \in Nat : n = p.active - 1
    BY SMT, <1>2 DEF OperationType
  <2>3. PICK b \in BOOLEAN : b = (p.allocated /\ ~(p.active = 1 /\ p.cleanup))
    OBVIOUS
  <2>4. Released(p) = [p EXCEPT !.active = n, !.allocated = b]
    BY <2>1, <2>2, <2>3
  <2>5. b <=> p.allocated /\ ~(p.active = 1 /\ p.cleanup)
    BY <2>3
  <2>6. LET q == Released(p) IN
        /\ q \in OperationType /\ q.kind = p.kind /\ q.restoredCall = p.restoredCall
        /\ q.sessionHeld = p.sessionHeld /\ q.finalEmitted = p.finalEmitted
        /\ q.cleanup = p.cleanup /\ q.active = n /\ q.allocated = b
    BY <2>4 DEF OperationType
  <2>7. p.active \in Nat
    BY DEF OperationType
  <2> QED
    BY SMT, <1>2, <2>2, <2>5, <2>6, <2>7
<1> QED
  BY <1>1, <1>2

\* gmv_complete_dialog_operation
LEMMA CompletedFacts ==
    ASSUME NEW p \in OperationType, ~p.cleanup
    PROVE  LET q == CompletedOperation(p) IN
           /\ q \in OperationType /\ q.kind = p.kind /\ q.restoredCall = 0 /\ ~q.sessionHeld
           /\ q.finalEmitted = p.finalEmitted /\ q.cleanup /\ q.active = p.active
           /\ q.allocated <=> p.active # 0
<1>1. CompletedOperation(p) =
        [p EXCEPT !.cleanup = TRUE, !.sessionHeld = FALSE, !.restoredCall = 0,
                  !.allocated = p.active # 0]
  BY DEF CompletedOperation
<1>2. 0 \in 0 .. MaxCalls
  BY SMT, CallConstants
<1> QED
  BY <1>1, <1>2 DEF OperationType

-----------------------------------------------------------------------------
(* What is reported.                                                         *)

\* A step that takes no operation id: calls and operations only lose what is to report.
NoneTaken ==
    /\ \A c \in Calls :
          /\ call'[c].opId = call[c].opId /\ call'[c].dialogOp \in {0, call[c].dialogOp}
          /\ call[c].finalEmitted => call'[c].finalEmitted
          /\ session'[c].inviteTsx # "none" => session[c].inviteTsx # "none"
    /\ \A o \in Operations :
          /\ operation'[o].kind = operation[o].kind
          /\ operation[o].finalEmitted => operation'[o].finalEmitted
          /\ request'[o].token => request[o].token

\* It gives no id a second use.
LEMMA NoneTakenUses ==
    ASSUME ReportInv, NoneTaken
    PROVE  UsedOnce'
<1>1. ASSUME NEW c \in Calls, NEW d \in Calls
      PROVE  /\ call'[c].opId # 0 /\ call'[c].opId = call'[d].opId => c = d
             /\ call'[c].dialogOp # 0 /\ call'[c].dialogOp = call'[d].dialogOp => c = d
             /\ call'[c].opId # 0 => call'[c].opId # call'[d].dialogOp
  <2>1. /\ call[c].opId # 0 /\ call[c].opId = call[d].opId => c = d
        /\ call[c].dialogOp # 0 /\ call[c].dialogOp = call[d].dialogOp => c = d
        /\ call[c].opId # 0 => call[c].opId # call[d].dialogOp
    BY DEF ReportInv, UsedOnce
  <2>2. /\ call'[c].opId = call[c].opId /\ call'[d].opId = call[d].opId
        /\ call'[c].dialogOp = 0 \/ call'[c].dialogOp = call[c].dialogOp
        /\ call'[d].dialogOp = 0 \/ call'[d].dialogOp = call[d].dialogOp
    BY DEF NoneTaken
  <2> QED
    BY <2>1, <2>2
<1>2. ASSUME NEW o \in Operations, NEW c \in Calls, operation'[o].kind # "none"
      PROVE  call'[c].opId # o /\ call'[c].dialogOp # o
  <2>1. o # 0
    BY SMT, CallConstants DEF Operations
  <2> QED
    BY SMT, <1>2, <2>1 DEF ReportInv, UsedOnce, NoneTaken
<1> QED
  BY <1>1, <1>2 DEF UsedOnce

\* It keeps what the application is told, when it reports nothing.
LEMMA NoneTakenKeeps ==
    ASSUME ReportInv, TypeOK', OperationInv', FreshInv', NoneTaken, UNCHANGED responses
    PROVE  ReportInv'
<1>1. UsedOnce'
  BY NoneTakenUses
<1>2. Unreported'
  <2>1. ASSUME NEW c \in Calls
        PROVE  /\ call'[c].opId # 0 /\ ~call'[c].finalEmitted => responses'[call'[c].opId] = 0
               /\ call'[c].dialogOp # 0 => responses'[call'[c].dialogOp] = 0
               /\ session'[c].inviteTsx # "none" => call'[c].opId # 0
    BY DEF ReportInv, Unreported, NoneTaken
  <2>2. ASSUME NEW o \in Operations,
               \/ operation'[o].kind = "message" /\ ~operation'[o].finalEmitted
               \/ operation'[o].kind \in {"info", "restored"} /\ request'[o].token
        PROVE  responses'[o] = 0
    BY <2>2 DEF ReportInv, Unreported, NoneTaken
  <2> QED
    BY <2>1, <2>2 DEF Unreported
<1>3. ResponseOnce'
  BY DEF ReportInv, ResponseOnce
<1> QED
  BY <1>1, <1>2, <1>3 DEF ReportInv

\* A response for an operation that was not reported and is not to be reported again
LEMMA RespondsKeeps ==
    ASSUME ReportInv, TypeOK', OperationInv', FreshInv', NoneTaken,
           NEW o \in Operations, Responds(o), responses[o] = 0,
           \A c \in Calls : /\ call'[c].opId = o => call'[c].finalEmitted
                            /\ call'[c].dialogOp # o,
           operation'[o].kind = "message" => operation'[o].finalEmitted,
           operation'[o].kind \in {"info", "restored"} => ~request'[o].token
    PROVE  ReportInv'
<1>0. /\ \A x \in Operations : x # o => responses'[x] = responses[x]
      /\ responses'[o] = 1
  BY SMT DEF ReportInv, TypeOK, Responds
<1>1. UsedOnce'
  BY NoneTakenUses
<1>2. Unreported'
  <2>1. ASSUME NEW c \in Calls
        PROVE  /\ call'[c].opId # 0 /\ ~call'[c].finalEmitted => responses'[call'[c].opId] = 0
               /\ call'[c].dialogOp # 0 => responses'[call'[c].dialogOp] = 0
               /\ session'[c].inviteTsx # "none" => call'[c].opId # 0
    <3>1. call'[c].opId \in 0 .. MaxOperations /\ call'[c].dialogOp \in 0 .. MaxOperations
      BY DEF TypeOK, CallType
    <3>2. /\ call'[c].opId # 0 => call'[c].opId \in Operations
          /\ call'[c].dialogOp # 0 => call'[c].dialogOp \in Operations
      BY SMT, <3>1, CallConstants DEF Operations
    <3> QED
      BY SMT, <1>0, <3>2 DEF ReportInv, Unreported, NoneTaken
  <2>2. ASSUME NEW x \in Operations,
               \/ operation'[x].kind = "message" /\ ~operation'[x].finalEmitted
               \/ operation'[x].kind \in {"info", "restored"} /\ request'[x].token
        PROVE  responses'[x] = 0
    BY SMT, <1>0, <2>2 DEF ReportInv, Unreported, NoneTaken
  <2> QED
    BY <2>1, <2>2 DEF Unreported
<1>3. ResponseOnce'
  BY SMT, <1>0 DEF ReportInv, ResponseOnce
<1> QED
  BY <1>1, <1>2, <1>3 DEF ReportInv

\* The operations are as they were: no handler begins or ends a request of its own.
LEMMA OperationsKept ==
    ASSUME ReportInv, UNCHANGED <<operation, request>>,
           \A o \in Operations : Sending(o)' <=> Sending(o)
    PROVE  OperationInv'
<1> SUFFICES ASSUME NEW o \in Operations
             PROVE  OperationFine(operation[o], request[o], Sending(o))'
  BY DEF OperationInv
<1>1. OperationFine(operation[o], request[o], Sending(o))
  BY DEF ReportInv, OperationInv
<1> QED
  BY <1>1 DEF OperationFine

-----------------------------------------------------------------------------
(* Steps that change one call.                                               *)

\* Call c becomes k, its session s.
CallChanges(c, k, s) ==
    /\ call' = [call EXCEPT ![c] = k] /\ session' = [session EXCEPT ![c] = s]
    /\ inviteCalls' = inviteCalls \/ inviteCalls' = inviteCalls \ {c}
    /\ UNCHANGED <<operation, request, open, calls, misread>>
    /\ frame' = frame \/ (frame = NoFrame /\ frame' \in [at : CallFrames, of : {c}])
                      \/ (frame \in [at : CallFrames, of : {c}] /\ frame' = NoFrame)

\* An operation of the call may be reported.
CallBecomes(c, k, s) ==
    /\ CallChanges(c, k, s)
    /\ UNCHANGED operations /\ faults' \in [Operations -> Nat]
    /\ \/ UNCHANGED responses
       \/ Responds(call[c].opId) /\ ~call[c].finalEmitted /\ k.finalEmitted /\ call[c].opId # 0
       \/ Responds(call[c].dialogOp) /\ call[c].dialogOp # 0 /\ k.dialogOp = 0

\* What it keeps
CallStays(k, s, l, t) ==
    /\ k.kind = l.kind /\ k.assoc = l.assoc /\ k.opId = l.opId
    /\ k.dialogOp \in {0, l.dialogOp} /\ (l.finalEmitted => k.finalEmitted)
    /\ s.inviteTsx # "none" => t.inviteTsx # "none"
    /\ s.ends + (IF s.deferred THEN 1 ELSE 0) <= t.ends + (IF t.deferred THEN 1 ELSE 0)

\* The frame of a step that changes call c
LEMMA CallFrameFacts ==
    ASSUME ReportInv, NEW c \in Calls, NEW k, NEW s, CallChanges(c, k, s)
    PROVE  /\ frame' \in Frames
           /\ \A o \in Operations : Sending(o)' <=> Sending(o)
           /\ \A d \in Calls : d # c => (Holds(d)' <=> Holds(d))
           /\ frame'.at \in CallFrames => frame'.of = c \/ frame' = frame
<1>1. CASE frame' = frame
  BY <1>1 DEF ReportInv, TypeOK, Sending, Holds
<1>2. CASE frame = NoFrame /\ frame' \in [at : CallFrames, of : {c}]
  BY <1>2 DEF Frames, NoFrame, Sending, Holds, CallFrames
<1>3. CASE frame \in [at : CallFrames, of : {c}] /\ frame' = NoFrame
  BY <1>3 DEF Frames, NoFrame, Sending, Holds, CallFrames
<1> QED
  BY <1>1, <1>2, <1>3 DEF CallChanges

\* Such a step keeps what the application is told.
LEMMA CallReports ==
    ASSUME ReportInv, NEW c \in Calls, c <= calls, NEW k \in CallType, NEW s \in SessionType,
           CallBecomes(c, k, s), CallStays(k, s, call[c], session[c])
    PROVE  ReportInv'
<1>1. /\ call'[c] = k /\ session'[c] = s
      /\ \A d \in Calls : d # c => call'[d] = call[d] /\ session'[d] = session[d]
  BY DEF CallBecomes, CallChanges, ReportInv, TypeOK
<1>2. /\ call[c] \in CallType /\ session[c] \in SessionType /\ calls \in 0 .. MaxCalls
      /\ operations \in 0 .. MaxOperations
  BY DEF ReportInv, TypeOK
<1>3. TypeOK'
  <2>1. responses' \in [Operations -> Nat]
    BY SMT DEF CallBecomes, CallChanges, Responds, ReportInv, TypeOK
  <2> QED
    BY <2>1, CallFrameFacts DEF CallBecomes, CallChanges, ReportInv, TypeOK
<1>4. OperationInv'
  BY CallFrameFacts, OperationsKept DEF CallBecomes, CallChanges
<1>5. NoneTaken
  <2>1. ASSUME NEW d \in Calls
        PROVE  /\ call'[d].opId = call[d].opId /\ call'[d].dialogOp \in {0, call[d].dialogOp}
               /\ call[d].finalEmitted => call'[d].finalEmitted
               /\ session'[d].inviteTsx # "none" => session[d].inviteTsx # "none"
    BY <1>1 DEF CallStays
  <2> QED
    BY <2>1 DEF NoneTaken, CallBecomes, CallChanges
<1>6. FreshInv'
  <2>1. ASSUME NEW d \in Calls, d > calls
        PROVE  /\ call'[d] = NoCall /\ session'[d] = NoSession /\ d \notin inviteCalls'
               /\ frame'.at \in CallFrames => frame'.of # d
    <3>1. d # c
      BY SMT, <1>2, <2>1 DEF Calls
    <3> QED
      BY <1>1, <2>1, <3>1, CallFrameFacts DEF CallBecomes, CallChanges, ReportInv, FreshInv
  <2>2. ASSUME NEW d \in Calls
        PROVE  call'[d].opId <= operations /\ call'[d].dialogOp <= operations
    BY SMT, <1>1, <1>2 DEF CallStays, ReportInv, FreshInv
  <2>3. ASSUME NEW d \in Calls
        PROVE  session'[d].ends + (IF session'[d].deferred THEN 1 ELSE 0) <= operations
    <3>1. CASE d # c
      BY <1>1, <3>1 DEF ReportInv, FreshInv
    <3>2. CASE d = c
      <4>1. s.ends \in Int /\ session[c].ends \in Int
        BY SMT, <1>2 DEF SessionType
      <4>2. session[c].ends + (IF session[c].deferred THEN 1 ELSE 0) <= operations
        BY DEF ReportInv, FreshInv
      <4> QED
        BY SMT, <1>1, <1>2, <3>2, <4>1, <4>2 DEF CallStays
    <3> QED
      BY <3>1, <3>2
  <2>4. ASSUME NEW o \in Operations, o > operations
        PROVE  operation'[o] = NoOperation /\ responses'[o] = 0
    <3>1. call[c].opId # o /\ call[c].dialogOp # o
      BY SMT, <1>2, <2>4 DEF ReportInv, FreshInv, Operations, CallType
    <3> QED
      BY <2>4, <3>1 DEF CallBecomes, CallChanges, Responds, ReportInv, FreshInv, TypeOK
  <2> QED
    BY SMT, <2>1, <2>2, <2>3, <2>4 DEF FreshInv, CallBecomes, CallChanges
<1>7. CASE UNCHANGED responses
  BY <1>3, <1>4, <1>5, <1>6, <1>7, NoneTakenKeeps
<1>8. ASSUME NEW o \in Operations, Responds(o),
             \/ o = call[c].opId /\ ~call[c].finalEmitted /\ k.finalEmitted
             \/ o = call[c].dialogOp /\ k.dialogOp = 0
      PROVE  ReportInv'
  <2>0. o # 0
    BY SMT, CallConstants DEF Operations
  <2>1. responses[o] = 0
    BY <1>8, <2>0 DEF ReportInv, Unreported
  <2>2. operation[o].kind = "none"
    BY <1>8 DEF ReportInv, UsedOnce
  <2>3. ASSUME NEW d \in Calls
        PROVE  (call'[d].opId = o => call'[d].finalEmitted) /\ call'[d].dialogOp # o
    <3>1. /\ call[c].opId = o /\ call[d].opId = o => c = d
          /\ call[c].dialogOp = o /\ call[d].dialogOp = o => c = d
          /\ call[c].opId = o => call[d].dialogOp # o /\ call[c].dialogOp # o
          /\ call[c].dialogOp = o => call[d].opId # o
      BY SMT, <2>0 DEF ReportInv, UsedOnce
    <3> QED
      BY <1>1, <1>8, <2>0, <3>1 DEF CallStays
  <2>4. operation'[o].kind = "none"
    BY <2>2 DEF CallBecomes, CallChanges
  <2> QED
    BY <1>3, <1>4, <1>5, <1>6, <1>8, <2>1, <2>3, <2>4, RespondsKeeps
<1> QED
  <2>1. /\ call[c].opId # 0 => call[c].opId \in Operations
        /\ call[c].dialogOp # 0 => call[c].dialogOp \in Operations
    BY SMT, <1>2, CallConstants DEF CallType, Operations
  <2> QED
    BY <1>7, <1>8, <2>1 DEF CallBecomes, CallChanges

\* It keeps the objects when the call stays fine; the call of a restored dialog is not
\* unlisted.
LEMMA CallObjects ==
    ASSUME ReportInv, ObjectInv, NEW c \in Calls, NEW k, NEW s, CallChanges(c, k, s),
           k.kind = call[c].kind, k.assoc = call[c].assoc,
           CallFine(k, s, c \in inviteCalls', Holds(c)'),
           c \in inviteCalls' \/ c \notin inviteCalls \/ call[c].kind # "restored"
    PROVE  ObjectInv'
<1>1. /\ call'[c] = k /\ session'[c] = s
      /\ \A d \in Calls : d # c => call'[d] = call[d] /\ session'[d] = session[d]
      /\ \A d \in Calls : d # c => (d \in inviteCalls' <=> d \in inviteCalls)
  BY DEF CallChanges, ReportInv, TypeOK
<1>2. CallInv'
  <2>1. ASSUME NEW d \in Calls, d # c
        PROVE  CallFine(call[d], session[d], d \in inviteCalls, Holds(d))'
    <3>1. CallFine(call[d], session[d], d \in inviteCalls, Holds(d))
      BY DEF ObjectInv, CallInv
    <3>2. Holds(d)' <=> Holds(d)
      BY <2>1, CallFrameFacts
    <3> QED
      BY <1>1, <2>1, <3>1, <3>2 DEF CallFine
  <2> QED
    BY <1>1, <2>1 DEF CallInv
<1>3. RestoredInv'
  <2> SUFFICES ASSUME NEW o \in Operations, operation[o].restoredCall # 0
               PROVE  LET d == operation[o].restoredCall IN
                      /\ d \in Calls /\ d <= calls /\ call'[d].kind = "restored"
                      /\ d \in inviteCalls' \/ call'[d].assoc \notin open
                      /\ \A p \in Operations : p # o => operation[p].restoredCall # d
    BY Zenon, SMT DEF RestoredInv, CallChanges
  <2> DEFINE d == operation[o].restoredCall
  <2>1. /\ d \in Calls /\ d <= calls /\ call[d].kind = "restored"
        /\ d \in inviteCalls \/ call[d].assoc \notin open
        /\ \A p \in Operations : p # o => operation[p].restoredCall # d
    BY DEF ObjectInv, RestoredInv
  <2> HIDE DEF d
  <2> QED
    BY <1>1, <2>1 DEF d
<1> QED
  BY <1>2, <1>3 DEF ObjectInv

\* gmv_remove_invite_call on a listed call whose session forgets it, as CallFine sees it
LEMMA DroppedFine ==
    ASSUME NEW c \in inviteCalls, NEW k \in CallType, NEW s \in SessionType, NEW held \in BOOLEAN,
           k.active = IF held THEN 1 ELSE 0, ~k.cleanup, k.kind # "restored"
    PROVE  LET l == RemovedCall(c, [k EXCEPT !.invite = FALSE])
               t == [s EXCEPT !.modData = FALSE]
           IN /\ l \in CallType /\ SameCall(l, k) /\ l.active = k.active /\ l.cleanup
              /\ t \in SessionType /\ t.inviteTsx = s.inviteTsx /\ t.ends = s.ends
              /\ t.deferred = s.deferred /\ t.state = s.state
              /\ CallFine(l, t, FALSE, held)
<1> DEFINE j == [k EXCEPT !.invite = FALSE]
           l == RemovedCall(c, j)
           t == [s EXCEPT !.modData = FALSE]
<1>1. j \in CallType /\ SameCall(j, k) /\ j.active = k.active /\ ~j.cleanup
  BY DEF CallType, SameCall
<1>2. /\ t \in SessionType /\ t.inviteTsx = s.inviteTsx /\ t.ends = s.ends
      /\ t.deferred = s.deferred /\ t.state = s.state /\ ~t.modData
  BY DEF SessionType
<1> HIDE DEF j, t
<1>3. /\ l \in CallType /\ SameCall(l, j) /\ l.active = j.active /\ l.cleanup
      /\ l.allocated <=> j.active # 0
  BY SMT, <1>1, RemovedCallFacts
<1> HIDE DEF l
<1>4. CallFine(l, t, FALSE, held)
  BY SMT, <1>1, <1>2, <1>3 DEF CallFine, SameCall
<1>5. SameCall(l, k)
  BY <1>1, <1>3 DEF SameCall
<1> QED
  BY <1>1, <1>2, <1>3, <1>4, <1>5 DEF j, l, t

\* The session, or the call, that a step leaves alone
LEMMA Unchanged ==
    ASSUME ReportInv, NEW c \in Calls
    PROVE  /\ call = [call EXCEPT ![c] = call[c]] /\ session = [session EXCEPT ![c] = session[c]]
           /\ call[c] \in CallType /\ session[c] \in SessionType
           /\ session[c].ends \in Nat
BY SMT DEF ReportInv, TypeOK, SessionType

\* A call that is listed, or held, was allocated.
LEMMA WasAllocated ==
    ASSUME ReportInv, NEW c \in Calls,
           c \in inviteCalls \/ Holds(c) \/ session[c].modData \/ call[c].opId # 0
    PROVE  c <= calls
<1> SUFFICES ASSUME ~(c <= calls) PROVE FALSE
  OBVIOUS
<1>1. c > calls
  BY SMT DEF Calls, ReportInv, TypeOK
<1> QED
  BY SMT, <1>1 DEF ReportInv, FreshInv, Holds, NoCall, NoSession

\* gmv_emit_command_fault, also for an operation id outside the bound
LEMMA FaultsType ==
    ASSUME ReportInv, NEW o, NEW ok, Faults(o, ok)
    PROVE  faults' \in [Operations -> Nat]
<1>1. faults \in [Operations -> Nat]
  BY DEF ReportInv, TypeOK
<1>2. CASE o \in Operations
  BY SMT, <1>1, <1>2 DEF Faults
<1>3. CASE o \notin Operations
  BY <1>1, <1>3 DEF Faults
<1> QED
  BY <1>2, <1>3

\* gmv_respond_invite_on_owner holds the call while it is inside PJSIP.
LEMMA AnswerCallKeeps ==
    ASSUME ReportInv, NEW c \in Calls, AnswerCall(c)
    PROVE  ReportInv' /\ (ObjectInv => ObjectInv')
<1> DEFINE k == [call[c] EXCEPT !.active = @ + 1]
<1>1. /\ k \in CallType /\ SameCall(k, call[c]) /\ k.active = call[c].active + 1
      /\ k.invite = call[c].invite /\ k.cleanup = call[c].cleanup
      /\ k.allocated = call[c].allocated
  BY SMT, Unchanged DEF CallType, SameCall
<1>2. call' = [call EXCEPT ![c] = k]
  BY Unchanged DEF AnswerCall
<1>3. frame = NoFrame /\ frame' = [at |-> "answer", of |-> c] /\ c \in inviteCalls
  BY DEF AnswerCall
<1> HIDE DEF k
<1>4. CallBecomes(c, k, session[c])
  <2>1. frame' \in [at : CallFrames, of : {c}]
    BY <1>3 DEF CallFrames
  <2>2. faults' \in [Operations -> Nat] /\ UNCHANGED responses /\ session' = session
        /\ UNCHANGED <<inviteCalls, operation, request, open, calls, misread, operations>>
    BY DEF AnswerCall, ReportInv, TypeOK
  <2> QED
    BY <1>2, <1>3, <2>1, <2>2, Unchanged DEF CallBecomes, CallChanges
<1>5. CallStays(k, session[c], call[c], session[c])
  BY SMT, <1>1, Unchanged DEF CallStays, SameCall
<1>6. ReportInv'
  BY <1>1, <1>3, <1>4, <1>5, Unchanged, WasAllocated, CallReports
<1>7. ASSUME ObjectInv PROVE ObjectInv'
  <2>1. CallFine(call[c], session[c], c \in inviteCalls, Holds(c)) /\ ~Holds(c) /\ Holds(c)'
    BY <1>3, <1>7 DEF ObjectInv, CallInv, Holds, NoFrame, CallFrames
  <2>2. CallFine(k, session[c], c \in inviteCalls', Holds(c)')
    BY SMT, <1>1, <1>3, <2>1 DEF CallFine, AnswerCall, SameCall
  <2> QED
    BY <1>3, <1>4, <1>5, <1>7, <2>2, CallObjects DEF CallBecomes, CallStays, AnswerCall
<1> QED
  BY <1>6, <1>7

\* A handler that sent an answer, or a BYE or CANCEL, lets go of its call.
LEMMA ReleaseKeeps ==
    ASSUME ReportInv, AnswerSent \/ \E ok \in BOOLEAN : EndSent(ok)
    PROVE  ReportInv' /\ (ObjectInv => ObjectInv')
<1>1. PICK c \in Calls : c = frame.of /\ frame.at \in CallFrames
  BY FrameFacts DEF ReportInv, AnswerSent, EndSent, CallFrames
<1>0. call[c] = [call[c] EXCEPT !.dialogOp = call[c].dialogOp]
  BY Unchanged DEF CallType
<1>2. PICK n \in {0, call[c].dialogOp} :
        call' = [call EXCEPT ![c] = Released([call[c] EXCEPT !.dialogOp = n])]
  <2>1. \/ call' = [call EXCEPT ![c] = Released(call[c])]
        \/ call' = [call EXCEPT ![c] = Released([call[c] EXCEPT !.dialogOp = 0])]
    BY <1>1 DEF AnswerSent, EndSent
  <2> QED
    BY <1>0, <2>1
<1> DEFINE j == [call[c] EXCEPT !.dialogOp = n]
           k == Released(j)
<1>3. /\ j \in CallType /\ j.kind = call[c].kind /\ j.opId = call[c].opId /\ j.dialogOp = n
      /\ j.assoc = call[c].assoc /\ j.finalEmitted = call[c].finalEmitted
      /\ j.active = call[c].active /\ j.invite = call[c].invite
      /\ j.cleanup = call[c].cleanup /\ j.allocated = call[c].allocated
  <2>1. n \in 0 .. MaxOperations
    BY SMT, Unchanged, CallConstants DEF CallType
  <2> QED
    BY <2>1, Unchanged DEF CallType
<1>4. call' = [call EXCEPT ![c] = k]
  BY <1>2
<1> HIDE DEF j
<1>5. /\ k \in CallType /\ SameCall(k, j) /\ k.invite = j.invite /\ k.cleanup = j.cleanup
      /\ j.active = 1 => k.active = 0 /\ (k.allocated <=> j.allocated /\ ~j.cleanup)
  BY <1>3, ReleasedCallFacts
<1> HIDE DEF k
<1>6. frame' = NoFrame /\ UNCHANGED <<inviteCalls, session, operation, request, open, calls,
                                      operations, responses, misread>>
  BY DEF AnswerSent, EndSent
<1>7. frame \in [at : CallFrames, of : {c}]
  BY <1>1, FrameFacts DEF ReportInv, TypeOK, Frames, NoFrame, CallFrames
<1>8. faults' \in [Operations -> Nat]
  BY FaultsType DEF AnswerSent, EndSent, ReportInv, TypeOK
<1>9. CallBecomes(c, k, session[c])
  BY <1>4, <1>6, <1>7, <1>8, Unchanged DEF CallBecomes, CallChanges
<1>10. CallStays(k, session[c], call[c], session[c])
  BY SMT, <1>3, <1>5, Unchanged DEF CallStays, SameCall
<1>11. Holds(c) /\ ~Holds(c)'
  BY <1>1, <1>6 DEF Holds, NoFrame, CallFrames
<1>12. ReportInv'
  BY <1>5, <1>9, <1>10, <1>11, Unchanged, WasAllocated, CallReports
<1>13. ASSUME ObjectInv PROVE ObjectInv'
  <2>1. CallFine(call[c], session[c], c \in inviteCalls, Holds(c))
    BY <1>13 DEF ObjectInv, CallInv
  <2>2. CallFine(k, session[c], c \in inviteCalls', Holds(c)')
    BY <1>3, <1>5, <1>6, <1>11, <2>1 DEF CallFine, SameCall
  <2> QED
    BY <1>6, <1>9, <1>10, <1>13, <2>2, CallObjects DEF CallBecomes, CallStays
<1> QED
  BY <1>12, <1>13

\* The fields of a call that say who refers to it
SameObject(k, l) ==
    /\ k.active = l.active /\ k.invite = l.invite /\ k.cleanup = l.cleanup
    /\ k.allocated = l.allocated

\* A callback for a call changes what is to report, and keeps the call or drops it.
LEMMA CallbackKeeps ==
    ASSUME ReportInv, NEW c \in Calls, session[c].modData,
           NEW k \in CallType, NEW s \in SessionType, s.modData,
           CallStays(k, s, call[c], session[c]), SameObject(k, call[c]),
           \/ DropCall(c, k, s)
           \/ /\ call' = [call EXCEPT ![c] = k] /\ session' = [session EXCEPT ![c] = s]
              /\ UNCHANGED inviteCalls,
           UNCHANGED <<operation, request, frame, open, calls, misread, operations, faults>>,
           \/ UNCHANGED responses
           \/ Responds(call[c].opId) /\ ~call[c].finalEmitted /\ k.finalEmitted
              /\ call[c].opId # 0
           \/ Responds(call[c].dialogOp) /\ call[c].dialogOp # 0 /\ k.dialogOp = 0
    PROVE  ReportInv' /\ (ObjectInv => ObjectInv')
<1>0. faults' \in [Operations -> Nat] /\ c <= calls /\ (Holds(c)' <=> Holds(c))
  BY WasAllocated DEF ReportInv, TypeOK, Holds
<1>1. CASE /\ call' = [call EXCEPT ![c] = k] /\ session' = [session EXCEPT ![c] = s]
           /\ UNCHANGED inviteCalls
  <2>1. CallBecomes(c, k, s)
    BY <1>0, <1>1 DEF CallBecomes, CallChanges
  <2>2. ReportInv'
    BY <1>0, <2>1, CallReports
  <2>3. ASSUME ObjectInv PROVE ObjectInv'
    <3>1. CallFine(call[c], session[c], c \in inviteCalls, Holds(c))
      BY <2>3 DEF ObjectInv, CallInv
    <3>2. CallFine(k, s, c \in inviteCalls', Holds(c)')
      BY <1>0, <1>1, <3>1 DEF CallFine, SameObject, CallStays
    <3> QED
      BY <1>1, <2>1, <2>3, <3>2, CallObjects DEF CallBecomes, CallStays
  <2> QED
    BY <2>2, <2>3
<1>2. CASE DropCall(c, k, s)
  <2> DEFINE j == [k EXCEPT !.invite = FALSE]
             l == RemovedCall(c, j)
             t == [s EXCEPT !.modData = FALSE]
  <2>1. j \in CallType /\ SameCall(j, k) /\ l \in CallType /\ SameCall(l, j)
    <3>1. j \in CallType /\ SameCall(j, k)
      BY DEF CallType, SameCall
    <3> HIDE DEF j
    <3> QED
      BY <3>1, RemovedCallFacts
  <2>2. t \in SessionType /\ t.inviteTsx = s.inviteTsx /\ t.ends = s.ends
        /\ t.deferred = s.deferred
    BY DEF SessionType
  <2>3. /\ call' = [call EXCEPT ![c] = l] /\ session' = [session EXCEPT ![c] = t]
        /\ inviteCalls' = inviteCalls \ {c}
    BY <1>2 DEF DropCall
  <2>4. ASSUME ObjectInv
        PROVE  CallFine(l, t, FALSE, Holds(c)) /\ call[c].kind # "restored"
    <3>1. CallFine(call[c], session[c], c \in inviteCalls, Holds(c))
      BY <2>4 DEF ObjectInv, CallInv
    <3>2. /\ c \in inviteCalls /\ ~k.cleanup
          /\ k.active = IF Holds(c) THEN 1 ELSE 0
          /\ call[c].kind # "restored" /\ k.kind = call[c].kind
      BY <3>1 DEF CallFine, SameObject, CallStays
    <3>3. Holds(c) \in BOOLEAN
      BY DEF Holds
    <3>4. CallFine(l, t, FALSE, Holds(c))
      BY <3>2, <3>3, DroppedFine
    <3> QED
      BY <3>2, <3>4
  <2> HIDE DEF j, l, t
  <2>5. CallBecomes(c, l, t)
    BY <1>0, <2>1, <2>3 DEF CallBecomes, CallChanges, SameCall
  <2>6. CallStays(l, t, call[c], session[c])
    BY <2>1, <2>2 DEF CallStays, SameCall
  <2>7. ReportInv'
    BY <1>0, <2>1, <2>2, <2>5, <2>6, CallReports
  <2>8. ASSUME ObjectInv PROVE ObjectInv'
    <3>1. c \notin inviteCalls'
      BY <2>3
    <3>2. CallFine(l, t, c \in inviteCalls', Holds(c)')
      BY <1>0, <2>4, <2>8, <3>1 DEF CallFine
    <3> QED
      BY <2>4, <2>5, <2>6, <2>8, <3>2, CallObjects DEF CallBecomes, CallStays
  <2> QED
    BY <2>7, <2>8
<1> QED
  BY <1>1, <1>2

\* gmv_invite_on_state_changed drops a call that has nothing more to report.
LEMMA StateChangedKeeps ==
    ASSUME ReportInv, NEW c \in Calls, NEW to \in {"confirmed", "disconnected"},
           InviteStateChanged(c, to)
    PROVE  ReportInv' /\ (ObjectInv => ObjectInv')
<1> DEFINE s == [session[c] EXCEPT !.state = to]
<1>1. /\ s \in SessionType /\ s.modData = session[c].modData /\ s.ends = session[c].ends
      /\ s.inviteTsx = session[c].inviteTsx /\ s.deferred = session[c].deferred
  BY Unchanged DEF SessionType
<1>2. /\ session[c].modData
      /\ \/ DropCall(c, call[c], s)
         \/ session' = [session EXCEPT ![c] = s] /\ UNCHANGED <<call, inviteCalls>>
      /\ UNCHANGED <<operation, request, frame, open, calls, operations, responses, faults,
                     misread>>
  BY DEF InviteStateChanged
<1> HIDE DEF s
<1>3. CallStays(call[c], s, call[c], session[c]) /\ SameObject(call[c], call[c])
  BY SMT, <1>1, Unchanged DEF CallStays, SameObject
<1>4. \/ DropCall(c, call[c], s)
      \/ /\ call' = [call EXCEPT ![c] = call[c]] /\ session' = [session EXCEPT ![c] = s]
         /\ UNCHANGED inviteCalls
  BY <1>2, Unchanged
<1> QED
  BY <1>1, <1>2, <1>3, <1>4, Unchanged, CallbackKeeps

\* The session after a report of its INVITE: a CANCEL or BYE that was waiting is sent.
LEMMA AfterReportFacts ==
    ASSUME ReportInv, NEW c \in Calls, NEW code \in {"1xx", "2xx", "failed"},
           InviteReports(c, code)
    PROVE  LET s == AfterInviteReport(session[c], code) IN
           /\ s \in SessionType /\ s.modData = session[c].modData
           /\ session[c].inviteTsx # "none"
           /\ s.ends + (IF s.deferred THEN 1 ELSE 0)
                 <= session[c].ends + (IF session[c].deferred THEN 1 ELSE 0)
<1> DEFINE t == session[c]
           s == AfterInviteReport(t, code)
<1>1. t \in SessionType /\ t.inviteTsx # "none"
  BY Unchanged DEF InviteReports
<1>2. /\ t.ends \in 0 .. MaxOperations /\ operations \in 0 .. MaxOperations
      /\ t.ends + (IF t.deferred THEN 1 ELSE 0) <= operations
  BY Unchanged DEF SessionType, ReportInv, TypeOK, FreshInv
<1>3. PICK b \in BOOLEAN : b <=> t.deferred /\ code # "failed"
  OBVIOUS
<1>4. PICK n \in 0 .. MaxOperations : n = IF b THEN t.ends + 1 ELSE t.ends
  BY SMT, <1>2, <1>3, CallConstants
<1>5. PICK d \in BOOLEAN : d <=> t.deferred /\ ~b
  OBVIOUS
<1>6. PICK i \in {"none", "open", "2xx", "failed"} : i = IF code = "1xx" THEN t.inviteTsx ELSE code
  BY <1>1 DEF SessionType
<1>7. PICK a \in {"none", "early", "confirmed", "disconnected"} :
          a = IF code = "2xx" /\ t.state = "early" THEN "confirmed" ELSE t.state
  BY <1>1 DEF SessionType
<1>8. s = [t EXCEPT !.inviteTsx = i, !.state = a, !.deferred = d, !.ends = n]
  <2>1. t.deferred \in BOOLEAN
    BY <1>1 DEF SessionType
  <2>2. (t.deferred /\ ~(t.deferred /\ code # "failed")) = d
    BY <1>3, <1>5, <2>1
  <2>3. (IF t.deferred /\ code # "failed" THEN t.ends + 1 ELSE t.ends) = n
    BY <1>3, <1>4
  <2> QED
    BY <1>6, <1>7, <2>2, <2>3 DEF AfterInviteReport
<1> HIDE DEF s, t
<1>9. /\ s \in SessionType /\ s.modData = t.modData /\ s.ends = n /\ s.deferred = d
  BY <1>1, <1>8 DEF SessionType
<1>10. n + (IF d THEN 1 ELSE 0) <= t.ends + (IF t.deferred THEN 1 ELSE 0)
  BY SMT, <1>2, <1>3, <1>4, <1>5
<1> QED
  BY <1>1, <1>9, <1>10 DEF s, t

\* gmv_invite_on_tsx_state_changed reports the INVITE once, behind final_emitted.
LEMMA InviteTsxKeeps ==
    ASSUME ReportInv, NEW c \in Calls, NEW code \in {"1xx", "2xx", "failed"},
           InviteTsxState(c, code)
    PROVE  ReportInv' /\ (ObjectInv => ObjectInv')
<1> DEFINE s == AfterInviteReport(session[c], code)
           l == [call[c] EXCEPT !.finalEmitted = TRUE]
<1>1. session[c].modData /\ InviteReports(c, code)
      /\ UNCHANGED <<operation, request, frame, open, calls, misread, operations, faults>>
  BY DEF InviteTsxState
<1>2. /\ s \in SessionType /\ s.modData /\ session[c].inviteTsx # "none"
      /\ s.ends + (IF s.deferred THEN 1 ELSE 0)
            <= session[c].ends + (IF session[c].deferred THEN 1 ELSE 0)
  BY <1>1, AfterReportFacts
<1>3. call[c].opId # 0
  BY <1>2 DEF ReportInv, Unreported
<1>4. /\ l \in CallType /\ l.finalEmitted /\ SameObject(l, call[c])
      /\ l.kind = call[c].kind /\ l.assoc = call[c].assoc /\ l.opId = call[c].opId
      /\ l.dialogOp = call[c].dialogOp
  BY Unchanged DEF CallType, SameObject
<1>5. CASE code # "1xx" /\ ~call[c].finalEmitted
  <2>1. /\ Responds(call[c].opId)
        /\ \/ DropCall(c, l, s)
           \/ /\ call' = [call EXCEPT ![c] = l] /\ session' = [session EXCEPT ![c] = s]
              /\ UNCHANGED inviteCalls
    BY <1>5 DEF InviteTsxState
  <2> HIDE DEF s, l
  <2>2. CallStays(l, s, call[c], session[c])
    BY <1>2, <1>4 DEF CallStays
  <2> QED
    BY <1>1, <1>2, <1>3, <1>4, <1>5, <2>1, <2>2, CallbackKeeps
<1>6. CASE ~(code # "1xx" /\ ~call[c].finalEmitted)
  <2>1. session' = [session EXCEPT ![c] = s] /\ UNCHANGED <<call, inviteCalls, responses>>
    BY <1>6 DEF InviteTsxState
  <2> HIDE DEF s, l
  <2>2. CallStays(call[c], s, call[c], session[c]) /\ SameObject(call[c], call[c])
    BY <1>2 DEF CallStays, SameObject
  <2>3. call' = [call EXCEPT ![c] = call[c]]
    BY <2>1, Unchanged
  <2> QED
    BY <1>1, <1>2, <2>1, <2>2, <2>3, Unchanged, CallbackKeeps
<1> QED
  BY <1>5, <1>6

\* ... and a BYE or CANCEL once: it clears dialog_operation_id.
LEMMA EndTsxKeeps ==
    ASSUME ReportInv, NEW c \in Calls, NEW again \in BOOLEAN, EndTsxState(c, again)
    PROVE  ReportInv' /\ (ObjectInv => ObjectInv')
<1> DEFINE s == IF again THEN [session[c] EXCEPT !.endDone = FALSE]
                         ELSE [session[c] EXCEPT !.endDone = TRUE, !.ends = @ - 1]
           l == [call[c] EXCEPT !.dialogOp = 0]
<1>1. /\ session[c].modData /\ (~again => session[c].ends > 0)
      /\ UNCHANGED <<operation, request, frame, open, calls, misread, operations, faults>>
  BY DEF EndTsxState
<1>2. /\ s \in SessionType /\ s.modData /\ s.inviteTsx = session[c].inviteTsx
      /\ s.ends <= session[c].ends /\ s.ends \in Nat /\ s.deferred = session[c].deferred
  <2>1. CASE again
    <3>1. s = [session[c] EXCEPT !.endDone = FALSE]
      BY <2>1
    <3> HIDE DEF s
    <3>2. s \in SessionType /\ s.modData = session[c].modData /\ s.ends = session[c].ends
          /\ s.inviteTsx = session[c].inviteTsx /\ s.deferred = session[c].deferred
      BY <3>1, Unchanged DEF SessionType
    <3> QED
      BY SMT, <1>1, <3>2, Unchanged
  <2>2. CASE ~again
    <3>1. PICK n \in 0 .. MaxOperations : n = session[c].ends - 1
      BY SMT, <1>1, <2>2, Unchanged, CallConstants DEF SessionType
    <3>2. s = [session[c] EXCEPT !.endDone = TRUE, !.ends = n]
      BY <2>2, <3>1
    <3> HIDE DEF s
    <3>3. s \in SessionType /\ s.modData = session[c].modData /\ s.ends = n
          /\ s.inviteTsx = session[c].inviteTsx /\ s.deferred = session[c].deferred
      BY <3>2, Unchanged DEF SessionType
    <3>4. n <= session[c].ends /\ n \in Nat
      BY SMT, <3>1, Unchanged
    <3> QED
      BY <1>1, <3>3, <3>4
  <2> QED
    BY <2>1, <2>2
<1>4. /\ l \in CallType /\ SameObject(l, call[c]) /\ l.dialogOp = 0
      /\ l.kind = call[c].kind /\ l.assoc = call[c].assoc /\ l.opId = call[c].opId
      /\ l.finalEmitted = call[c].finalEmitted
  <2>1. 0 \in 0 .. MaxOperations
    BY SMT, CallConstants
  <2> QED
    BY <2>1, Unchanged DEF CallType, SameObject
<1>5. CASE call[c].dialogOp # 0
  <2>1. /\ Responds(call[c].dialogOp)
        /\ \/ DropCall(c, l, s)
           \/ /\ call' = [call EXCEPT ![c] = l] /\ session' = [session EXCEPT ![c] = s]
              /\ UNCHANGED inviteCalls
    BY <1>5 DEF EndTsxState
  <2> HIDE DEF s, l
  <2>2. CallStays(l, s, call[c], session[c])
    BY SMT, <1>2, <1>4, Unchanged DEF CallStays
  <2> QED
    BY <1>1, <1>2, <1>4, <1>5, <2>1, <2>2, CallbackKeeps
<1>6. CASE call[c].dialogOp = 0
  <2>1. session' = [session EXCEPT ![c] = s] /\ UNCHANGED <<call, inviteCalls, responses>>
    BY <1>6 DEF EndTsxState
  <2> HIDE DEF s, l
  <2>2. CallStays(call[c], s, call[c], session[c]) /\ SameObject(call[c], call[c])
    BY SMT, <1>2, Unchanged DEF CallStays, SameObject
  <2>3. call' = [call EXCEPT ![c] = call[c]]
    BY <2>1, Unchanged
  <2> QED
    BY <1>1, <1>2, <2>1, <2>2, <2>3, Unchanged, CallbackKeeps
<1> QED
  BY <1>5, <1>6

\* pjsip_inv_send_msg has returned to gmv_send_invite_on_owner: when it failed, the call
\* is taken back, unless a callback has dropped it meanwhile.
LEMMA InviteSentKeeps ==
    ASSUME ReportInv, NEW ok \in BOOLEAN, InviteSent(ok)
    PROVE  ReportInv' /\ (ObjectInv => ObjectInv')
<1>1. PICK c \in Calls : c = frame.of /\ frame.at \in CallFrames
  BY FrameFacts DEF ReportInv, InviteSent, CallFrames
<1>2. /\ Holds(c) /\ frame' = NoFrame /\ ~Holds(c)'
      /\ UNCHANGED <<operation, request, open, calls, misread, operations, responses>>
      /\ faults' \in [Operations -> Nat] /\ c <= calls
  BY <1>1, FaultsType, WasAllocated DEF Holds, InviteSent, NoFrame, CallFrames
<1>3. frame \in [at : CallFrames, of : {c}]
  BY <1>1, FrameFacts DEF ReportInv, TypeOK, Frames, NoFrame, CallFrames
<1>4. CASE ok \/ call[c].cleanup
  <2> DEFINE k == Released(call[c])
  <2>1. /\ call' = [call EXCEPT ![c] = k] /\ UNCHANGED <<inviteCalls, session>>
    BY <1>1, <1>4 DEF InviteSent
  <2>2. /\ k \in CallType /\ SameCall(k, call[c]) /\ k.invite = call[c].invite
        /\ k.cleanup = call[c].cleanup
        /\ call[c].active = 1 => /\ k.active = 0
                                 /\ k.allocated <=> call[c].allocated /\ ~call[c].cleanup
    BY Unchanged, ReleasedCallFacts
  <2> HIDE DEF k
  <2>3. CallBecomes(c, k, session[c])
    BY <1>2, <1>3, <2>1, Unchanged DEF CallBecomes, CallChanges
  <2>4. CallStays(k, session[c], call[c], session[c])
    BY SMT, <2>2, Unchanged DEF CallStays, SameCall
  <2>5. ReportInv'
    BY <1>2, <2>2, <2>3, <2>4, Unchanged, CallReports
  <2>6. ASSUME ObjectInv PROVE ObjectInv'
    <3>1. CallFine(call[c], session[c], c \in inviteCalls, Holds(c))
      BY <2>6 DEF ObjectInv, CallInv
    <3>2. CallFine(k, session[c], c \in inviteCalls', Holds(c)')
      BY <1>2, <2>1, <2>2, <3>1 DEF CallFine, SameCall
    <3> QED
      BY <2>1, <2>3, <2>4, <2>6, <3>2, CallObjects DEF CallBecomes, CallStays
  <2> QED
    BY <2>5, <2>6
<1>5. CASE ~(ok \/ call[c].cleanup)
  <2> DEFINE i == [call[c] EXCEPT !.invite = FALSE]
             j == RemovedCall(c, i)
             k == Released(j)
             s == [session[c] EXCEPT !.modData = FALSE]
  <2>1. /\ call' = [call EXCEPT ![c] = k] /\ inviteCalls' = inviteCalls \ {c}
        /\ session' = [session EXCEPT ![c] = s]
    BY <1>1, <1>5 DEF InviteSent
  <2>2. /\ s \in SessionType /\ s.inviteTsx = session[c].inviteTsx /\ ~s.modData
        /\ s.ends = session[c].ends /\ s.deferred = session[c].deferred
    BY Unchanged DEF SessionType
  <2>3. /\ i \in CallType /\ SameCall(i, call[c]) /\ i.active = call[c].active /\ ~i.cleanup
    BY <1>5, Unchanged DEF CallType, SameCall
  <2> HIDE DEF i, s
  <2>4. /\ j \in CallType /\ SameCall(j, i) /\ j.active = i.active
        /\ c \in inviteCalls => j.cleanup /\ (j.allocated <=> i.active # 0)
    BY <2>3, RemovedCallFacts
  <2> HIDE DEF j
  <2>5. /\ k \in CallType /\ SameCall(k, j) /\ k.cleanup = j.cleanup
        /\ j.active = 1 => k.active = 0 /\ (k.allocated <=> j.allocated /\ ~j.cleanup)
    BY <2>4, ReleasedCallFacts
  <2> HIDE DEF k
  <2>6. CallBecomes(c, k, s)
    BY <1>2, <1>3, <2>1 DEF CallBecomes, CallChanges
  <2>7. CallStays(k, s, call[c], session[c])
    BY SMT, <2>2, <2>3, <2>4, <2>5, Unchanged DEF CallStays, SameCall
  <2>8. ReportInv'
    BY <1>2, <2>2, <2>5, <2>6, <2>7, CallReports
  <2>9. ASSUME ObjectInv PROVE ObjectInv'
    <3>1. CallFine(call[c], session[c], c \in inviteCalls, Holds(c))
      BY <2>9 DEF ObjectInv, CallInv
    <3>2. /\ c \in inviteCalls /\ call[c].active = 1 /\ c \notin inviteCalls'
          /\ call[c].kind # "restored"
      BY <1>2, <1>5, <2>1, <3>1 DEF CallFine
    <3>3. CallFine(k, s, c \in inviteCalls', Holds(c)')
      BY <1>2, <2>2, <2>3, <2>4, <2>5, <3>2 DEF CallFine, SameCall
    <3> QED
      BY <2>6, <2>7, <2>9, <3>2, <3>3, CallObjects DEF CallBecomes, CallStays
  <2> QED
    BY <2>8, <2>9
<1> QED
  BY <1>4, <1>5

-----------------------------------------------------------------------------
(* Steps that take an operation id or begin a call.                          *)

\* A step that takes the next operation id, n, for one use
LEMMA TakenKeeps ==
    ASSUME ReportInv, TypeOK', OperationInv', FreshInv', UNCHANGED responses,
           NEW n \in Operations, n = operations + 1,
           \A c \in Calls :
              /\ call'[c].opId \in {call[c].opId, n}
              /\ call'[c].dialogOp \in {call[c].dialogOp, n}
              /\ call[c].finalEmitted => call'[c].finalEmitted
              /\ session'[c].inviteTsx # "none" =>
                    session[c].inviteTsx # "none" \/ call'[c].opId = n
              /\ operation'[n].kind # "none" => call'[c].opId # n /\ call'[c].dialogOp # n,
           \A c \in Calls, d \in Calls :
              /\ call'[c].opId = n /\ call'[d].opId = n => c = d
              /\ call'[c].dialogOp = n /\ call'[d].dialogOp = n => c = d
              /\ call'[c].opId = n => call'[d].dialogOp # n,
           \A o \in Operations : o # n =>
              /\ operation'[o].kind = operation[o].kind
              /\ operation'[o].finalEmitted = operation[o].finalEmitted
              /\ request'[o].token = request[o].token
    PROVE  ReportInv'
<1>0. operations \in Nat /\ n # 0 /\ n > operations /\ responses[n] = 0
  BY SMT DEF ReportInv, TypeOK, FreshInv, Operations
<1>1. ASSUME NEW c \in Calls
      PROVE  call[c].opId # n /\ call[c].dialogOp # n
  <2>1. call[c].opId \in Int /\ call[c].dialogOp \in Int
    BY SMT DEF ReportInv, TypeOK, CallType
  <2> QED
    BY SMT, <1>0, <2>1 DEF ReportInv, FreshInv
<1>2. UsedOnce'
  <2>1. ASSUME NEW c \in Calls, NEW d \in Calls
        PROVE  /\ call'[c].opId # 0 /\ call'[c].opId = call'[d].opId => c = d
               /\ call'[c].dialogOp # 0 /\ call'[c].dialogOp = call'[d].dialogOp => c = d
               /\ call'[c].opId # 0 => call'[c].opId # call'[d].dialogOp
    <3>1. /\ call[c].opId # 0 /\ call[c].opId = call[d].opId => c = d
          /\ call[c].dialogOp # 0 /\ call[c].dialogOp = call[d].dialogOp => c = d
          /\ call[c].opId # 0 => call[c].opId # call[d].dialogOp
      BY DEF ReportInv, UsedOnce
    <3> QED
      BY SMT, <1>1, <3>1
  <2>2. ASSUME NEW o \in Operations, NEW c \in Calls, operation'[o].kind # "none"
        PROVE  call'[c].opId # o /\ call'[c].dialogOp # o
    BY SMT, <2>2 DEF ReportInv, UsedOnce
  <2> QED
    BY <2>1, <2>2 DEF UsedOnce
<1>3. Unreported'
  <2>1. ASSUME NEW c \in Calls
        PROVE  /\ call'[c].opId # 0 /\ ~call'[c].finalEmitted => responses'[call'[c].opId] = 0
               /\ call'[c].dialogOp # 0 => responses'[call'[c].dialogOp] = 0
               /\ session'[c].inviteTsx # "none" => call'[c].opId # 0
    BY SMT, <1>0 DEF ReportInv, Unreported
  <2>2. ASSUME NEW o \in Operations,
               \/ operation'[o].kind = "message" /\ ~operation'[o].finalEmitted
               \/ operation'[o].kind \in {"info", "restored"} /\ request'[o].token
        PROVE  responses'[o] = 0
    BY SMT, <1>0, <2>2 DEF ReportInv, Unreported
  <2> QED
    BY <2>1, <2>2 DEF Unreported
<1>4. ResponseOnce'
  BY DEF ReportInv, ResponseOnce
<1> QED
  BY <1>2, <1>3, <1>4 DEF ReportInv

\* A command that is refused takes an id and uses it for nothing but the fault.
LEMMA CommandFailsKeeps ==
    ASSUME ReportInv, CommandFails
    PROVE  ReportInv' /\ (ObjectInv => ObjectInv')
<1>1. /\ operations' = operations + 1 /\ operations < MaxOperations
      /\ UNCHANGED <<call, inviteCalls, session, operation, request, frame, open, calls, misread,
                     responses>>
      /\ faults' \in [Operations -> Nat]
  BY FaultsType DEF CommandFails
<1>2. TypeOK'
  BY SMT, <1>1, CallConstants DEF ReportInv, TypeOK
<1>3. OperationInv'
  BY <1>1, OperationsKept DEF Sending
<1>4. NoneTaken
  BY <1>1 DEF NoneTaken
<1>5. FreshInv'
  <2>0. operations \in Nat
    BY SMT DEF ReportInv, TypeOK
  <2>1. ASSUME NEW c \in Calls
        PROVE  /\ c > calls => /\ call[c] = NoCall /\ session[c] = NoSession
                               /\ c \notin inviteCalls
                               /\ frame.at \in CallFrames => frame.of # c
               /\ call[c].opId <= operations' /\ call[c].dialogOp <= operations'
               /\ session[c].ends + (IF session[c].deferred THEN 1 ELSE 0) <= operations'
    <3>1. /\ call[c].opId \in Int /\ call[c].dialogOp \in Int /\ session[c].ends \in Int
      BY SMT DEF ReportInv, TypeOK, CallType, SessionType
    <3> QED
      BY SMT, <1>1, <2>0, <3>1 DEF ReportInv, FreshInv
  <2>2. ASSUME NEW o \in Operations, o > operations'
        PROVE  operation[o] = NoOperation /\ responses[o] = 0
    <3>1. o > operations
      BY SMT, <1>1, <2>0, <2>2 DEF Operations
    <3> QED
      BY <3>1 DEF ReportInv, FreshInv
  <2> QED
    BY <1>1, <2>1, <2>2 DEF FreshInv
<1>6. ReportInv'
  BY <1>1, <1>2, <1>3, <1>4, <1>5, NoneTakenKeeps
<1>7. ASSUME ObjectInv PROVE ObjectInv'
  BY <1>1, <1>7 DEF ObjectInv, CallInv, RestoredInv, CallFine, Holds
<1> QED
  BY <1>6, <1>7

\* What a new id means for the rest: what was bounded by the ids used still is.
LEMMA NextId ==
    ASSUME ReportInv, operations < MaxOperations
    PROVE  /\ operations + 1 \in Operations /\ operations + 1 \in 0 .. MaxOperations
           /\ operations \in Nat
           /\ \A c \in Calls :
                 /\ call[c].opId <= operations + 1 /\ call[c].dialogOp <= operations + 1
                 /\ call[c].opId # operations + 1 /\ call[c].dialogOp # operations + 1
                 /\ session[c].ends + (IF session[c].deferred THEN 1 ELSE 0) <= operations + 1
           /\ \A o \in Operations : o > operations + 1 \/ o = operations + 1 =>
                 operation[o] = NoOperation /\ responses[o] = 0
<1>1. operations \in 0 .. MaxOperations
  BY DEF ReportInv, TypeOK
<1>2. ASSUME NEW c \in Calls
      PROVE  /\ call[c].opId <= operations + 1 /\ call[c].dialogOp <= operations + 1
             /\ call[c].opId # operations + 1 /\ call[c].dialogOp # operations + 1
             /\ session[c].ends + (IF session[c].deferred THEN 1 ELSE 0) <= operations + 1
  <2>1. /\ call[c].opId \in Int /\ call[c].dialogOp \in Int /\ session[c].ends \in Int
        /\ call[c].opId <= operations /\ call[c].dialogOp <= operations
        /\ session[c].ends + (IF session[c].deferred THEN 1 ELSE 0) <= operations
    BY SMT DEF ReportInv, FreshInv, TypeOK, CallType, SessionType
  <2> QED
    BY SMT, <1>1, <2>1
<1>3. ASSUME NEW o \in Operations, o > operations + 1 \/ o = operations + 1
      PROVE  operation[o] = NoOperation /\ responses[o] = 0
  <2>1. o > operations
    BY SMT, <1>1, <1>3 DEF Operations
  <2> QED
    BY <2>1 DEF ReportInv, FreshInv
<1> QED
  BY SMT, <1>1, <1>2, <1>3, CallConstants DEF Operations

\* ... and the new id is free.
LEMMA NextIdFree ==
    ASSUME ReportInv, operations < MaxOperations, NEW n \in Operations, n = operations + 1
    PROVE  /\ operation[n].kind = "none" /\ n # 0
           /\ \A d \in Calls : call[d].opId # n /\ call[d].dialogOp # n
<1>1. operation[n] = NoOperation
  BY NextId
<1>2. NoOperation.kind = "none"
  BY DEF NoOperation
<1>3. n # 0
  BY SMT DEF Operations
<1> QED
  BY <1>1, <1>2, <1>3, NextId

\* A BYE or CANCEL takes the next id, in the dialog_operation_id of its call.
LEMMA EndCallKeeps ==
    ASSUME ReportInv, NEW c \in Calls, NEW how \in {"waits", "sends", "answers"},
           EndCall(c, how)
    PROVE  ReportInv' /\ (ObjectInv => ObjectInv')
<1>0. /\ call[c] \in CallType /\ session[c] \in SessionType /\ call[c].active \in Nat
      /\ session[c].ends \in 0 .. MaxOperations /\ operations \in 0 .. MaxOperations
      /\ calls \in 0 .. MaxCalls
      /\ session[c].ends + (IF session[c].deferred THEN 1 ELSE 0) <= operations
  BY Unchanged DEF ReportInv, TypeOK, CallType, SessionType, FreshInv
<1>1. /\ frame = NoFrame /\ operations < MaxOperations /\ operations' = operations + 1
      /\ c \in inviteCalls /\ call[c].invite /\ call[c].dialogOp = 0
      /\ UNCHANGED <<inviteCalls, operation, request, open, calls, misread, responses, faults>>
      /\ frame' = IF how = "waits" THEN NoFrame ELSE [at |-> "end", of |-> c]
  BY DEF EndCall
<1>2. PICK n \in Operations : n = operations + 1
  BY <1>1, NextId
<1>3. PICK a \in Nat : a = IF how = "waits" THEN call[c].active ELSE call[c].active + 1
  BY SMT, <1>0
<1>4. PICK e \in 0 .. MaxOperations :
          e = IF how = "sends" THEN session[c].ends + 1 ELSE session[c].ends
  BY SMT, <1>0, <1>1, CallConstants
<1>w. PICK waits \in BOOLEAN : waits = (how = "waits")
  OBVIOUS
<1>b. PICK b \in 0 .. MaxOperations :
          b = IF how = "answers" THEN operations + 1 ELSE session[c].answeredBy
  <2>1. session[c].answeredBy \in 0 .. MaxOperations
    BY <1>0 DEF SessionType
  <2> QED
    BY SMT, <1>0, <1>1, <2>1, CallConstants
<1> DEFINE k == [call[c] EXCEPT !.dialogOp = n, !.active = a]
           s == [session[c] EXCEPT !.deferred = waits, !.ends = e, !.answeredBy = b]
<1>5. call' = [call EXCEPT ![c] = k] /\ session' = [session EXCEPT ![c] = s]
  <2>1. /\ call' = [call EXCEPT ![c].dialogOp = operations + 1,
                            ![c].active = IF how = "waits" THEN @ ELSE @ + 1]
        /\ session' = [session EXCEPT
                          ![c].deferred = (how = "waits"),
                          ![c].ends = IF how = "sends" THEN @ + 1 ELSE @,
                          ![c].answeredBy = IF how = "answers" THEN operations + 1 ELSE @]
    BY DEF EndCall
  <2>2. call' = [call EXCEPT ![c] = k]
    BY <1>2, <1>3, <2>1 DEF ReportInv, TypeOK, CallType
  <2>3. session' = [session EXCEPT ![c] = s]
    BY <1>4, <1>w, <1>b, <2>1 DEF ReportInv, TypeOK, SessionType
  <2> QED
    BY <2>2, <2>3
<1>6. /\ k \in CallType /\ k.kind = call[c].kind /\ k.assoc = call[c].assoc
      /\ k.opId = call[c].opId /\ k.dialogOp = n /\ k.finalEmitted = call[c].finalEmitted
      /\ k.active = a /\ k.invite = call[c].invite /\ k.cleanup = call[c].cleanup
      /\ k.allocated = call[c].allocated
  <2>1. n \in 0 .. MaxOperations
    BY SMT DEF Operations
  <2> QED
    BY <1>0, <2>1 DEF CallType
<1>7. /\ s \in SessionType /\ s.modData = session[c].modData /\ s.ends = e
      /\ s.inviteTsx = session[c].inviteTsx /\ s.deferred = waits
  BY <1>0 DEF SessionType
<1> HIDE DEF k, s
<1>8. CallChanges(c, k, s)
  <2>1. frame' = frame \/ (frame = NoFrame /\ frame' \in [at : CallFrames, of : {c}])
    BY <1>1 DEF CallFrames
  <2> QED
    BY <1>1, <1>5, <2>1 DEF CallChanges
<1>9. /\ call'[c] = k /\ session'[c] = s
      /\ \A d \in Calls : d # c => call'[d] = call[d] /\ session'[d] = session[d]
  BY <1>5 DEF ReportInv, TypeOK
<1>10. TypeOK'
  <2>1. frame' \in Frames
    BY <1>8, CallFrameFacts
  <2> QED
    BY SMT, <1>0, <1>1, <1>5, <1>6, <1>7, <2>1, CallConstants DEF ReportInv, TypeOK
<1>11. OperationInv'
  BY <1>1, <1>8, CallFrameFacts, OperationsKept
<1>12. FreshInv'
  <2>1. ASSUME NEW d \in Calls, d > calls
        PROVE  /\ call'[d] = NoCall /\ session'[d] = NoSession /\ d \notin inviteCalls
               /\ frame'.at \in CallFrames => frame'.of # d
    <3>1. d # c
      BY <1>1, <2>1 DEF ReportInv, FreshInv
    <3> QED
      BY <1>8, <1>9, <2>1, <3>1, CallFrameFacts DEF ReportInv, FreshInv
  <2>2. ASSUME NEW d \in Calls
        PROVE  call'[d].opId <= operations' /\ call'[d].dialogOp <= operations'
    <3>1. /\ call[d].opId <= operations' /\ call[d].dialogOp <= operations'
          /\ operations' = n /\ n <= n
      BY SMT, <1>1, <1>2, NextId DEF Operations
    <3>2. CASE d = c
      BY <1>6, <1>9, <3>1, <3>2
    <3>3. CASE d # c
      BY <1>9, <3>1, <3>3
    <3> QED
      BY <3>2, <3>3
  <2>3. ASSUME NEW d \in Calls
        PROVE  session'[d].ends + (IF session'[d].deferred THEN 1 ELSE 0) <= operations'
    <3>1. CASE d = c
      <4>1. (IF session'[d].deferred THEN 1 ELSE 0) = (IF how = "waits" THEN 1 ELSE 0)
        BY <1>w, <1>7, <1>9, <3>1
      <4>2. session'[d].ends = e
        BY <1>7, <1>9, <3>1
      <4>3. session[c].ends <= operations
        BY SMT, <1>0
      <4> QED
        BY SMT, <1>0, <1>1, <1>4, <4>1, <4>2, <4>3
    <3>2. CASE d # c
      <4>1. session[d].ends \in Int
            /\ session[d].ends + (IF session[d].deferred THEN 1 ELSE 0) <= operations
        BY SMT DEF ReportInv, FreshInv, TypeOK, SessionType
      <4> QED
        BY SMT, <1>0, <1>1, <1>9, <3>2, <4>1
    <3> QED
      BY <3>1, <3>2
  <2>4. ASSUME NEW o \in Operations, o > operations'
        PROVE  operation[o] = NoOperation /\ responses[o] = 0
    BY <1>1, <2>4, NextId
  <2> QED
    BY <1>1, <2>1, <2>2, <2>3, <2>4 DEF FreshInv
<1>13. ASSUME NEW d \in Calls
       PROVE  call[d].opId # n /\ call[d].dialogOp # n
  BY <1>1, <1>2, NextIdFree
<1>14. operation[n].kind = "none"
  BY <1>1, <1>2, NextIdFree
<1>15. ReportInv'
  <2>1. ASSUME NEW d \in Calls
        PROVE  /\ call'[d].opId \in {call[d].opId, n}
               /\ call'[d].dialogOp \in {call[d].dialogOp, n}
               /\ call[d].finalEmitted => call'[d].finalEmitted
               /\ session'[d].inviteTsx # "none" =>
                     session[d].inviteTsx # "none" \/ call'[d].opId = n
               /\ operation'[n].kind # "none" => call'[d].opId # n /\ call'[d].dialogOp # n
    BY <1>1, <1>6, <1>7, <1>9, <1>14
  <2>2. ASSUME NEW d \in Calls
        PROVE  call'[d].opId # n /\ (call'[d].dialogOp = n => d = c)
    BY <1>6, <1>9, <1>13
  <2> QED
    BY SMT, <1>1, <1>2, <1>10, <1>11, <1>12, <2>1, <2>2, TakenKeeps
<1>16. ASSUME ObjectInv PROVE ObjectInv'
  <2>1. CallFine(call[c], session[c], c \in inviteCalls, Holds(c)) /\ ~Holds(c)
    BY <1>1, <1>16 DEF ObjectInv, CallInv, Holds, NoFrame, CallFrames
  <2>2. Holds(c)' <=> how # "waits"
    BY <1>1 DEF Holds, NoFrame, CallFrames
  <2>3. CallFine(k, s, c \in inviteCalls', Holds(c)')
    BY SMT, <1>0, <1>1, <1>3, <1>6, <1>7, <2>1, <2>2 DEF CallFine
  <2> QED
    BY <1>1, <1>6, <1>8, <1>16, <2>3, CallObjects
<1> QED
  BY <1>15, <1>16

=============================================================================
