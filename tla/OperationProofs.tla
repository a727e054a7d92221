--------------------------- MODULE OperationProofs --------------------------
(***************************************************************************)
(* New calls, operations with a request of their own and the close of an   *)
(* association keep the invariants of CallProofs. So, for any number of    *)
(* calls and operations, an operation is answered at most once, whatever   *)
(* refers to an object finds it allocated, nothing is left behind, an      *)
(* operation that is not answered has something that still will answer it, *)
(* and a call that has ended has something that still will remove it.      *)
(***************************************************************************)
EXTENDS CallProofs

\* A leaf that does not name its prover is first-order reasoning, for Zenon.
USE ZenonT(20)

-----------------------------------------------------------------------------
(* New calls and new operations.                                             *)

\* A step that allocates the next call, lists it and gives it a session
NewCall(k, s) ==
    /\ calls' = calls + 1 /\ calls < MaxCalls
    /\ call' = [call EXCEPT ![calls + 1] = k] /\ session' = [session EXCEPT ![calls + 1] = s]
    /\ inviteCalls' = inviteCalls \cup {calls + 1}
    /\ \A d \in Calls : d # calls + 1 => (Holds(d)' <=> Holds(d))
    /\ frame' \in Frames /\ UNCHANGED open

\* The calls after it
LEMMA NewCallFacts ==
    ASSUME ReportInv, NEW k \in CallType, NEW s \in SessionType, NewCall(k, s)
    PROVE  /\ calls + 1 \in Calls /\ calls' \in 0 .. MaxCalls
           /\ call' \in [Calls -> CallType] /\ session' \in [Calls -> SessionType]
           /\ inviteCalls' \subseteq Calls
           /\ call'[calls + 1] = k /\ session'[calls + 1] = s
           /\ call[calls + 1] = NoCall /\ session[calls + 1] = NoSession
           /\ \A d \in Calls : d # calls + 1 =>
                 /\ call'[d] = call[d] /\ session'[d] = session[d]
                 /\ d \in inviteCalls' <=> d \in inviteCalls
           /\ \A d \in Calls : d > calls' =>
                 /\ call'[d] = NoCall /\ session'[d] = NoSession /\ d \notin inviteCalls'
                 /\ frame'.at \in CallFrames => frame'.of # d
<1>1. /\ calls \in 0 .. MaxCalls /\ calls + 1 \in Calls /\ calls' = calls + 1
      /\ calls' \in 0 .. MaxCalls
  BY SMT, CallConstants DEF NewCall, ReportInv, TypeOK, Calls
<1>2. /\ call' \in [Calls -> CallType] /\ session' \in [Calls -> SessionType]
      /\ inviteCalls' \subseteq Calls
      /\ call'[calls + 1] = k /\ session'[calls + 1] = s
      /\ \A d \in Calls : d # calls + 1 =>
            /\ call'[d] = call[d] /\ session'[d] = session[d]
            /\ d \in inviteCalls' <=> d \in inviteCalls
  BY <1>1 DEF NewCall, ReportInv, TypeOK
<1>3. call[calls + 1] = NoCall /\ session[calls + 1] = NoSession
  BY SMT, <1>1 DEF ReportInv, FreshInv
<1>4. ASSUME NEW d \in Calls, d > calls'
      PROVE  /\ call'[d] = NoCall /\ session'[d] = NoSession /\ d \notin inviteCalls'
             /\ frame'.at \in CallFrames => frame'.of # d
  <2>1. d # calls + 1 /\ d > calls
    BY SMT, <1>1, <1>4 DEF Calls
  <2>2. (frame'.at \in CallFrames /\ frame'.of = d) => frame.at \in CallFrames /\ frame.of = d
    BY <2>1 DEF NewCall, Holds
  <2> QED
    BY <1>2, <2>1, <2>2 DEF ReportInv, FreshInv
<1> QED
  BY <1>1, <1>2, <1>3, <1>4

\* It may be the call of one new restored dialog.
LEMMA NewCallObjects ==
    ASSUME ReportInv, ObjectInv, NEW k \in CallType, NEW s \in SessionType, NewCall(k, s),
           NEW c, c = calls + 1, CallFine(k, s, TRUE, Holds(c)'),
           \A o \in Operations : operation'[o].restoredCall # operation[o].restoredCall =>
              /\ operation'[o].restoredCall = c
              /\ k.kind = "restored"
              /\ \A p \in Operations : p # o =>
                    operation'[p].restoredCall = operation[p].restoredCall
    PROVE  ObjectInv'
<1>0. \A d \in Calls : d # c => (Holds(d)' <=> Holds(d))
  BY DEF NewCall
<1>1. /\ c \in Calls /\ call'[c] = k /\ session'[c] = s /\ c \in inviteCalls'
      /\ \A d \in Calls : d # c => /\ call'[d] = call[d] /\ session'[d] = session[d]
                                   /\ d \in inviteCalls' <=> d \in inviteCalls
      /\ calls' = c /\ calls \in Nat
  <2>1. calls \in Nat /\ calls' = c /\ c \in inviteCalls'
    BY SMT DEF NewCall, ReportInv, TypeOK
  <2> QED
    BY <2>1, NewCallFacts
<1>2. c > calls
  BY SMT, <1>1
<1>3. CallInv'
  <2>1. ASSUME NEW d \in Calls
        PROVE  CallFine(call[d], session[d], d \in inviteCalls, Holds(d))'
    <3>1. CASE d = c
      BY <1>1, <3>1 DEF CallFine
    <3>2. CASE d # c
      <4>1. CallFine(call[d], session[d], d \in inviteCalls, Holds(d))
        BY DEF ObjectInv, CallInv
      <4> QED
        BY <1>0, <1>1, <3>2, <4>1 DEF CallFine
    <3> QED
      BY <3>1, <3>2
  <2> QED
    BY <2>1 DEF CallInv
<1>4. RestoredInv'
  <2>0. ASSUME NEW o \in Operations, operation[o].restoredCall # 0
        PROVE  LET d == operation[o].restoredCall IN
               /\ d \in inviteCalls \/ call[d].assoc \notin open
               /\ d <= calls /\ call[d].kind = "restored" /\ d \in Calls /\ d # c
               /\ \A p \in Operations : p # o => operation[p].restoredCall # d
    <3>1. LET d == operation[o].restoredCall IN
          /\ d \in inviteCalls \/ call[d].assoc \notin open
          /\ d <= calls /\ call[d].kind = "restored" /\ d \in Calls
          /\ \A p \in Operations : p # o => operation[p].restoredCall # d
      BY <2>0 DEF ObjectInv, RestoredInv, ReportInv, TypeOK
    <3>2. operation[o].restoredCall # c
      BY SMT, <1>1, <1>2, <3>1 DEF Calls
    <3> QED
      BY <3>1, <3>2
  <2> SUFFICES ASSUME NEW o \in Operations, operation'[o].restoredCall # 0
               PROVE  LET d == operation'[o].restoredCall IN
                      /\ d \in Calls /\ d <= calls' /\ call'[d].kind = "restored"
                      /\ d \in inviteCalls' \/ call'[d].assoc \notin open'
                      /\ \A p \in Operations : p # o => operation'[p].restoredCall # d
    BY DEF RestoredInv
  <2>1. CASE operation'[o].restoredCall = operation[o].restoredCall
    <3> DEFINE d == operation[o].restoredCall
    <3>1. /\ d \in inviteCalls \/ call[d].assoc \notin open
          /\ d <= calls /\ call[d].kind = "restored" /\ d \in Calls /\ d # c
          /\ \A p \in Operations : p # o => operation[p].restoredCall # d
      BY <2>0, <2>1
    <3> HIDE DEF d
    <3>0. call'[d] = call[d] /\ inviteCalls \subseteq inviteCalls' /\ open' = open
      BY <1>1, <3>1 DEF NewCall
    <3>2. /\ d \in inviteCalls' \/ call'[d].assoc \notin open'
          /\ d \in Calls /\ call'[d].kind = "restored"
      BY <3>0, <3>1
    <3>3. d <= calls'
      BY SMT, <1>1, <1>2, <3>1 DEF Calls
    <3>4. \A p \in Operations : p # o => operation'[p].restoredCall # d
      BY <1>1, <3>1
    <3>5. operation'[o].restoredCall = d
      BY <2>1 DEF d
    <3> QED
      BY <3>2, <3>3, <3>4, <3>5
  <2>2. CASE operation'[o].restoredCall # operation[o].restoredCall
    <3>1. /\ operation'[o].restoredCall = c /\ k.kind = "restored"
          /\ \A p \in Operations : p # o =>
                operation'[p].restoredCall = operation[p].restoredCall
      BY <2>2
    <3>2. \A p \in Operations : operation[p].restoredCall # c
      <4>1. c # 0
        BY SMT, <1>1, <1>2
      <4> QED
        BY <2>0, <4>1
    <3>3. c <= calls'
      BY SMT, <1>1, <1>2
    <3> QED
      BY <1>1, <3>1, <3>2, <3>3
  <2> QED
    BY <2>1, <2>2
<1> QED
  BY <1>3, <1>4 DEF ObjectInv

\* gmv_send_invite_on_owner: a call that its handler holds, with the next id
LEMMA SendInviteKeeps ==
    ASSUME ReportInv, NEW a \in Associations, SendInvite(a)
    PROVE  ReportInv' /\ (ObjectInv => ObjectInv')
<1> DEFINE k == [NoCall EXCEPT !.kind = "uac", !.opId = operations + 1, !.assoc = a,
                               !.invite = TRUE, !.active = 1, !.allocated = TRUE]
           s == [NoSession EXCEPT !.state = "early", !.modData = TRUE, !.inviteTsx = "open"]
<1>1. /\ frame = NoFrame /\ calls < MaxCalls /\ operations < MaxOperations
      /\ calls' = calls + 1 /\ operations' = operations + 1
      /\ call' = [call EXCEPT ![calls + 1] = k] /\ session' = [session EXCEPT ![calls + 1] = s]
      /\ inviteCalls' = inviteCalls \cup {calls + 1}
      /\ frame' = [at |-> "invite", of |-> calls + 1]
      /\ UNCHANGED <<operation, request, open, responses, faults, misread>>
  BY DEF SendInvite
<1>2. /\ k \in CallType /\ k.kind = "uac" /\ k.opId = operations + 1 /\ k.dialogOp = 0
      /\ ~k.finalEmitted /\ k.invite /\ k.active = 1 /\ ~k.cleanup /\ k.allocated
  <2>1. NoCall \in CallType /\ operations + 1 \in 0 .. MaxOperations
    BY <1>1, NoneFacts, NextId
  <2> QED
    BY <2>1 DEF CallType, NoCall
<1>3. /\ s \in SessionType /\ s.modData /\ s.ends = 0 /\ ~s.deferred
  <2>1. NoSession \in SessionType
    BY NoneFacts
  <2> QED
    BY <2>1 DEF SessionType, NoSession
<1> HIDE DEF k, s
<1>4. PICK c \in Calls : c = calls + 1
  BY SMT, <1>1, CallConstants DEF ReportInv, TypeOK, Calls
<1>5. /\ frame' \in Frames /\ (\A d \in Calls : d # c => ~Holds(d)') /\ Holds(c)'
      /\ (\A d \in Calls : ~Holds(d)) /\ (\A o \in Operations : ~Sending(o) /\ ~Sending(o)')
  BY <1>1, <1>4 DEF Frames, Holds, Sending, NoFrame, CallFrames
<1>6. NewCall(k, s)
  BY <1>1, <1>4, <1>5 DEF NewCall
<1>7. /\ calls' \in 0 .. MaxCalls
      /\ call' \in [Calls -> CallType] /\ session' \in [Calls -> SessionType]
      /\ inviteCalls' \subseteq Calls
      /\ call'[c] = k /\ session'[c] = s /\ call[c] = NoCall
      /\ \A d \in Calls : d # c => call'[d] = call[d] /\ session'[d] = session[d]
      /\ \A d \in Calls : d > calls' =>
            /\ call'[d] = NoCall /\ session'[d] = NoSession /\ d \notin inviteCalls'
            /\ frame'.at \in CallFrames => frame'.of # d
  BY SMT, <1>2, <1>3, <1>4, <1>6, NewCallFacts
<1>8. TypeOK'
  BY <1>1, <1>5, <1>7, NextId DEF ReportInv, TypeOK
<1>9. OperationInv'
  BY <1>1, <1>5, OperationsKept
<1>10. FreshInv'
  <2>1. ASSUME NEW d \in Calls
        PROVE  /\ call'[d].opId <= operations' /\ call'[d].dialogOp <= operations'
               /\ session'[d].ends + (IF session'[d].deferred THEN 1 ELSE 0) <= operations'
    BY SMT, <1>1, <1>2, <1>3, <1>7, NextId
  <2> QED
    BY <1>1, <1>7, <2>1, NextId DEF FreshInv
<1>11. PICK n \in Operations : n = operations + 1
  BY <1>1, NextId
<1>12. ReportInv'
  <2>1. ASSUME NEW d \in Calls
        PROVE  /\ call'[d].opId \in {call[d].opId, n}
               /\ call'[d].dialogOp \in {call[d].dialogOp, n} /\ call'[d].dialogOp # n
               /\ call[d].finalEmitted => call'[d].finalEmitted
               /\ session'[d].inviteTsx # "none" =>
                     session[d].inviteTsx # "none" \/ call'[d].opId = n
               /\ call'[d].opId = n => d = c
    <3>1. n # 0 /\ call[d].opId # n /\ call[d].dialogOp # n
      BY <1>1, <1>11, NextIdFree
    <3>2. CASE d = c
      <4>1. call[d].dialogOp = 0 /\ ~call[d].finalEmitted
        BY <1>7, <3>2, NoneFields
      <4>2. k.opId = n /\ k.dialogOp = 0
        BY <1>2, <1>11
      <4> QED
        BY <1>7, <3>1, <3>2, <4>1, <4>2
    <3>3. CASE d # c
      BY <1>7, <3>1, <3>3
    <3> QED
      BY <3>2, <3>3
  <2>2. operation'[n].kind = "none"
    BY <1>1, <1>11, NextIdFree
  <2> QED
    BY SMT, <1>1, <1>8, <1>9, <1>10, <1>11, <2>1, <2>2, TakenKeeps
<1>13. ASSUME ObjectInv PROVE ObjectInv'
  <2>1. CallFine(k, s, TRUE, Holds(c)')
    BY <1>2, <1>3, <1>5 DEF CallFine
  <2> QED
    BY <1>1, <1>2, <1>3, <1>4, <1>6, <1>13, <2>1, NewCallObjects
<1> QED
  BY <1>12, <1>13

\* gmv_handle_incoming_invite: a call that has nothing to report
LEMMA IncomingInviteKeeps ==
    ASSUME ReportInv, NEW a \in Associations, IncomingInvite(a)
    PROVE  ReportInv' /\ (ObjectInv => ObjectInv')
<1> DEFINE k == [NoCall EXCEPT !.kind = "uas", !.assoc = a, !.finalEmitted = TRUE,
                               !.invite = TRUE, !.allocated = TRUE]
           s == [NoSession EXCEPT !.state = "early", !.modData = TRUE]
<1>1. /\ frame = NoFrame /\ calls < MaxCalls /\ calls' = calls + 1
      /\ call' = [call EXCEPT ![calls + 1] = k] /\ session' = [session EXCEPT ![calls + 1] = s]
      /\ inviteCalls' = inviteCalls \cup {calls + 1}
      /\ UNCHANGED <<operation, request, frame, open, operations, responses, faults, misread>>
  BY DEF IncomingInvite
<1>2. /\ k \in CallType /\ k.kind = "uas" /\ k.opId = 0 /\ k.dialogOp = 0
      /\ k.invite /\ k.active = 0 /\ ~k.cleanup /\ k.allocated
  <2>1. NoCall \in CallType
    BY NoneFacts
  <2> QED
    BY <2>1 DEF CallType, NoCall
<1>3. /\ s \in SessionType /\ s.modData /\ s.ends = 0 /\ ~s.deferred /\ s.inviteTsx = "none"
  <2>1. NoSession \in SessionType
    BY NoneFacts
  <2> QED
    BY <2>1 DEF SessionType, NoSession
<1> HIDE DEF k, s
<1>4. PICK c \in Calls : c = calls + 1
  BY SMT, <1>1, CallConstants DEF ReportInv, TypeOK, Calls
<1>5. /\ frame' \in Frames /\ (\A d \in Calls : ~Holds(d)') /\ (\A d \in Calls : ~Holds(d))
      /\ \A o \in Operations : Sending(o)' <=> Sending(o)
  BY <1>1 DEF Frames, Holds, Sending, NoFrame, CallFrames
<1>6. NewCall(k, s)
  BY <1>1, <1>4, <1>5 DEF NewCall
<1>7. /\ calls' \in 0 .. MaxCalls
      /\ call' \in [Calls -> CallType] /\ session' \in [Calls -> SessionType]
      /\ inviteCalls' \subseteq Calls
      /\ call'[c] = k /\ session'[c] = s /\ call[c] = NoCall
      /\ \A d \in Calls : d # c => call'[d] = call[d] /\ session'[d] = session[d]
      /\ \A d \in Calls : d > calls' =>
            /\ call'[d] = NoCall /\ session'[d] = NoSession /\ d \notin inviteCalls'
            /\ frame'.at \in CallFrames => frame'.of # d
  BY <1>2, <1>3, <1>4, <1>6, NewCallFacts
<1>8. TypeOK'
  BY <1>1, <1>5, <1>7 DEF ReportInv, TypeOK
<1>9. OperationInv'
  BY <1>1, <1>5, OperationsKept
<1>10. FreshInv'
  <2>1. ASSUME NEW d \in Calls
        PROVE  /\ call'[d].opId <= operations' /\ call'[d].dialogOp <= operations'
               /\ session'[d].ends + (IF session'[d].deferred THEN 1 ELSE 0) <= operations'
    <3>1. operations \in Nat
      BY SMT DEF ReportInv, TypeOK
    <3> QED
      BY SMT, <1>1, <1>2, <1>3, <1>7, <3>1 DEF ReportInv, FreshInv
  <2> QED
    BY <1>1, <1>7, <2>1 DEF ReportInv, FreshInv
<1>11. NoneTaken
  <2>1. ASSUME NEW d \in Calls
        PROVE  /\ call'[d].opId = call[d].opId /\ call'[d].dialogOp = call[d].dialogOp
               /\ call[d].finalEmitted => call'[d].finalEmitted
               /\ session'[d].inviteTsx # "none" => session[d].inviteTsx # "none"
    BY SMT, <1>2, <1>3, <1>7 DEF NoCall
  <2> QED
    BY <1>1, <2>1 DEF NoneTaken
<1>12. ReportInv'
  BY <1>1, <1>8, <1>9, <1>10, <1>11, NoneTakenKeeps
<1>13. ASSUME ObjectInv PROVE ObjectInv'
  <2>1. CallFine(k, s, TRUE, Holds(c)')
    BY <1>2, <1>3, <1>5 DEF CallFine
  <2> QED
    BY <1>1, <1>2, <1>3, <1>4, <1>6, <1>13, <2>1, NewCallObjects
<1> QED
  BY <1>12, <1>13

\* The request that an operation begins with
NewRequest(made, m) ==
    [tsx |-> IF made THEN "open" ELSE "none", token |-> made, sessions |-> m]

\* An operation that may begin: p holds m sessions, while its handler sends the request.
Beginning(p, m) ==
    /\ p \in OperationType /\ m \in 0 .. 1 /\ p.kind # "none" /\ BeginRequest(p, m)
    /\ \A made \in BOOLEAN : OperationFine(p, NewRequest(made, m), TRUE)

\* No call takes an operation id.
CallsTakeNone ==
    /\ calls' \in 0 .. MaxCalls /\ misread' \in 0 .. MaxCalls
    /\ call' \in [Calls -> CallType] /\ inviteCalls' \subseteq Calls
    /\ \A c \in Calls :
          /\ call'[c].opId = call[c].opId /\ call'[c].dialogOp = call[c].dialogOp
          /\ call'[c].finalEmitted = call[c].finalEmitted
          /\ c > calls' => c > calls /\ call'[c] = NoCall /\ c \notin inviteCalls'

\* A request of its own takes the next id, n, for the operation p.
LEMMA RequestBegins ==
    ASSUME ReportInv, NEW p, NEW m, Beginning(p, m), NEW n, n = operations + 1, CallsTakeNone
    PROVE  /\ ReportInv' /\ n \in Operations /\ operation'[n] = p
           /\ \A o \in Operations : o # n => operation'[o] = operation[o]
           /\ \A c \in Calls : ~Holds(c) /\ ~Holds(c)'
<1>1. PICK r \in RequestType :
        /\ OperationFine(p, r, TRUE)
        /\ request' = [request EXCEPT ![operations + 1] = r]
  <2>1. PICK made \in BOOLEAN :
          request' = [request EXCEPT ![operations + 1] = NewRequest(made, m)]
    BY DEF Beginning, BeginRequest, NewRequest
  <2>2. NewRequest(made, m) \in RequestType /\ OperationFine(p, NewRequest(made, m), TRUE)
    BY DEF RequestType, NewRequest, Beginning
  <2> QED
    BY <2>1, <2>2
<1>2. /\ frame = NoFrame /\ operations < MaxOperations /\ operations' = operations + 1
      /\ operation' = [operation EXCEPT ![operations + 1] = p]
      /\ frame' = [at |-> "request", of |-> operations + 1]
      /\ UNCHANGED <<session, open, responses, faults>>
      /\ p \in OperationType /\ p.kind # "none"
  BY DEF Beginning, BeginRequest
<1>3. n \in Operations
  BY <1>2, NextId
<1>4. /\ operation'[n] = p /\ request'[n] = r
      /\ \A o \in Operations : o # n => operation'[o] = operation[o] /\ request'[o] = request[o]
      /\ operation' \in [Operations -> OperationType] /\ request' \in [Operations -> RequestType]
  BY <1>1, <1>2, <1>3 DEF ReportInv, TypeOK
<1>5. /\ frame' \in Frames /\ (\A c \in Calls : ~Holds(c) /\ ~Holds(c)')
      /\ frame'.at \notin CallFrames
      /\ (\A o \in Operations : ~Sending(o) /\ (Sending(o)' <=> o = n))
  BY <1>2, <1>3 DEF Frames, Holds, Sending, NoFrame, CallFrames
<1>6. TypeOK'
  BY <1>2, <1>4, <1>5, NextId DEF CallsTakeNone, ReportInv, TypeOK
<1>7. OperationInv'
  <2> SUFFICES ASSUME NEW o \in Operations
               PROVE  OperationFine(operation[o], request[o], Sending(o))'
    BY DEF OperationInv
  <2>1. CASE o = n
    BY <1>1, <1>4, <1>5, <2>1 DEF OperationFine
  <2>2. CASE o # n
    <3>1. OperationFine(operation[o], request[o], Sending(o))
      BY DEF ReportInv, OperationInv
    <3> QED
      BY <1>4, <1>5, <2>2, <3>1 DEF OperationFine
  <2> QED
    BY <2>1, <2>2
<1>8. FreshInv'
  <2>1. ASSUME NEW c \in Calls, c > calls'
        PROVE  /\ call'[c] = NoCall /\ session'[c] = NoSession /\ c \notin inviteCalls'
               /\ frame'.at \in CallFrames => frame'.of # c
    BY <1>2, <1>5, <2>1 DEF CallsTakeNone, ReportInv, FreshInv
  <2>2. ASSUME NEW c \in Calls
        PROVE  /\ call'[c].opId <= operations' /\ call'[c].dialogOp <= operations'
               /\ session'[c].ends + (IF session'[c].deferred THEN 1 ELSE 0) <= operations'
    BY <1>2, NextId DEF CallsTakeNone
  <2>3. ASSUME NEW o \in Operations, o > operations'
        PROVE  operation'[o] = NoOperation /\ responses'[o] = 0
    <3>1. o # n
      BY SMT, <1>2, <2>3 DEF Operations
    <3> QED
      BY <1>2, <1>4, <2>3, <3>1, NextId
  <2> QED
    BY <2>1, <2>2, <2>3 DEF FreshInv
<1>9. ReportInv'
  <2>1. ASSUME NEW c \in Calls
        PROVE  call'[c].opId # n /\ call'[c].dialogOp # n
    BY <1>2, NextId DEF CallsTakeNone
  <2> QED
    BY SMT, <1>2, <1>3, <1>4, <1>6, <1>7, <1>8, <2>1, TakenKeeps DEF CallsTakeNone
<1> QED
  BY <1>3, <1>4, <1>5, <1>9

\* What freed memory is read through is a call.
LEMMA MisreadType ==
    ASSUME ReportInv, NEW cs, cs \subseteq 0 .. MaxCalls, misread' \in Misread(cs)
    PROVE  misread' \in 0 .. MaxCalls
BY DEF ReportInv, TypeOK, Misread

\* ... a call, or none.
LEMMA CallOrNone ==
    /\ 0 \in 0 .. MaxCalls /\ Calls \subseteq 0 .. MaxCalls
    /\ \A x \in 0 .. MaxCalls : x # 0 => x \in Calls
BY SMT, CallConstants DEF Calls

\* A MESSAGE, or an INFO on a live call: no call is touched.
LEMMA SendKeeps ==
    ASSUME ReportInv, SendMessage \/ \E c \in Calls : SendInfo(c)
    PROVE  ReportInv' /\ (ObjectInv => ObjectInv')
<1>0. NoOperation \in OperationType
  BY NoneFacts
<1>1. PICK p : Beginning(p, 0) /\ p.restoredCall = 0
  <2>1. CASE SendMessage
    <3> DEFINE p == [NoOperation EXCEPT !.kind = "message"]
    <3>1. BeginRequest(p, 0)
      BY <2>1 DEF SendMessage
    <3>2. /\ p \in OperationType /\ p.kind = "message" /\ p.restoredCall = 0 /\ p.active = 0
          /\ ~p.cleanup /\ ~p.allocated /\ ~p.sessionHeld
      BY <1>0 DEF OperationType, NoOperation
    <3> HIDE DEF p
    <3> QED
      BY SMT, <3>1, <3>2 DEF Beginning, OperationFine, NewRequest
  <2>2. ASSUME NEW c \in Calls, SendInfo(c)
        PROVE  \E p : Beginning(p, 0) /\ p.restoredCall = 0
    <3>0. PICK i \in {"info", "uasInfo"} : i = IF call[c].kind = "uac" THEN "info" ELSE "uasInfo"
      OBVIOUS
    <3> DEFINE p == [NoOperation EXCEPT !.kind = i, !.active = 1, !.allocated = TRUE]
    <3>1. BeginRequest(p, 0)
      BY <2>2, <3>0 DEF SendInfo
    <3>2. /\ p \in OperationType /\ p.kind = i /\ p.restoredCall = 0 /\ p.active = 1
          /\ ~p.cleanup /\ p.allocated /\ ~p.sessionHeld
      BY <1>0 DEF OperationType, NoOperation
    <3> HIDE DEF p
    <3>3. Beginning(p, 0)
      BY SMT, <3>1, <3>2 DEF Beginning, OperationFine, NewRequest
    <3> QED
      BY <3>2, <3>3
  <2> QED
    BY <2>1, <2>2
<1>2. UNCHANGED <<call, inviteCalls, calls, session, open>>
  BY DEF SendMessage, SendInfo, BeginRequest
<1>3. PICK n : n = operations + 1
  OBVIOUS
<1>4. CallsTakeNone
  <2>1. misread' = misread \/ \E c \in Calls : misread' \in Misread(IF SessionLives(c) THEN {0} ELSE {c})
    BY DEF SendMessage, SendInfo
  <2>2. misread' \in 0 .. MaxCalls
    BY <2>1, CallOrNone DEF ReportInv, TypeOK, Misread
  <2> QED
    BY <1>2, <2>2 DEF CallsTakeNone, ReportInv, TypeOK, FreshInv
<1>5. /\ ReportInv' /\ n \in Operations /\ operation'[n] = p
      /\ \A o \in Operations : o # n => operation'[o] = operation[o]
      /\ \A c \in Calls : ~Holds(c) /\ ~Holds(c)'
  BY <1>1, <1>3, <1>4, RequestBegins
<1>6. ASSUME ObjectInv PROVE ObjectInv'
  <2>1. CallInv'
    BY <1>2, <1>5, <1>6 DEF ObjectInv, CallInv, CallFine
  <2>2. RestoredInv'
    BY <1>1, <1>2, <1>5, <1>6 DEF ObjectInv, RestoredInv
  <2> QED
    BY <2>1, <2>2 DEF ObjectInv
<1> QED
  BY <1>5, <1>6

\* A request of a restored dialog: its operation refers to a new call.
LEMMA SendRestoredKeeps ==
    ASSUME ReportInv, NEW a \in Associations, SendRestored(a)
    PROVE  ReportInv' /\ (ObjectInv => ObjectInv')
<1> DEFINE p == [NoOperation EXCEPT !.kind = "restored", !.restoredCall = calls + 1,
                                    !.sessionHeld = TRUE, !.active = 1, !.allocated = TRUE]
           k == [NoCall EXCEPT !.kind = "restored", !.assoc = a, !.allocated = TRUE]
<1>1. /\ BeginRequest(p, 1) /\ calls < MaxCalls /\ calls' = calls + 1
      /\ call' = [call EXCEPT ![calls + 1] = k]
      /\ inviteCalls' = inviteCalls \cup {calls + 1} /\ misread' = misread
  BY DEF SendRestored
<1>2. PICK c \in Calls : c = calls + 1
  BY SMT, <1>1, CallConstants DEF ReportInv, TypeOK, Calls
<1>3. /\ p \in OperationType /\ p.kind = "restored" /\ p.restoredCall = c /\ p.active = 1
      /\ ~p.cleanup /\ p.allocated /\ p.sessionHeld
  <2>1. NoOperation \in OperationType /\ c \in 0 .. MaxCalls
    BY SMT, NoneFacts DEF Calls
  <2>2. p = [NoOperation EXCEPT !.kind = "restored", !.restoredCall = c,
                                !.sessionHeld = TRUE, !.active = 1, !.allocated = TRUE]
    BY <1>2
  <2> HIDE DEF p
  <2> QED
    BY <2>1, <2>2 DEF OperationType, NoOperation
<1>4. /\ k \in CallType /\ k.kind = "restored" /\ k.opId = 0 /\ k.dialogOp = 0
      /\ k.finalEmitted = FALSE /\ ~k.invite /\ k.active = 0 /\ ~k.cleanup /\ k.allocated
      /\ k.assoc = a
  <2>1. NoCall \in CallType
    BY NoneFacts
  <2> QED
    BY <2>1 DEF CallType, NoCall
<1> HIDE DEF p, k
<1>5. /\ call[c] = NoCall /\ session[c] = NoSession
      /\ NoCall.opId = 0 /\ NoCall.dialogOp = 0 /\ NoCall.finalEmitted = FALSE
      /\ session = [session EXCEPT ![c] = NoSession]
  <2>1. c > calls
    BY SMT, <1>2 DEF ReportInv, TypeOK
  <2> QED
    BY <2>1 DEF ReportInv, TypeOK, FreshInv, NoCall
<1>6. /\ calls' \in 0 .. MaxCalls /\ call' \in [Calls -> CallType] /\ inviteCalls' \subseteq Calls
      /\ misread' \in 0 .. MaxCalls
      /\ call'[c] = k /\ \A d \in Calls : d # c => call'[d] = call[d]
  BY SMT, <1>1, <1>2, <1>4, CallConstants DEF ReportInv, TypeOK, Calls
<1>7. ASSUME NEW d \in Calls
      PROVE  /\ call'[d].opId = call[d].opId /\ call'[d].dialogOp = call[d].dialogOp
             /\ call'[d].finalEmitted = call[d].finalEmitted
             /\ d > calls' => d > calls /\ call'[d] = NoCall /\ d \notin inviteCalls'
  <2>1. CASE d = c
    <3>1. ~(c > calls')
      BY SMT, <1>1, <1>2 DEF Calls
    <3> QED
      BY <1>4, <1>5, <1>6, <2>1, <3>1
  <2>2. CASE d # c
    <3>1. d > calls' => d > calls
      BY SMT, <1>1 DEF ReportInv, TypeOK, Calls
    <3> QED
      BY <1>1, <1>2, <1>6, <2>2, <3>1 DEF ReportInv, FreshInv
  <2> QED
    BY <2>1, <2>2
<1>8. Beginning(p, 1) /\ CallsTakeNone
  BY SMT, <1>1, <1>3, <1>6, <1>7 DEF Beginning, OperationFine, NewRequest, CallsTakeNone
<1>9. PICK n : n = operations + 1
  OBVIOUS
<1>10. /\ ReportInv' /\ n \in Operations /\ operation'[n] = p
       /\ \A o \in Operations : o # n => operation'[o] = operation[o]
       /\ \A d \in Calls : ~Holds(d) /\ ~Holds(d)'
  BY <1>8, <1>9, RequestBegins
<1>11. ASSUME ObjectInv PROVE ObjectInv'
  <2>1. NewCall(k, NoSession)
    <3>1. session' = session /\ frame' \in Frames /\ open' = open
      BY <1>1, <1>10 DEF BeginRequest, ReportInv, TypeOK
    <3> QED
      BY <1>1, <1>2, <1>5, <1>10, <3>1 DEF NewCall
  <2>2. CallFine(k, NoSession, TRUE, Holds(c)')
    BY <1>4, <1>10 DEF CallFine, NoSession
  <2>3. ASSUME NEW o \in Operations, operation'[o].restoredCall # operation[o].restoredCall
        PROVE  /\ operation'[o].restoredCall = c
               /\ k.kind = "restored"
               /\ \A q \in Operations : q # o =>
                     operation'[q].restoredCall = operation[q].restoredCall
    BY <1>1, <1>3, <1>4, <1>10, <2>3
  <2> QED
    BY <1>2, <1>4, <1>11, <2>1, <2>2, <2>3, NoneFacts, NewCallObjects
<1> QED
  BY <1>10, <1>11

-----------------------------------------------------------------------------
(* Steps that change one operation with a request of its own.                *)

\* Operation o becomes q, its request r, with or without the report of its end.
OperationBecomes(o, q, r) ==
    /\ operation' = [operation EXCEPT ![o] = q] /\ request' = [request EXCEPT ![o] = r]
    /\ inviteCalls' \subseteq inviteCalls /\ CallsTakeNone
    /\ UNCHANGED <<session, open, calls, operations>>
    /\ faults' \in [Operations -> Nat]
    /\ frame' = frame \/ (Sending(o) /\ frame' = NoFrame)
    /\ \/ UNCHANGED responses
       \/ /\ Responds(o)
          /\ operation[o].kind = "message" => ~operation[o].finalEmitted /\ q.finalEmitted
          /\ operation[o].kind # "message" =>
                operation[o].kind # "uasInfo" /\ request[o].token /\ ~r.token

\* The frame of such a step
LEMMA OperationFrame ==
    ASSUME ReportInv, NEW o \in Operations, NEW q, NEW r, OperationBecomes(o, q, r)
    PROVE  /\ frame' \in Frames
           /\ \A x \in Operations : x # o => (Sending(x)' <=> Sending(x))
           /\ \A c \in Calls : Holds(c)' <=> Holds(c)
           /\ frame'.at \in CallFrames => frame' = frame
<1>1. CASE frame' = frame
  BY <1>1 DEF ReportInv, TypeOK, Sending, Holds
<1>2. CASE Sending(o) /\ frame' = NoFrame
  BY <1>2 DEF Frames, NoFrame, Sending, Holds, CallFrames
<1> QED
  BY <1>1, <1>2 DEF OperationBecomes

\* Such a step keeps what the application is told.
LEMMA OperationReports ==
    ASSUME ReportInv, NEW o \in Operations, NEW q \in OperationType, NEW r \in RequestType,
           OperationBecomes(o, q, r), OperationFine(q, r, Sending(o)'),
           q.kind = operation[o].kind, operation[o].kind # "none",
           operation[o].finalEmitted => q.finalEmitted, r.token => request[o].token
    PROVE  ReportInv'
<1>1. /\ operation'[o] = q /\ request'[o] = r
      /\ \A x \in Operations : x # o => operation'[x] = operation[x] /\ request'[x] = request[x]
      /\ operation' \in [Operations -> OperationType] /\ request' \in [Operations -> RequestType]
  BY DEF OperationBecomes, ReportInv, TypeOK
<1>2. /\ inviteCalls' \subseteq inviteCalls /\ CallsTakeNone
      /\ UNCHANGED <<session, open, calls, operations>> /\ faults' \in [Operations -> Nat]
  BY DEF OperationBecomes
<1>3. TypeOK'
  <2>1. responses' \in [Operations -> Nat]
    BY SMT DEF OperationBecomes, Responds, ReportInv, TypeOK
  <2> QED
    BY <1>1, <1>2, <2>1, OperationFrame DEF CallsTakeNone, ReportInv, TypeOK
<1>4. OperationInv'
  <2> SUFFICES ASSUME NEW x \in Operations
               PROVE  OperationFine(operation[x], request[x], Sending(x))'
    BY DEF OperationInv
  <2>1. CASE x = o
    BY <1>1, <2>1 DEF OperationFine
  <2>2. CASE x # o
    <3>1. OperationFine(operation[x], request[x], Sending(x)) /\ (Sending(x)' <=> Sending(x))
      BY <2>2, OperationFrame DEF ReportInv, OperationInv
    <3> QED
      BY <1>1, <2>2, <3>1 DEF OperationFine
  <2> QED
    BY <2>1, <2>2
<1>5. operations \in Nat /\ ~(o > operations)
  BY SMT DEF ReportInv, TypeOK, FreshInv, NoOperation
<1>6. FreshInv'
  <2>1. ASSUME NEW c \in Calls
        PROVE  /\ c > calls' => /\ call'[c] = NoCall /\ session'[c] = NoSession
                                /\ c \notin inviteCalls'
                                /\ frame'.at \in CallFrames => frame'.of # c
               /\ call'[c].opId <= operations' /\ call'[c].dialogOp <= operations'
               /\ session'[c].ends + (IF session'[c].deferred THEN 1 ELSE 0) <= operations'
    BY <1>2, OperationFrame DEF CallsTakeNone, ReportInv, FreshInv
  <2>2. ASSUME NEW x \in Operations, x > operations'
        PROVE  operation'[x] = NoOperation /\ responses'[x] = 0
    <3>1. x # o /\ x > operations
      BY <1>2, <1>5, <2>2
    <3>2. responses'[x] = responses[x]
      BY <3>1 DEF OperationBecomes, Responds, ReportInv, TypeOK
    <3> QED
      BY <1>1, <3>1, <3>2 DEF ReportInv, FreshInv
  <2> QED
    BY <2>1, <2>2 DEF FreshInv
<1>7. NoneTaken
  BY <1>1, <1>2 DEF NoneTaken, CallsTakeNone
<1>8. CASE UNCHANGED responses
  BY <1>3, <1>4, <1>6, <1>7, <1>8, NoneTakenKeeps
<1>9. CASE /\ Responds(o)
           /\ operation[o].kind = "message" => ~operation[o].finalEmitted /\ q.finalEmitted
           /\ operation[o].kind # "message" =>
                 operation[o].kind # "uasInfo" /\ request[o].token /\ ~r.token
  <2>1. operation[o].kind \in {"message", "info", "restored"}
    BY <1>9 DEF OperationBecomes, ReportInv, TypeOK, OperationType
  <2>2. responses[o] = 0
    BY <1>9, <2>1 DEF ReportInv, Unreported
  <2>3. ASSUME NEW c \in Calls
        PROVE  call'[c].opId # o /\ call'[c].dialogOp # o
    <3>1. call[c].opId # o /\ call[c].dialogOp # o
      BY <2>1 DEF ReportInv, UsedOnce
    <3>2. call'[c].opId = call[c].opId /\ call'[c].dialogOp = call[c].dialogOp
      BY <1>2 DEF CallsTakeNone
    <3> QED
      BY <3>1, <3>2
  <2>4. /\ operation'[o].kind = "message" => operation'[o].finalEmitted
        /\ operation'[o].kind \in {"info", "restored"} => ~request'[o].token
    BY <1>1, <1>9
  <2> QED
    BY <1>3, <1>4, <1>6, <1>7, <1>9, <2>2, <2>3, <2>4, RespondsKeeps
<1> QED
  BY <1>8, <1>9 DEF OperationBecomes

\* When no call changes and every operation keeps the call it refers to
LEMMA ObjectsKept ==
    ASSUME ReportInv, ObjectInv, NEW o \in Operations, NEW q, NEW r, OperationBecomes(o, q, r),
           q.restoredCall = operation[o].restoredCall, UNCHANGED <<call, inviteCalls>>
    PROVE  ObjectInv'
<1>1. \A x \in Operations : operation'[x].restoredCall = operation[x].restoredCall
  BY DEF OperationBecomes, ReportInv, TypeOK
<1>2. UNCHANGED <<session, calls, open>>
  BY DEF OperationBecomes
<1>3. CallInv'
  <2> SUFFICES ASSUME NEW c \in Calls
               PROVE  CallFine(call[c], session[c], c \in inviteCalls, Holds(c))'
    BY DEF CallInv
  <2>1. CallFine(call[c], session[c], c \in inviteCalls, Holds(c)) /\ (Holds(c)' <=> Holds(c))
    BY OperationFrame DEF ObjectInv, CallInv
  <2> QED
    BY <1>2, <2>1 DEF CallFine
<1>4. RestoredInv'
  BY <1>1, <1>2 DEF ObjectInv, RestoredInv
<1> QED
  BY <1>3, <1>4 DEF ObjectInv

\* gmv_complete_dialog_operation may remove one call, whichever its pointer stands for.
LEMMA CompletesCalls ==
    ASSUME ReportInv, NEW o \in Operations, NEW r,
           CompleteDialogOperation(o, operation[o], r), UNCHANGED calls
    PROVE  /\ CallsTakeNone /\ inviteCalls' \subseteq inviteCalls
           /\ \A c \in Calls : SameCall(call'[c], call[c])
<1>1. PICK d \in Denotes(operation[o].restoredCall) :
        /\ inviteCalls' = inviteCalls \ {d}
        /\ call' = IF d = 0 THEN call ELSE [call EXCEPT ![d] = RemovedCall(d, call[d])]
  BY DEF CompleteDialogOperation
<1>0. misread' \in 0 .. MaxCalls
  <2>1. /\ operation[o].restoredCall \in 0 .. MaxCalls
        /\ misread' \in Misread(IF Freed(operation[o].restoredCall)
                                THEN {operation[o].restoredCall} ELSE {0})
    BY DEF CompleteDialogOperation, ReportInv, TypeOK, OperationType
  <2> QED
    BY <2>1, CallOrNone DEF ReportInv, TypeOK, Misread
<1>2. d \in 0 .. MaxCalls /\ (d # 0 => d \in Calls)
  <2>1. operation[o].restoredCall \in 0 .. MaxCalls /\ inviteCalls \subseteq Calls
    BY DEF ReportInv, TypeOK, OperationType
  <2>2. d = operation[o].restoredCall \/ d = 0 \/ d \in inviteCalls
    BY DEF Denotes
  <2>3. /\ \A x \in 0 .. MaxCalls : x = 0 \/ x \in Calls
        /\ \A x \in Calls : x \in 0 .. MaxCalls
    BY SMT, CallConstants DEF Calls
  <2>4. 0 \in 0 .. MaxCalls
    BY SMT, CallConstants
  <2> QED
    BY <2>1, <2>2, <2>3, <2>4
<1>3. CASE d = 0
  BY <1>0, <1>1, <1>3 DEF CallsTakeNone, ReportInv, TypeOK, FreshInv, SameCall
<1>4. CASE d # 0
  <2>1. /\ d \in Calls /\ call[d] \in CallType
    BY <1>2, <1>4 DEF ReportInv, TypeOK
  <2>2. PICK k : k = RemovedCall(d, call[d])
    OBVIOUS
  <2>3. k \in CallType /\ SameCall(k, call[d]) /\ (d \notin inviteCalls => k = call[d])
    BY <2>1, <2>2, RemovedCallFacts
  <2>4. call' = [call EXCEPT ![d] = k]
    BY <1>1, <1>4, <2>2
  <2>5. /\ call' \in [Calls -> CallType] /\ call'[d] = k
        /\ \A c \in Calls : c # d => call'[c] = call[c]
    BY <2>1, <2>3, <2>4 DEF ReportInv, TypeOK
  <2>6. inviteCalls' \subseteq inviteCalls /\ inviteCalls' \subseteq Calls
        /\ calls' \in 0 .. MaxCalls
    BY <1>1 DEF ReportInv, TypeOK
  <2>7. ASSUME NEW c \in Calls
        PROVE  /\ call'[c].opId = call[c].opId /\ call'[c].dialogOp = call[c].dialogOp
               /\ call'[c].finalEmitted = call[c].finalEmitted
               /\ c > calls => call'[c] = NoCall /\ c \notin inviteCalls
               /\ SameCall(call'[c], call[c])
    BY <2>3, <2>5 DEF SameCall, ReportInv, FreshInv
  <2> QED
    BY <1>0, <2>5, <2>6, <2>7 DEF CallsTakeNone
<1> QED
  BY <1>3, <1>4

\* While it reads no freed memory it removes the call of its own restored dialog, which
\* no handler holds.
LEMMA CompletesObjects ==
    ASSUME ReportInv, ObjectInv, NEW o \in Operations, NEW q, NEW r, NEW t,
           OperationBecomes(o, q, t), q.restoredCall = 0,
           CompleteDialogOperation(o, operation[o], r), misread' = 0
    PROVE  ObjectInv'
<1>0. UNCHANGED <<session, calls, open>> /\ operation'[o].restoredCall = 0
      /\ \A x \in Operations : x # o => operation'[x].restoredCall = operation[x].restoredCall
  BY DEF OperationBecomes, ReportInv, TypeOK
<1>1. PICK d \in Denotes(operation[o].restoredCall) :
        /\ inviteCalls' = inviteCalls \ {d}
        /\ call' = IF d = 0 THEN call ELSE [call EXCEPT ![d] = RemovedCall(d, call[d])]
  BY DEF CompleteDialogOperation
<1>2. CASE operation[o].restoredCall = 0
  <2>1. d = 0 /\ 0 \notin inviteCalls
    BY SMT, <1>2 DEF Denotes, Freed, ReportInv, TypeOK, Calls
  <2>2. UNCHANGED <<call, inviteCalls>>
    BY <1>1, <2>1
  <2> QED
    BY <1>2, <2>2, ObjectsKept
<1>3. CASE operation[o].restoredCall # 0
  <2> DEFINE c == operation[o].restoredCall
  <2>0. call[c].allocated
    BY <1>3 DEF CompleteDialogOperation, Misread, Freed
  <2>1. /\ c \in inviteCalls /\ c \in Calls /\ call[c].kind = "restored"
        /\ \A x \in Operations : x # o => operation[x].restoredCall # c
        /\ CallFine(call[c], session[c], c \in inviteCalls, Holds(c))
        /\ call[c] \in CallType
    <3>1. /\ c \in Calls /\ call[c].kind = "restored"
          /\ \A x \in Operations : x # o => operation[x].restoredCall # c
      BY <1>3 DEF ObjectInv, RestoredInv
    <3>2. CallFine(call[c], session[c], c \in inviteCalls, Holds(c)) /\ call[c] \in CallType
      BY <3>1 DEF ObjectInv, CallInv, ReportInv, TypeOK
    <3> QED
      BY <2>0, <3>1, <3>2 DEF CallFine
  <2>2. ~Holds(c) /\ ~call[c].cleanup /\ call[c].active = 0
        /\ ~session[c].modData
    BY <2>1 DEF CallFine
  <2>3. d = c /\ d # 0
    BY <1>3, <2>0 DEF Denotes, Freed
  <2> HIDE DEF c
  <2>4. PICK k : k = RemovedCall(d, call[d])
    OBVIOUS
  <2>5. k.active = 0 /\ ~k.allocated
    BY <2>1, <2>2, <2>3, <2>4, RemovedCallFacts
  <2>6. /\ call'[d] = k /\ d \notin inviteCalls'
        /\ \A e \in Calls : e # d => /\ call'[e] = call[e]
                                     /\ e \in inviteCalls' <=> e \in inviteCalls
    BY <1>1, <2>1, <2>3, <2>4 DEF ReportInv, TypeOK
  <2>7. CallInv'
    <3> SUFFICES ASSUME NEW e \in Calls
                 PROVE  CallFine(call[e], session[e], e \in inviteCalls, Holds(e))'
      BY DEF CallInv
    <3>1. CallFine(call[e], session[e], e \in inviteCalls, Holds(e)) /\ (Holds(e)' <=> Holds(e))
      BY OperationFrame DEF ObjectInv, CallInv
    <3>2. CASE e = d
      BY <1>0, <2>2, <2>3, <2>5, <2>6, <3>1, <3>2 DEF CallFine
    <3>3. CASE e # d
      BY <1>0, <2>6, <3>1, <3>3 DEF CallFine
    <3> QED
      BY <3>2, <3>3
  <2>8. RestoredInv'
    <3> SUFFICES ASSUME NEW x \in Operations, operation'[x].restoredCall # 0
                 PROVE  LET e == operation'[x].restoredCall IN
                        /\ e \in Calls /\ e <= calls' /\ call'[e].kind = "restored"
                        /\ e \in inviteCalls' \/ call'[e].assoc \notin open'
                        /\ \A p \in Operations : p # x => operation'[p].restoredCall # e
      BY DEF RestoredInv
    <3>1. x # o /\ operation'[x].restoredCall = operation[x].restoredCall
      BY <1>0
    <3>2. PICK e : e = operation[x].restoredCall
      OBVIOUS
    <3>3. /\ e \in Calls /\ e <= calls /\ call[e].kind = "restored" /\ e # 0
          /\ e \in inviteCalls \/ call[e].assoc \notin open
          /\ \A p \in Operations : p # x => operation[p].restoredCall # e
      BY <3>1, <3>2 DEF ObjectInv, RestoredInv, ReportInv, TypeOK
    <3>4. e # d
      BY <2>1, <2>3, <3>1, <3>2
    <3>5. \A p \in Operations : p # x => operation'[p].restoredCall # e
      BY <1>0, <3>3
    <3> QED
      BY <1>0, <2>6, <3>1, <3>2, <3>3, <3>4, <3>5
  <2> QED
    BY <2>7, <2>8 DEF ObjectInv
<1> QED
  BY <1>2, <1>3

\* The request of an operation that is completed gives back the session it holds.
LEMMA CompletedRequest ==
    ASSUME NEW p, NEW r \in RequestType, r.sessions = IF p.sessionHeld THEN 1 ELSE 0
    PROVE  LET t == [r EXCEPT !.sessions = IF p.sessionHeld THEN @ - 1 ELSE @] IN
           t \in RequestType /\ t.sessions = 0 /\ t.token = r.token /\ t.tsx = r.tsx
<1>1. (IF p.sessionHeld THEN r.sessions - 1 ELSE r.sessions) = 0
  BY SMT
<1>2. [r EXCEPT !.sessions = IF p.sessionHeld THEN @ - 1 ELSE @] = [r EXCEPT !.sessions = 0]
  BY <1>1
<1> QED
  BY SMT, <1>2 DEF RequestType

\* gmv_outbound_callback: only the first final status of a MESSAGE is an event.
LEMMA OutboundKeeps ==
    ASSUME ReportInv, NEW o \in Operations, NEW status \in BOOLEAN, OutboundCallback(o, status)
    PROVE  ReportInv' /\ (ObjectInv => ObjectInv')
<1>0. operation[o] \in OperationType /\ request[o] \in RequestType
      /\ OperationFine(operation[o], request[o], Sending(o))
  BY DEF ReportInv, TypeOK, OperationInv
<1>1. PICK b \in BOOLEAN :
          b = (operation[o].finalEmitted \/ (status /\ ~operation[o].finalEmitted))
  OBVIOUS
<1>2. PICK e \in {"final", "dropped"} : e = Ended(status)
  BY DEF Ended
<1> DEFINE q == [operation[o] EXCEPT !.finalEmitted = b]
           r == [request[o] EXCEPT !.tsx = e]
<1>3. /\ operation[o].kind = "message"
      /\ operation' = [operation EXCEPT ![o] = q] /\ request' = [request EXCEPT ![o] = r]
      /\ IF status /\ ~operation[o].finalEmitted THEN Responds(o) ELSE UNCHANGED responses
      /\ UNCHANGED <<call, inviteCalls, session, frame, open, calls, operations, faults,
                     misread>>
  BY <1>1, <1>2 DEF OutboundCallback
<1>4. /\ q \in OperationType /\ q.kind = "message" /\ q.active = operation[o].active
      /\ q.cleanup = operation[o].cleanup /\ q.allocated = operation[o].allocated
      /\ q.sessionHeld = operation[o].sessionHeld /\ q.finalEmitted = b
      /\ q.restoredCall = operation[o].restoredCall
  BY <1>0, <1>3 DEF OperationType
<1>5. r \in RequestType /\ r.token = request[o].token /\ r.sessions = request[o].sessions
  BY <1>0 DEF RequestType
<1> HIDE DEF q, r
<1>6. /\ operation[o].finalEmitted => b
      /\ status /\ ~operation[o].finalEmitted => b
  BY <1>1
<1>7. CallsTakeNone
  BY <1>3 DEF CallsTakeNone, ReportInv, TypeOK, FreshInv
<1>8. OperationBecomes(o, q, r)
  <2>1. faults' \in [Operations -> Nat]
    BY <1>3 DEF ReportInv, TypeOK
  <2> QED
    BY <1>3, <1>4, <1>6, <1>7, <2>1 DEF OperationBecomes
<1>9. OperationFine(q, r, Sending(o)')
  BY <1>0, <1>3, <1>4, <1>5 DEF OperationFine
<1>10. ReportInv'
  BY <1>3, <1>4, <1>5, <1>6, <1>8, <1>9, OperationReports
<1>11. ASSUME ObjectInv PROVE ObjectInv'
  BY <1>3, <1>4, <1>8, <1>11, ObjectsKept
<1> QED
  BY <1>10, <1>11

\* gmv_on_tsx_state: the transaction completes its operation, once.
LEMMA OnTsxStateKeeps ==
    ASSUME ReportInv, NEW o \in Operations, NEW status \in BOOLEAN, OnTsxState(o, status)
    PROVE  ReportInv' /\ (ObjectInv /\ misread' = 0 => ObjectInv')
<1> DEFINE p == operation[o]
           i == [request[o] EXCEPT !.tsx = Ended(status), !.token = FALSE]
           r == [i EXCEPT !.sessions = IF p.sessionHeld THEN @ - 1 ELSE @]
           q == CompletedOperation(p)
<1>0. p \in OperationType /\ request[o] \in RequestType
      /\ OperationFine(p, request[o], Sending(o))
  BY DEF ReportInv, TypeOK, OperationInv
<1>1. /\ p.kind \in {"info", "restored"} /\ request[o].token
      /\ operation' = [operation EXCEPT ![o] = q]
      /\ CompleteDialogOperation(o, p, i) /\ request' = [request EXCEPT ![o] = r]
      /\ Responds(o) \/ UNCHANGED responses
      /\ UNCHANGED <<session, frame, open, calls, operations, faults>>
  BY DEF OnTsxState, RequestReports, CompleteDialogOperation
<1>2. ~p.cleanup /\ request[o].sessions = (IF p.sessionHeld THEN 1 ELSE 0)
      /\ p.active = (IF Sending(o) THEN 1 ELSE 0)
  BY <1>0, <1>1 DEF OperationFine
<1>3. i \in RequestType /\ ~i.token /\ i.sessions = request[o].sessions
  <2>1. Ended(status) \in {"final", "dropped"}
    BY DEF Ended
  <2> QED
    BY <1>0, <2>1 DEF RequestType
<1>4. /\ q \in OperationType /\ q.kind = p.kind /\ q.restoredCall = 0 /\ ~q.sessionHeld
      /\ q.finalEmitted = p.finalEmitted /\ q.cleanup /\ q.active = p.active
      /\ q.allocated <=> p.active # 0
  BY <1>0, <1>2, CompletedFacts
<1> HIDE DEF i
<1>5. r \in RequestType /\ r.sessions = 0 /\ ~r.token
  BY SMT, <1>2, <1>3, CompletedRequest
<1>6. CallsTakeNone /\ inviteCalls' \subseteq inviteCalls
  BY <1>1, CompletesCalls
<1> HIDE DEF q, r
<1>7. OperationBecomes(o, q, r)
  <2>1. faults' \in [Operations -> Nat]
    BY <1>1 DEF ReportInv, TypeOK
  <2> QED
    BY <1>1, <1>5, <1>6, <2>1 DEF OperationBecomes
<1>8. OperationFine(q, r, Sending(o)')
  <2>1. Sending(o)' <=> Sending(o)
    BY <1>1 DEF Sending
  <2> QED
    BY SMT, <1>1, <1>2, <1>4, <1>5, <2>1 DEF OperationFine
<1>9. ReportInv'
  BY <1>1, <1>4, <1>5, <1>7, <1>8, OperationReports
<1>10. ASSUME ObjectInv, misread' = 0 PROVE ObjectInv'
  BY <1>1, <1>4, <1>7, <1>10, CompletesObjects
<1> QED
  BY <1>9, <1>10

\* The transaction of an INFO on an incoming call completes nothing.
LEMMA TsxUnheardKeeps ==
    ASSUME ReportInv, NEW o \in Operations, NEW status \in BOOLEAN, TsxUnheard(o, status)
    PROVE  ReportInv' /\ (ObjectInv => ObjectInv')
<1> DEFINE p == operation[o]
<1>0. p \in OperationType /\ request[o] \in RequestType
      /\ OperationFine(p, request[o], Sending(o))
  BY DEF ReportInv, TypeOK, OperationInv
<1>1. PICK e \in {"final", "dropped"} : e = Ended(status)
  BY DEF Ended
<1> DEFINE r == [request[o] EXCEPT !.tsx = e, !.token = FALSE]
<1>2. /\ p.kind = "uasInfo" /\ request[o].token /\ request' = [request EXCEPT ![o] = r]
      /\ ~status => frame # NoFrame /\ CallsBack({"request"}, o)
      /\ UNCHANGED <<call, inviteCalls, session, operation, frame, open, calls, operations,
                     responses, faults, misread>>
  BY <1>1 DEF TsxUnheard, RequestReports
<1>3. r \in RequestType /\ ~r.token /\ r.sessions = request[o].sessions /\ r.tsx = e
  BY <1>0 DEF RequestType
<1> HIDE DEF r
<1>4. e = "final" \/ Sending(o)
  BY <1>1, <1>2 DEF Ended, CallsBack, Sending
<1>5. operation' = [operation EXCEPT ![o] = p] /\ CallsTakeNone
      /\ faults' \in [Operations -> Nat]
  BY <1>2 DEF CallsTakeNone, ReportInv, TypeOK, FreshInv
<1>6. OperationBecomes(o, p, r)
  BY <1>2, <1>5 DEF OperationBecomes
<1>7. OperationFine(p, r, Sending(o)')
  <2>1. Sending(o)' <=> Sending(o)
    BY <1>2 DEF Sending
  <2>2. OperationFine(p, r, Sending(o))
    BY <1>0, <1>2, <1>3, <1>4 DEF OperationFine
  <2> QED
    BY <2>1, <2>2 DEF OperationFine
<1>8. ReportInv'
  BY <1>0, <1>2, <1>3, <1>6, <1>7, OperationReports
<1>9. ASSUME ObjectInv PROVE ObjectInv'
  BY <1>2, <1>6, <1>9, ObjectsKept
<1> QED
  BY <1>8, <1>9

\* The send function of PJSIP returns: the handler completes the operation that failed,
\* unless its transaction did, and lets go of it.
LEMMA RequestSentKeeps ==
    ASSUME ReportInv, NEW ok \in BOOLEAN, RequestSent(ok)
    PROVE  ReportInv' /\ (ObjectInv /\ misread' = 0 => ObjectInv')
<1>1. PICK o \in Operations : o = frame.of /\ Sending(o)
  BY FrameFacts DEF ReportInv, RequestSent, Sending
<1> DEFINE p == operation[o]
<1>2. /\ p \in OperationType /\ request[o] \in RequestType /\ OperationFine(p, request[o], TRUE)
      /\ p.kind # "none"
  <2>1. p \in OperationType /\ request[o] \in RequestType
        /\ OperationFine(p, request[o], Sending(o))
    BY DEF ReportInv, TypeOK, OperationInv
  <2> QED
    BY <1>1, <2>1 DEF OperationFine
<1>3. /\ frame' = NoFrame /\ UNCHANGED <<session, open, calls, operations, responses>>
      /\ IF ok THEN request[o].tsx \in {"open", "final"} ELSE request[o].tsx # "open"
      /\ faults' \in [Operations -> Nat] /\ ~Sending(o)'
  BY <1>1, FaultsType DEF RequestSent, Sending, NoFrame
<1>4. CASE ~ok /\ p.kind # "message" /\ ~p.cleanup
  <2> DEFINE j == CompletedOperation(p)
             q == Released(j)
             r == [request[o] EXCEPT !.sessions = IF p.sessionHeld THEN @ - 1 ELSE @]
  <2>1. /\ operation' = [operation EXCEPT ![o] = q]
        /\ CompleteDialogOperation(o, p, request[o]) /\ request' = [request EXCEPT ![o] = r]
    BY <1>1, <1>4 DEF RequestSent, CompleteDialogOperation
  <2>2. /\ p.kind \in {"info", "uasInfo", "restored"} /\ p.active = 1 /\ ~request[o].token
        /\ request[o].sessions = IF p.sessionHeld THEN 1 ELSE 0
    BY <1>2, <1>3, <1>4 DEF OperationFine, OperationType
  <2>3. /\ j \in OperationType /\ j.kind = p.kind /\ j.restoredCall = 0 /\ ~j.sessionHeld
        /\ j.finalEmitted = p.finalEmitted /\ j.cleanup /\ j.active = p.active
    BY <1>2, <1>4, CompletedFacts
  <2> HIDE DEF j
  <2>4. /\ q \in OperationType /\ q.kind = p.kind /\ q.restoredCall = 0 /\ ~q.sessionHeld
        /\ q.finalEmitted = p.finalEmitted /\ q.cleanup /\ q.active = 0 /\ ~q.allocated
    <3>1. /\ q \in OperationType /\ q.kind = j.kind /\ q.restoredCall = j.restoredCall
          /\ q.sessionHeld = j.sessionHeld /\ q.finalEmitted = j.finalEmitted
          /\ q.cleanup = j.cleanup
          /\ j.active = 1 => q.active = 0 /\ (q.allocated <=> j.allocated /\ ~j.cleanup)
      BY <2>3, ReleasedOperationFacts
    <3> HIDE DEF q
    <3> QED
      BY <2>2, <2>3, <3>1
  <2>5. r \in RequestType /\ r.sessions = 0 /\ ~r.token
    BY <1>2, <2>2, CompletedRequest
  <2>6. CallsTakeNone /\ inviteCalls' \subseteq inviteCalls
    BY <1>3, <2>1, CompletesCalls
  <2> HIDE DEF q, r
  <2>7. OperationBecomes(o, q, r)
    BY <1>1, <1>3, <2>1, <2>6 DEF OperationBecomes
  <2>8. OperationFine(q, r, Sending(o)')
    BY <1>3, <2>2, <2>4, <2>5 DEF OperationFine
  <2>9. ReportInv'
    BY <1>2, <2>4, <2>5, <2>7, <2>8, OperationReports
  <2>10. ASSUME ObjectInv, misread' = 0 PROVE ObjectInv'
    BY <2>1, <2>4, <2>7, <2>10, CompletesObjects
  <2> QED
    BY <2>9, <2>10
<1>5. CASE ~(~ok /\ p.kind # "message" /\ ~p.cleanup)
  <2> DEFINE q == Released(p)
  <2>1. operation' = [operation EXCEPT ![o] = q]
        /\ UNCHANGED <<request, call, inviteCalls, misread>>
    BY <1>1, <1>5 DEF RequestSent
  <2>2. /\ q \in OperationType /\ q.kind = p.kind /\ q.restoredCall = p.restoredCall
        /\ q.sessionHeld = p.sessionHeld /\ q.finalEmitted = p.finalEmitted
        /\ q.cleanup = p.cleanup
        /\ p.active = 1 => q.active = 0 /\ (q.allocated <=> p.allocated /\ ~p.cleanup)
        /\ p.active = 0 => q = p
    BY <1>2, ReleasedOperationFacts
  <2> HIDE DEF q
  <2>3. CallsTakeNone /\ inviteCalls' \subseteq inviteCalls
    BY <1>3, <2>1 DEF CallsTakeNone, ReportInv, TypeOK, FreshInv
  <2>4. request' = [request EXCEPT ![o] = request[o]]
    BY <2>1 DEF ReportInv, TypeOK
  <2>5. OperationBecomes(o, q, request[o])
    BY <1>1, <1>3, <2>1, <2>3, <2>4 DEF OperationBecomes
  <2>6. OperationFine(q, request[o], FALSE)
    <3>1. CASE p.kind = "message"
      BY <1>2, <2>2, <3>1 DEF OperationFine
    <3>2. CASE p.kind \in {"info", "uasInfo", "restored"}
      BY <1>2, <1>3, <1>5, <2>2, <3>2 DEF OperationFine
    <3> QED
      BY <1>2, <3>1, <3>2 DEF OperationType
  <2>7. OperationFine(q, request[o], Sending(o)')
    BY <1>3, <2>6 DEF OperationFine
  <2>8. ReportInv'
    BY <1>2, <2>2, <2>5, <2>7, OperationReports
  <2>9. ASSUME ObjectInv PROVE ObjectInv'
    BY <2>1, <2>2, <2>5, <2>9, ObjectsKept
  <2> QED
    BY <2>8, <2>9
<1> QED
  BY <1>4, <1>5

-----------------------------------------------------------------------------
(* The rest of Next, and the theorems.                                       *)

\* gmv_process_close_commands: the calls over the association are dropped.  None of them
\* is held.
LEMMA CloseKeeps ==
    ASSUME ReportInv, NEW a \in Associations, CloseAssociation(a)
    PROVE  ReportInv' /\ (ObjectInv => ObjectInv')
<1> DEFINE gone == {c \in inviteCalls : call[c].assoc = a}
           k(c) == RemovedCall(c, [call[c] EXCEPT !.invite = FALSE])
           s(c) == [session[c] EXCEPT !.modData = FALSE]
<1>1. /\ frame = NoFrame /\ a \in TcpAssociations /\ open' = open \ {a}
      /\ call' = [c \in Calls |-> IF c \in gone THEN k(c) ELSE call[c]]
      /\ session' = [c \in Calls |-> IF c \in gone THEN s(c) ELSE session[c]]
      /\ inviteCalls' = inviteCalls \ gone
      /\ UNCHANGED <<operation, request, frame, calls, operations, responses, faults>>
  BY DEF CloseAssociation
<1>2. gone \subseteq inviteCalls /\ inviteCalls \subseteq Calls /\ inviteCalls' \subseteq inviteCalls
  BY <1>1 DEF ReportInv, TypeOK
<1>3. ASSUME NEW c \in gone
      PROVE  /\ k(c) \in CallType /\ SameCall(k(c), call[c])
             /\ s(c) \in SessionType /\ ~s(c).modData /\ s(c).inviteTsx = session[c].inviteTsx
             /\ s(c).ends = session[c].ends /\ s(c).deferred = session[c].deferred
             /\ ~call[c].cleanup =>
                   k(c).active = call[c].active /\ (k(c).allocated <=> call[c].active # 0)
  <2>0. call[c] \in CallType /\ session[c] \in SessionType /\ c \in inviteCalls
    BY <1>2, <1>3 DEF ReportInv, TypeOK
  <2>1. PICK i : i = [call[c] EXCEPT !.invite = FALSE]
    OBVIOUS
  <2>2. i \in CallType /\ SameCall(i, call[c]) /\ i.active = call[c].active
        /\ i.cleanup = call[c].cleanup
    BY <2>0, <2>1 DEF CallType, SameCall
  <2>3. LET l == RemovedCall(c, i) IN
        /\ l \in CallType /\ SameCall(l, i) /\ l.active = i.active
        /\ ~i.cleanup => (l.allocated <=> i.active # 0)
    BY <2>0, <2>2, RemovedCallFacts
  <2>4. k(c) = RemovedCall(c, i)
    BY <2>1
  <2>5. /\ s(c) \in SessionType /\ ~s(c).modData /\ s(c).inviteTsx = session[c].inviteTsx
        /\ s(c).ends = session[c].ends /\ s(c).deferred = session[c].deferred
    BY <2>0 DEF SessionType
  <2> HIDE DEF k, s
  <2> QED
    BY <2>2, <2>3, <2>4, <2>5 DEF SameCall
<1> HIDE DEF gone, k, s
<1>4. ASSUME NEW c \in Calls
      PROVE  /\ c \in gone => call'[c] = k(c) /\ session'[c] = s(c)
             /\ c \notin gone => call'[c] = call[c] /\ session'[c] = session[c]
  BY <1>1
<1>5. ASSUME NEW c \in Calls
      PROVE  /\ SameCall(call'[c], call[c]) /\ call'[c] \in CallType /\ session'[c] \in SessionType
             /\ session'[c].inviteTsx = session[c].inviteTsx
             /\ session'[c].ends = session[c].ends /\ session'[c].deferred = session[c].deferred
  <2>1. CASE c \in gone
    BY <1>3, <1>4, <2>1
  <2>2. CASE c \notin gone
    BY <1>4, <2>2 DEF SameCall, ReportInv, TypeOK
  <2> QED
    BY <2>1, <2>2
<1>6. TypeOK'
  <2>1. call' \in [Calls -> CallType] /\ session' \in [Calls -> SessionType]
    BY <1>1, <1>4, <1>5
  <2>2. PICK cs : cs \subseteq 0 .. MaxCalls /\ misread' \in Misread(cs)
    <3>1. misread' \in Misread({0} \cup {c \in gone : call[c].invite /\ ~SessionLives(c)})
      BY DEF CloseAssociation, gone
    <3> QED
      BY <1>2, <3>1, CallOrNone
  <2>3. misread' \in 0 .. MaxCalls
    BY <2>2, MisreadType
  <2> QED
    BY <1>1, <1>2, <2>1, <2>3 DEF ReportInv, TypeOK
<1>7. OperationInv'
  BY <1>1, OperationsKept DEF Sending
<1>8. FreshInv'
  <2>1. ASSUME NEW c \in Calls, c > calls
        PROVE  /\ call'[c] = NoCall /\ session'[c] = NoSession /\ c \notin inviteCalls'
               /\ frame'.at \in CallFrames => frame'.of # c
    BY <1>1, <1>2, <1>4, <2>1 DEF ReportInv, FreshInv
  <2>2. ASSUME NEW c \in Calls
        PROVE  /\ call'[c].opId <= operations /\ call'[c].dialogOp <= operations
               /\ session'[c].ends + (IF session'[c].deferred THEN 1 ELSE 0) <= operations
    BY <1>5 DEF SameCall, ReportInv, FreshInv
  <2>3. \A o \in Operations : o > operations => operation[o] = NoOperation /\ responses[o] = 0
    BY DEF ReportInv, FreshInv
  <2> QED
    BY <1>1, <2>1, <2>2, <2>3 DEF FreshInv
<1>9. NoneTaken
  BY <1>1, <1>5 DEF NoneTaken, SameCall
<1>10. ReportInv'
  BY <1>1, <1>6, <1>7, <1>8, <1>9, NoneTakenKeeps
<1>11. ASSUME ObjectInv PROVE ObjectInv'
  <2>1. CallInv'
    <3> SUFFICES ASSUME NEW c \in Calls
                 PROVE  CallFine(call[c], session[c], c \in inviteCalls, Holds(c))'
      BY DEF CallInv
    <3>1. CallFine(call[c], session[c], c \in inviteCalls, Holds(c))
      BY <1>11 DEF ObjectInv, CallInv
    <3>2. ~Holds(c) /\ ~Holds(c)'
      BY <1>1 DEF Holds, NoFrame, CallFrames
    <3>3. CASE c \in gone
      <4>1. c \notin inviteCalls' /\ call'[c] = k(c) /\ session'[c] = s(c)
        BY <1>1, <1>4, <3>3
      <4>2. ~s(c).modData /\ k(c).active = 0 /\ ~k(c).allocated
        BY <1>2, <1>3, <3>1, <3>2, <3>3 DEF CallFine
      <4> QED
        BY <3>2, <4>1, <4>2 DEF CallFine
    <3>4. CASE c \notin gone
      BY <1>1, <1>4, <3>1, <3>2, <3>4 DEF CallFine
    <3> QED
      BY <3>3, <3>4
  <2>2. RestoredInv'
    <3> SUFFICES ASSUME NEW o \in Operations, operation[o].restoredCall # 0
                 PROVE  LET c == operation[o].restoredCall IN
                        /\ c \in Calls /\ c <= calls /\ call'[c].kind = "restored"
                        /\ c \in inviteCalls' \/ call'[c].assoc \notin open'
                        /\ \A p \in Operations : p # o => operation[p].restoredCall # c
      BY <1>1 DEF RestoredInv
    <3>1. PICK c : c = operation[o].restoredCall
      OBVIOUS
    <3>2. /\ c \in Calls /\ c <= calls /\ call[c].kind = "restored"
          /\ c \in inviteCalls \/ call[c].assoc \notin open
          /\ \A p \in Operations : p # o => operation[p].restoredCall # c
      BY <1>11, <3>1 DEF ObjectInv, RestoredInv
    <3>3. call'[c].kind = call[c].kind /\ call'[c].assoc = call[c].assoc
      BY <1>5, <3>2 DEF SameCall
    <3>4. c \in inviteCalls' \/ call[c].assoc \notin open'
      BY <1>1, <3>2 DEF gone
    <3> QED
      BY <3>1, <3>2, <3>3, <3>4
  <2> QED
    BY <2>1, <2>2 DEF ObjectInv
<1> QED
  BY <1>10, <1>11

\* A command that reads a freed session and is refused is as one that is refused at once.
LEMMA UseFreedKeeps ==
    ASSUME ReportInv, NEW c \in Calls, UseFreedSession(c)
    PROVE  ReportInv' /\ (ObjectInv => ObjectInv')
<1>1. /\ UNCHANGED <<call, inviteCalls, session, operation, request, frame, open, calls,
                     responses>>
      /\ \/ operations < MaxOperations /\ operations' = operations + 1
         \/ UNCHANGED operations
      /\ faults' \in [Operations -> Nat]
  BY FaultsType DEF UseFreedSession, ReportInv, TypeOK
<1>2. operations' \in 0 .. MaxOperations /\ operations \in Nat /\ operations <= operations'
  BY SMT, <1>1, CallConstants DEF ReportInv, TypeOK
<1>3. TypeOK'
  <2>1. misread' \in 0 .. MaxCalls
    BY CallOrNone, MisreadType DEF UseFreedSession
  <2> QED
    BY <1>1, <1>2, <2>1 DEF ReportInv, TypeOK
<1>4. OperationInv' /\ NoneTaken
  BY <1>1, OperationsKept DEF Sending, NoneTaken
<1>5. FreshInv'
  <2>1. ASSUME NEW d \in Calls
        PROVE  /\ d > calls => /\ call[d] = NoCall /\ session[d] = NoSession
                               /\ d \notin inviteCalls
                               /\ frame.at \in CallFrames => frame.of # d
               /\ call[d].opId <= operations' /\ call[d].dialogOp <= operations'
               /\ session[d].ends + (IF session[d].deferred THEN 1 ELSE 0) <= operations'
    <3>1. /\ call[d].opId \in Int /\ call[d].dialogOp \in Int /\ session[d].ends \in Int
      BY SMT DEF ReportInv, TypeOK, CallType, SessionType
    <3> QED
      BY SMT, <1>2, <3>1 DEF ReportInv, FreshInv
  <2>2. ASSUME NEW o \in Operations, o > operations'
        PROVE  operation[o] = NoOperation /\ responses[o] = 0
    <3>1. o > operations
      BY SMT, <1>2, <2>2 DEF Operations
    <3> QED
      BY <3>1 DEF ReportInv, FreshInv
  <2> QED
    BY <1>1, <2>1, <2>2 DEF FreshInv
<1>6. ReportInv'
  BY <1>1, <1>3, <1>4, <1>5, NoneTakenKeeps
<1>7. ASSUME ObjectInv PROVE ObjectInv'
  BY <1>1, <1>7 DEF ObjectInv, CallInv, RestoredInv, CallFine, Holds
<1> QED
  BY <1>6, <1>7

\* At the start there are neither calls nor operations.
LEMMA CallInit ==
    ASSUME Init PROVE ReportInv /\ ObjectInv
<1>1. /\ \A c \in Calls : call[c] = NoCall /\ session[c] = NoSession
      /\ \A o \in Operations :
            /\ operation[o] = NoOperation
            /\ request[o] = [tsx |-> "none", token |-> FALSE, sessions |-> 0]
            /\ responses[o] = 0
      /\ inviteCalls = {} /\ frame = NoFrame /\ calls = 0 /\ operations = 0
  BY DEF Init
<1>2. [tsx |-> "none", token |-> FALSE, sessions |-> 0] \in RequestType
  BY SMT DEF RequestType
<1>3. TypeOK
  BY SMT, <1>1, <1>2, NoneFacts, CallConstants DEF Init, TypeOK
<1>4. (\A c \in Calls : ~Holds(c)) /\ (\A o \in Operations : ~Sending(o))
  BY <1>1 DEF Holds, Sending, NoFrame, CallFrames
<1>5. OperationInv
  <2> SUFFICES ASSUME NEW o \in Operations
               PROVE  OperationFine(operation[o], request[o], Sending(o))
    BY DEF OperationInv
  <2> QED
    BY SMT, <1>1, <1>4, NoneFields DEF OperationFine
<1>6. FreshInv /\ UsedOnce /\ Unreported /\ ResponseOnce
  <2>1. FreshInv
    BY SMT, <1>1, NoneFields DEF FreshInv, NoFrame, CallFrames
  <2>2. UsedOnce
    BY <1>1, NoneFields DEF UsedOnce
  <2>3. Unreported /\ ResponseOnce
    BY SMT, <1>1, NoneFields DEF Unreported, ResponseOnce
  <2> QED
    BY <2>1, <2>2, <2>3
<1>7. CallInv /\ RestoredInv
  <2>1. CallInv
    BY <1>1, <1>4, NoneFields DEF CallInv, CallFine
  <2>2. RestoredInv
    BY <1>1, NoneFields DEF RestoredInv
  <2> QED
    BY <2>1, <2>2
<1> QED
  BY <1>3, <1>5, <1>6, <1>7 DEF ReportInv, ObjectInv

\* Every step keeps what is reported, and the objects unless it reads freed memory.
LEMMA CallNext ==
    ASSUME ReportInv, [Next]_vars
    PROVE  ReportInv' /\ (ObjectInv /\ misread' = 0 => ObjectInv')
<1>1. CASE Handler
  BY <1>1, InviteSentKeeps, ReleaseKeeps, RequestSentKeeps DEF Handler
<1>2. CASE Application
  BY <1>2, CommandFailsKeeps, SendKeeps, SendInviteKeeps, SendRestoredKeeps, CloseKeeps,
     AnswerCallKeeps, EndCallKeeps, UseFreedKeeps DEF Application
<1>3. CASE Callback
  BY <1>3, IncomingInviteKeeps, StateChangedKeeps, InviteTsxKeeps, EndTsxKeeps, OutboundKeeps,
     OnTsxStateKeeps, TsxUnheardKeeps DEF Callback
<1>4. CASE UNCHANGED vars
  <2>1. TypeOK' /\ FreshInv' /\ NoneTaken /\ UNCHANGED responses /\ OperationInv'
    BY <1>4, OperationsKept DEF vars, ReportInv, TypeOK, FreshInv, NoneTaken, Sending
  <2>2. ReportInv'
    BY <2>1, NoneTakenKeeps
  <2>3. ASSUME ObjectInv PROVE ObjectInv'
    BY <1>4, <2>3 DEF vars, ObjectInv, CallInv, RestoredInv, CallFine, Holds
  <2> QED
    BY <2>2, <2>3
<1> QED
  BY <1>1, <1>2, <1>3, <1>4 DEF Next

\* The objects of a state: what is referred to is there, and what is there is referred to.
LEMMA ObjectsAreLive ==
    ASSUME ReportInv, ObjectInv
    PROVE  /\ \A c \in Calls : session[c].modData =>
                 call[c].allocated /\ call[c].invite /\ c \in inviteCalls
           /\ \A c \in inviteCalls : call[c].allocated
           /\ frame.at \in {"invite", "end", "answer"} => call[frame.of].allocated
           /\ \A o \in Operations :
                 /\ operation[o].kind \in {"info", "uasInfo", "restored"} =>
                       (request[o].token \/ frame = [at |-> "request", of |-> o] =>
                           operation[o].allocated)
                 /\ Freed(operation[o].restoredCall) =>
                       call[operation[o].restoredCall].assoc \notin open
           /\ NothingLeftBehind
<1>1. ASSUME NEW c \in Calls
      PROVE  /\ session[c].modData => call[c].allocated /\ call[c].invite /\ c \in inviteCalls
             /\ c \in inviteCalls \/ Holds(c) <=> call[c].allocated
  <2>1. CallFine(call[c], session[c], c \in inviteCalls, Holds(c))
    BY DEF ObjectInv, CallInv
  <2> QED
    BY <2>1 DEF CallFine
<1>2. ASSUME NEW o \in Operations
      PROVE  /\ operation[o].kind \in {"info", "uasInfo", "restored"} =>
                   (request[o].token \/ Sending(o) => operation[o].allocated)
             /\ operation[o].allocated =>
                   \/ request[o].token \/ Sending(o)
                   \/ operation[o].kind = "uasInfo" /\ request[o].tsx = "final"
             /\ request[o].sessions = IF operation[o].sessionHeld THEN 1 ELSE 0
             /\ operation[o].sessionHeld => ~operation[o].cleanup
  <2>1. OperationFine(operation[o], request[o], Sending(o)) /\ operation[o] \in OperationType
    BY DEF ReportInv, OperationInv, TypeOK
  <2>2. operation[o].kind \in {"none", "message", "info", "uasInfo", "restored"}
    BY <2>1 DEF OperationType
  <2>3. CASE operation[o].kind = "none"
    BY SMT, <2>1, <2>3 DEF OperationFine, NoOperation
  <2>4. CASE operation[o].kind = "message"
    BY <2>1, <2>4 DEF OperationFine
  <2>5. CASE operation[o].kind \in {"info", "uasInfo", "restored"}
    BY <2>1, <2>5 DEF OperationFine
  <2> QED
    BY <2>2, <2>3, <2>4, <2>5
<1>3. /\ \A o \in Operations : frame = [at |-> "request", of |-> o] <=> Sending(o)
      /\ frame.at \in CallFrames => frame.of \in Calls
  BY FrameFacts DEF ReportInv
<1>4. ASSUME NEW o \in Operations, Freed(operation[o].restoredCall)
      PROVE  call[operation[o].restoredCall].assoc \notin open
  <2>1. PICK c : c = operation[o].restoredCall
    OBVIOUS
  <2>2. c # 0 /\ ~call[c].allocated
    BY <1>4, <2>1 DEF Freed
  <2>3. c \in Calls /\ (c \in inviteCalls \/ call[c].assoc \notin open)
    BY <2>1, <2>2 DEF ObjectInv, RestoredInv
  <2> QED
    BY <1>1, <2>1, <2>2, <2>3
<1>5. \A c \in inviteCalls : call[c].allocated
  BY <1>1 DEF ReportInv, TypeOK
<1>6. frame.at \in {"invite", "end", "answer"} => call[frame.of].allocated
  BY <1>1, <1>3 DEF Holds, CallFrames
<1>7. NothingLeftBehind
  BY <1>1, <1>2, <1>3 DEF NothingLeftBehind, Holds, CallFrames
<1> QED
  BY <1>1, <1>2, <1>3, <1>4, <1>5, <1>6, <1>7

\* Every variable of the calls and their operations has its type; in particular no dialog
\* loses a session that it was not given (pjsip_dlg_dec_session without inc_session).
THEOREM CallTypeCorrect == Spec => []TypeOK
<1>1. Init => ReportInv
  BY CallInit
<1>2. ReportInv /\ [Next]_vars => ReportInv'
  BY CallNext
<1>3. ReportInv => TypeOK
  BY DEF ReportInv
<1> QED
  BY <1>1, <1>2, <1>3, PTL DEF Spec

\* The application gets at most one final response for an operation, for any number of
\* calls and operations and whatever association closes (final_emitted,
\* dialog_operation_id, the mod_data of a transaction).
THEOREM ResponseOnceCorrect == Spec => []ResponseOnce
<1>1. Init => ReportInv
  BY CallInit
<1>2. ReportInv /\ [Next]_vars => ReportInv'
  BY CallNext
<1>3. ReportInv => ResponseOnce
  BY DEF ReportInv
<1> QED
  BY <1>1, <1>2, <1>3, PTL DEF Spec

-----------------------------------------------------------------------------
(* What becomes of every operation.                                          *)

\* The session of the call refers to it, and the call is there and listed.
Attached(c) == session[c].modData /\ call[c].allocated /\ c \in inviteCalls

\* The INVITE of the call is unreported and its transaction is still to report; a BYE
\* or CANCEL is, or waits for a response to the INVITE.
InviteDue(c) == session[c].inviteTsx = "open" /\ ~call[c].finalEmitted
EndDue(c) == session[c].ends > 0 \/ (session[c].deferred /\ session[c].inviteTsx = "open")

\* An operation is reported, or something is there that will report it: the transaction
\* of its request, the handler that sends it, a transaction of its call.  It is lost
\* in five cases: an INFO was sent on an incoming call, a BYE has answered one, the
\* association of its call has closed, the session of an INVITE has ended and its call
\* is gone, the INVITE has failed before its CANCEL was reported.
Accounted(o) ==
    \/ Reported(o)
    \/ request[o].token /\ request[o].tsx = "open"
    \/ frame = [at |-> "request", of |-> o]
    \/ operation[o].kind = "uasInfo" /\ request[o].tsx = "final"
    \/ \E c \in Calls :
          \/ /\ call[c].opId = o
             /\ \/ InviteDue(c) /\ Attached(c)
                \/ call[c].assoc \notin open
                \/ session[c].state = "disconnected" /\ ~session[c].modData
          \/ /\ call[c].dialogOp = o
             /\ \/ EndDue(c) /\ Attached(c)
                \/ session[c].answeredBy = o \/ call[c].assoc \notin open
                \/ session[c].inviteTsx = "failed" /\ ~session[c].modData

\* ... every operation that was begun, as long as no freed memory was read
OperationsAccounted == misread = 0 => \A o \in 1 .. operations : Accounted(o)

\* The operations of a call k with session s
CallAccounts(k, s) ==
    /\ s.inviteTsx # "none" => (k.finalEmitted <=> s.inviteTsx # "open")
    /\ k.opId # 0 =>
          \/ Reported(k.opId) \/ (s.modData /\ s.inviteTsx = "open")
          \/ k.assoc \notin open \/ (s.state = "disconnected" /\ ~s.modData)
    /\ k.dialogOp # 0 =>
          \/ s.modData /\ (s.ends > 0 \/ (s.deferred /\ s.inviteTsx = "open"))
          \/ s.answeredBy = k.dialogOp
          \/ k.assoc \notin open \/ (s.inviteTsx = "failed" /\ ~s.modData)

\* An operation p with a request r of its own
RequestAccounts(o, p, r) ==
    /\ p.finalEmitted \/ (r.tsx = "final" /\ p.kind # "uasInfo") => Reported(o)
    /\ r.tsx = "open" => r.token
    /\ p.kind # "none" =>
          \/ Reported(o) \/ r.tsx = "open" \/ Sending(o)
          \/ p.kind = "uasInfo" /\ r.tsx = "final"

\* Every id stands for a request, an INVITE, a BYE or CANCEL, or is reported.
Stands(o) ==
    \/ Reported(o) \/ operation[o].kind # "none"
    \/ \E c \in Calls : call[c].opId = o \/ call[c].dialogOp = o

\* The handler of an INVITE knows no BYE yet, the one of a BYE only its own.
HandlersKnow ==
    /\ frame.at = "invite" => call[frame.of].dialogOp = 0
    /\ frame.at = "end" => call[frame.of].dialogOp \in {0, operations}

AccountInv ==
    /\ \A c \in Calls : CallAccounts(call[c], session[c])
    /\ \A o \in Operations : RequestAccounts(o, operation[o], request[o])
    /\ \A o \in 1 .. operations : Stands(o)
    /\ HandlersKnow

\* Reports are added, never taken back.
ReportsGrow ==
    /\ UNCHANGED responses \/ \E x : Responds(x)
    /\ UNCHANGED faults \/ \E x, ok : Faults(x, ok)

\* What was reported stays reported.
LEMMA ReportedStays ==
    ASSUME TypeOK, ReportsGrow, NEW o \in Operations
    PROVE  /\ Reported(o) => Reported(o)'
           /\ Responds(o) \/ Faults(o, FALSE) => Reported(o)'
<1>1. responses \in [Operations -> Nat] /\ faults \in [Operations -> Nat]
  BY DEF TypeOK
<1>2. /\ responses'[o] \in Nat /\ responses'[o] >= responses[o]
      /\ Responds(o) => responses'[o] > 0
  <2>1. CASE UNCHANGED responses
    BY SMT, <1>1, <2>1 DEF Responds
  <2>2. ASSUME NEW x, Responds(x)
        PROVE  /\ responses'[o] \in Nat /\ responses'[o] >= responses[o]
               /\ x = o => responses'[o] > 0
    BY SMT, <1>1, <2>2 DEF Responds
  <2> QED
    BY <2>1, <2>2 DEF ReportsGrow
<1>3. /\ faults'[o] \in Nat /\ faults'[o] >= faults[o]
      /\ Faults(o, FALSE) => faults'[o] > 0
  <2>1. CASE UNCHANGED faults
    BY SMT, <1>1, <2>1 DEF Faults
  <2>2. ASSUME NEW x, NEW ok, Faults(x, ok)
        PROVE  faults'[o] \in Nat /\ faults'[o] >= faults[o]
    BY SMT, <1>1, <2>2 DEF Faults
  <2>3. Faults(o, FALSE) => faults'[o] > 0
    BY SMT, <1>1 DEF Faults
  <2> QED
    BY <2>1, <2>2, <2>3 DEF ReportsGrow
<1>4. responses[o] \in Nat /\ faults[o] \in Nat
  BY <1>1
<1>5. Reported(o)' <=> responses'[o] + faults'[o] > 0
  BY DEF Reported
<1>6. Reported(o) <=> responses[o] + faults[o] > 0
  BY DEF Reported
<1>7. /\ responses[o] + faults[o] > 0 => responses'[o] + faults'[o] > 0
      /\ responses'[o] > 0 \/ faults'[o] > 0 => responses'[o] + faults'[o] > 0
  BY SMT, <1>2, <1>3, <1>4
<1> QED
  BY <1>2, <1>3, <1>5, <1>6, <1>7

\* The ids of a call are those of operations.
LEMMA CallIds ==
    ASSUME TypeOK, NEW c \in Calls
    PROVE  /\ call[c].opId # 0 => call[c].opId \in Operations
           /\ call[c].dialogOp # 0 => call[c].dialogOp \in Operations
<1>1. call[c].opId \in 0 .. MaxOperations /\ call[c].dialogOp \in 0 .. MaxOperations
  BY DEF TypeOK, CallType
<1> QED
  BY SMT, <1>1, CallConstants DEF Operations

\* A call that a step leaves alone, or only unlinks or releases, accounts as it did.
LEMMA CallAccountsStill ==
    ASSUME ReportInv, AccountInv, ReportsGrow, NEW c \in Calls,
           SameCall(call'[c], call[c]), session'[c] = session[c], open' \subseteq open
    PROVE  CallAccounts(call[c], session[c])'
<1>1. CallAccounts(call[c], session[c])
  BY DEF AccountInv
<1>2. /\ call'[c].opId = call[c].opId /\ call'[c].dialogOp = call[c].dialogOp
      /\ call'[c].assoc = call[c].assoc /\ call'[c].finalEmitted = call[c].finalEmitted
  BY DEF SameCall
<1>3. \A n \in Operations : Reported(n) => Reported(n)'
  BY ReportedStays DEF ReportInv
<1>4. call[c].opId # 0 /\ Reported(call[c].opId) => Reported(call[c].opId)'
  BY <1>2, <1>3, CallIds DEF ReportInv, Reported
<1> QED
  BY <1>1, <1>2, <1>4 DEF CallAccounts

\* So does a request.
LEMMA RequestAccountsStill ==
    ASSUME ReportInv, AccountInv, ReportsGrow, NEW o \in Operations,
           operation'[o] = operation[o], request'[o] = request[o], Sending(o) => Sending(o)'
    PROVE  RequestAccounts(o, operation[o], request[o])'
<1>1. RequestAccounts(o, operation[o], request[o])
  BY DEF AccountInv
<1>2. Reported(o) => Reported(o)'
  BY ReportedStays DEF ReportInv
<1> QED
  BY <1>1, <1>2 DEF RequestAccounts

\* A step that keeps the accounts of every call and every request keeps the invariant.
LEMMA AccountsKept ==
    ASSUME ReportInv, AccountInv, TypeOK', ReportsGrow, HandlersKnow',
           \/ UNCHANGED operations
           \/ operations' = operations + 1 /\ Stands(operations)',
           \A c \in Calls :
              /\ CallAccounts(call[c], session[c])'
              /\ call[c].opId # 0 => call'[c].opId = call[c].opId
              /\ \A n \in Operations :
                    call[c].dialogOp = n => call'[c].dialogOp = n \/ Reported(n)',
           \A o \in Operations :
              /\ RequestAccounts(o, operation[o], request[o])'
              /\ operation[o].kind # "none" => operation'[o].kind # "none"
    PROVE  AccountInv'
<1>1. ASSUME NEW o \in 1 .. operations' PROVE Stands(o)'
  <2>1. operations \in 0 .. MaxOperations /\ operations' \in 0 .. MaxOperations
    BY DEF ReportInv, TypeOK
  <2>2. o \in Operations /\ o # 0 /\ (o \in 1 .. operations \/ (o = operations' /\ Stands(operations)'))
    BY SMT, <2>1, CallConstants DEF Operations
  <2>3. CASE o \in 1 .. operations
    <3>1. Stands(o)
      BY <2>3 DEF AccountInv
    <3>2. Reported(o) => Reported(o)'
      BY <2>2, ReportedStays DEF ReportInv
    <3>3. operation[o].kind # "none" => operation'[o].kind # "none"
      BY <2>2
    <3>4. ASSUME NEW c \in Calls, call[c].opId = o \/ call[c].dialogOp = o
          PROVE  Stands(o)'
      BY <2>2, <3>4 DEF Stands
    <3> QED
      BY <3>1, <3>2, <3>3, <3>4 DEF Stands
  <2> QED
    BY <2>2, <2>3
<1> QED
  BY <1>1 DEF AccountInv

\* A step that changes one call, its session and the handler
LEMMA OneAccounts ==
    ASSUME ReportInv, AccountInv, TypeOK', ReportsGrow,
           UNCHANGED <<operation, request, open, operations>>, NEW c \in Calls,
           \A d \in Calls : d # c => call'[d] = call[d] /\ session'[d] = session[d],
           CallAccounts(call[c], session[c])', call'[c].opId = call[c].opId,
           \/ call'[c].dialogOp = call[c].dialogOp
           \/ /\ call'[c].dialogOp = 0
              /\ \A n \in Operations : call[c].dialogOp = n => Reported(n)',
           frame' = frame \/ frame'.at \notin {"invite", "end"},
           \A o \in Operations : Sending(o) => Sending(o)'
    PROVE  AccountInv'
<1>1. ASSUME NEW d \in Calls PROVE CallAccounts(call[d], session[d])'
  <2>1. CASE d = c
    BY <2>1
  <2>2. CASE d # c
    <3>1. SameCall(call'[d], call[d]) /\ session'[d] = session[d] /\ open' \subseteq open
      BY <2>2 DEF SameCall
    <3> QED
      BY <3>1, CallAccountsStill
  <2> QED
    BY <2>1, <2>2
<1>2. ASSUME NEW o \in Operations PROVE RequestAccounts(o, operation[o], request[o])'
  BY RequestAccountsStill
<1>3. \A d \in Calls : call'[d].dialogOp \in {0, call[d].dialogOp}
  OBVIOUS
<1>4. HandlersKnow'
  <2>1. CASE frame' = frame /\ frame.at \in {"invite", "end"}
    <3>1. frame.of \in Calls
      BY <2>1, FrameFacts DEF ReportInv, CallFrames
    <3> QED
      BY <1>3, <2>1, <3>1 DEF HandlersKnow, AccountInv
  <2>2. CASE frame'.at \notin {"invite", "end"}
    BY <2>2 DEF HandlersKnow
  <2> QED
    BY <2>1, <2>2
<1>5. \A d \in Calls :
         /\ call[d].opId # 0 => call'[d].opId = call[d].opId
         /\ \A n \in Operations : call[d].dialogOp = n => call'[d].dialogOp = n \/ Reported(n)'
  OBVIOUS
<1> QED
  BY <1>1, <1>2, <1>4, <1>5, AccountsKept

\* Handlers that return with what they hold, and an answer that begins
LEMMA HandlersAccount ==
    ASSUME ReportInv, AccountInv, TypeOK',
           AnswerSent \/ (\E ok \in BOOLEAN : EndSent(ok)) \/ \E c \in Calls : AnswerCall(c)
    PROVE  AccountInv'
<1>1. ReportsGrow /\ UNCHANGED <<inviteCalls, session, operation, request, open, operations>>
  BY DEF ReportsGrow, AnswerSent, EndSent, AnswerCall
<1>2. /\ frame.at # "request"
      /\ frame'.at \notin {"invite", "end"}
  <2>1. NoFrame.at = "poll"
    BY DEF NoFrame
  <2>2. frame' = NoFrame \/ frame'.at = "answer"
    BY SMT DEF AnswerSent, EndSent, AnswerCall
  <2>3. frame = NoFrame \/ frame.at \in {"answer", "end"}
    BY DEF AnswerSent, EndSent, AnswerCall
  <2> QED
    BY <2>1, <2>2, <2>3
<1>3. \A o \in Operations : ~Sending(o)
  BY <1>2 DEF Sending
<1>4. ASSUME NEW c \in Calls, NEW k \in CallType, call' = [call EXCEPT ![c] = k],
             k.opId = call[c].opId, k.assoc = call[c].assoc,
             k.finalEmitted = call[c].finalEmitted,
             \/ k.dialogOp = call[c].dialogOp
             \/ k.dialogOp = 0 /\ \A n \in Operations : call[c].dialogOp = n => Reported(n)'
      PROVE  AccountInv'
  <2>1. call'[c] = k /\ \A d \in Calls : d # c => call'[d] = call[d]
    BY <1>4 DEF ReportInv, TypeOK
  <2>2. CallAccounts(call[c], session[c])
    BY DEF AccountInv
  <2>3. \A n \in Operations : Reported(n) => Reported(n)'
    BY <1>1, ReportedStays DEF ReportInv
  <2>4. call[c].opId # 0 /\ Reported(call[c].opId) => Reported(call[c].opId)'
    BY <1>4, <2>1, <2>3, CallIds DEF ReportInv, Reported
  <2>5. CallAccounts(call[c], session[c])'
    <3>1. session'[c] = session[c] /\ open' = open
      BY <1>1
    <3>2. call'[c].dialogOp # 0 => call'[c].dialogOp = call[c].dialogOp
      BY <1>4, <2>1
    <3>3. /\ call'[c].opId = call[c].opId /\ call'[c].assoc = call[c].assoc
          /\ call'[c].finalEmitted = call[c].finalEmitted
      BY <1>4, <2>1
    <3> QED
      BY SMT, <2>2, <2>4, <3>1, <3>2, <3>3 DEF CallAccounts
  <2> QED
    BY <1>1, <1>2, <1>3, <1>4, <2>1, <2>5, OneAccounts
<1>5. CASE AnswerSent
  <2>1. PICK c \in Calls : c = frame.of
    BY <1>5, FrameFacts DEF ReportInv, AnswerSent, CallFrames
  <2>2. call[c] \in CallType /\ call' = [call EXCEPT ![c] = Released(call[c])]
    BY <1>5, <2>1 DEF ReportInv, TypeOK, AnswerSent
  <2> QED
    BY <1>4, <2>2, ReleasedCallFacts DEF SameCall
<1>6. ASSUME NEW ok \in BOOLEAN, EndSent(ok) PROVE AccountInv'
  <2>1. PICK c \in Calls : c = frame.of /\ frame.at = "end"
    BY <1>6, FrameFacts DEF ReportInv, EndSent, CallFrames
  <2>2. call[c] \in CallType
    BY DEF ReportInv, TypeOK
  <2>3. CASE ok
    <3>1. call' = [call EXCEPT ![c] = Released(call[c])]
      BY <1>6, <2>1, <2>2, <2>3 DEF EndSent, ReportInv, TypeOK
    <3> QED
      BY <1>4, <2>2, <3>1, ReleasedCallFacts DEF SameCall
  <2>4. CASE ~ok
    <3> DEFINE l == [call[c] EXCEPT !.dialogOp = 0]
    <3>1. call' = [call EXCEPT ![c] = Released(l)] /\ Faults(operations, FALSE)
      BY <1>6, <2>1, <2>2, <2>4 DEF EndSent, ReportInv, TypeOK
    <3>2. /\ l \in CallType /\ l.opId = call[c].opId /\ l.assoc = call[c].assoc
          /\ l.finalEmitted = call[c].finalEmitted /\ l.dialogOp = 0
      BY SMT, <2>2, CallConstants DEF CallType
    <3>3. call[c].dialogOp \in {0, operations}
      BY <2>1 DEF AccountInv, HandlersKnow
    <3>4. \A n \in Operations : n # 0
      BY SMT DEF Operations
    <3>5. \A n \in Operations : call[c].dialogOp = n => Reported(n)'
      BY <1>1, <3>1, <3>3, <3>4, ReportedStays DEF ReportInv
    <3> HIDE DEF l
    <3> QED
      BY <1>4, <3>1, <3>2, <3>5, ReleasedCallFacts DEF SameCall
  <2> QED
    BY <2>3, <2>4
<1>7. ASSUME NEW c \in Calls, AnswerCall(c) PROVE AccountInv'
  <2> DEFINE k == [call[c] EXCEPT !.active = @ + 1]
  <2>1. call[c] \in CallType /\ call' = [call EXCEPT ![c] = k]
    BY <1>7 DEF ReportInv, TypeOK, AnswerCall
  <2>2. /\ k \in CallType /\ k.opId = call[c].opId /\ k.assoc = call[c].assoc
        /\ k.finalEmitted = call[c].finalEmitted /\ k.dialogOp = call[c].dialogOp
    BY SMT, <2>1 DEF CallType
  <2> HIDE DEF k
  <2> QED
    BY <1>4, <2>1, <2>2
<1> QED
  BY <1>5, <1>6, <1>7

\* What the callbacks leave of a call: k, with session s, which is dropped or not
LEMMA CallbackAccounts ==
    ASSUME ReportInv, AccountInv, TypeOK', NEW c \in Calls, ReportsGrow,
           NEW k \in CallType, NEW s \in SessionType, s.modData, NEW drop \in BOOLEAN,
           IF drop THEN DropCall(c, k, s)
           ELSE call' = [call EXCEPT ![c] = k] /\ session' = [session EXCEPT ![c] = s],
           UNCHANGED <<operation, request, frame, open, operations>>,
           k.opId = call[c].opId,
           s.inviteTsx # "none" => (k.finalEmitted <=> s.inviteTsx # "open"),
           \A n \in Operations : k.opId = n =>
              \/ Reported(n)' \/ (~drop /\ s.inviteTsx = "open")
              \/ k.assoc \notin open \/ (drop /\ s.state = "disconnected"),
           k.dialogOp # 0 =>
              \/ ~drop /\ (s.ends > 0 \/ (s.deferred /\ s.inviteTsx = "open"))
              \/ s.answeredBy = k.dialogOp
              \/ k.assoc \notin open \/ (drop /\ s.inviteTsx = "failed"),
           \/ k.dialogOp = call[c].dialogOp
           \/ /\ k.dialogOp = 0
              /\ \A n \in Operations : call[c].dialogOp = n => Reported(n)'
    PROVE  AccountInv'
<1>1. call \in [Calls -> CallType] /\ session \in [Calls -> SessionType]
  BY DEF ReportInv, TypeOK
<1>2. /\ call'[c].opId = k.opId /\ call'[c].dialogOp = k.dialogOp /\ call'[c].assoc = k.assoc
      /\ call'[c].finalEmitted = k.finalEmitted
  <2>1. CASE drop
    <3> DEFINE l == [k EXCEPT !.invite = FALSE]
    <3>1. l \in CallType /\ SameCall(l, k)
      BY DEF CallType, SameCall
    <3>2. call'[c] = RemovedCall(c, l)
      BY <1>1, <2>1 DEF DropCall
    <3> HIDE DEF l
    <3>3. SameCall(RemovedCall(c, l), l)
      BY <3>1, RemovedCallFacts
    <3> QED
      BY <3>1, <3>2, <3>3 DEF SameCall
  <2>2. CASE ~drop
    BY <1>1, <2>2
  <2> QED
    BY <2>1, <2>2
<1>3. /\ session'[c].inviteTsx = s.inviteTsx /\ session'[c].state = s.state
      /\ session'[c].ends = s.ends /\ session'[c].deferred = s.deferred
      /\ session'[c].answeredBy = s.answeredBy
      /\ session'[c].modData <=> ~drop
  <2>1. CASE drop
    <3>1. session'[c] = [s EXCEPT !.modData = FALSE]
      BY <1>1, <2>1 DEF DropCall
    <3> QED
      BY <2>1, <3>1 DEF SessionType
  <2>2. CASE ~drop
    BY <1>1, <2>2
  <2> QED
    BY <2>1, <2>2
<1>4. \A d \in Calls : d # c => call'[d] = call[d] /\ session'[d] = session[d]
  BY <1>1 DEF DropCall
<1>5. CallAccounts(call[c], session[c])'
  <2>1. call'[c].opId # 0 => call'[c].opId \in Operations
    BY <1>2, CallIds DEF ReportInv
  <2>2. \A n : Reported(n)' <=> responses'[n] + faults'[n] > 0
    BY DEF Reported
  <2>3. call'[c].opId # 0 =>
            \/ Reported(call[c].opId)' \/ (session'[c].modData /\ session'[c].inviteTsx = "open")
            \/ call'[c].assoc \notin open'
            \/ (session'[c].state = "disconnected" /\ ~session'[c].modData)
    BY <1>2, <1>3, <2>1, <2>2 DEF Reported
  <2>4. call'[c].dialogOp # 0 =>
            \/ session'[c].modData /\ \/ session'[c].ends > 0
                                      \/ session'[c].deferred /\ session'[c].inviteTsx = "open"
            \/ session'[c].answeredBy = call'[c].dialogOp
            \/ call'[c].assoc \notin open'
            \/ session'[c].inviteTsx = "failed" /\ ~session'[c].modData
    BY <1>2, <1>3
  <2> QED
    BY <1>2, <1>3, <2>3, <2>4 DEF CallAccounts
<1>6. \A o \in Operations : Sending(o) => Sending(o)'
  BY DEF Sending
<1> QED
  BY <1>2, <1>4, <1>5, <1>6, OneAccounts

\* gmv_invite_on_state_changed drops no call that has something to report.
LEMMA StateChangedAccounts ==
    ASSUME ReportInv, AccountInv, TypeOK', NEW c \in Calls,
           NEW to \in {"confirmed", "disconnected"}, InviteStateChanged(c, to)
    PROVE  AccountInv'
<1> DEFINE s == [session[c] EXCEPT !.state = to]
           drop == to = "disconnected" /\ call[c].finalEmitted /\ call[c].dialogOp = 0
<1>1. call[c] \in CallType /\ session[c] \in SessionType /\ session[c].modData
  BY DEF ReportInv, TypeOK, InviteStateChanged
<1>2. /\ s \in SessionType /\ s.modData /\ s.state = to /\ s.ends = session[c].ends
      /\ s.inviteTsx = session[c].inviteTsx /\ s.deferred = session[c].deferred
      /\ s.answeredBy = session[c].answeredBy
  BY <1>1 DEF SessionType
<1>3. /\ ReportsGrow /\ UNCHANGED <<operation, request, frame, open, operations>>
      /\ IF drop THEN DropCall(c, call[c], s)
         ELSE session' = [session EXCEPT ![c] = s] /\ UNCHANGED call
  BY DEF InviteStateChanged, ReportsGrow
<1>4. IF drop THEN DropCall(c, call[c], s)
      ELSE call' = [call EXCEPT ![c] = call[c]] /\ session' = [session EXCEPT ![c] = s]
  BY <1>3 DEF ReportInv, TypeOK
<1>5. CallAccounts(call[c], session[c])
  BY DEF AccountInv
<1>6. \A n \in Operations : n # 0 /\ (Reported(n) => Reported(n)')
  <2>1. 0 \notin Operations
    BY SMT DEF Operations
  <2> QED
    BY <1>3, <2>1, ReportedStays DEF ReportInv
<1> HIDE DEF s
<1>7. \A n \in Operations : call[c].opId = n =>
          \/ Reported(n)' \/ (~drop /\ s.inviteTsx = "open")
          \/ call[c].assoc \notin open \/ (drop /\ s.state = "disconnected")
  BY <1>1, <1>2, <1>5, <1>6 DEF CallAccounts
<1>8. call[c].dialogOp # 0 =>
          \/ ~drop /\ (s.ends > 0 \/ (s.deferred /\ s.inviteTsx = "open"))
          \/ s.answeredBy = call[c].dialogOp
          \/ call[c].assoc \notin open \/ (drop /\ s.inviteTsx = "failed")
  BY <1>1, <1>2, <1>5 DEF CallAccounts
<1>9. s.inviteTsx # "none" => (call[c].finalEmitted <=> s.inviteTsx # "open")
  BY <1>2, <1>5 DEF CallAccounts
<1>10. drop \in BOOLEAN
  OBVIOUS
<1>11. s \in SessionType /\ s.modData
  BY <1>2
<1>12. ReportsGrow /\ UNCHANGED <<operation, request, frame, open, operations>>
  BY <1>3
<1> HIDE DEF drop
<1> QED
  BY SMT, <1>1, <1>4, <1>7, <1>8, <1>9, <1>10, <1>11, <1>12, CallbackAccounts

\* gmv_invite_on_tsx_state_changed for the INVITE reports it with the first final status.
LEMMA InviteTsxAccounts ==
    ASSUME ReportInv, AccountInv, TypeOK', NEW c \in Calls,
           NEW code \in {"1xx", "2xx", "failed"}, InviteTsxState(c, code)
    PROVE  AccountInv'
<1> DEFINE t == session[c]
           s == AfterInviteReport(t, code)
           first == code # "1xx" /\ ~call[c].finalEmitted
           drop == first /\ s.state = "disconnected"
           l == [call[c] EXCEPT !.finalEmitted = TRUE]
           k == IF first THEN l ELSE call[c]
<1>1. call[c] \in CallType /\ t \in SessionType /\ t.modData /\ InviteReports(c, code)
  BY DEF ReportInv, TypeOK, InviteTsxState
<1>2. s \in SessionType /\ s.modData
  BY <1>1, AfterReportFacts
<1>3. /\ s.inviteTsx = (IF code = "1xx" THEN t.inviteTsx ELSE code)
      /\ s.deferred = (t.deferred /\ ~(t.deferred /\ code # "failed"))
      /\ s.ends = (IF t.deferred /\ code # "failed" THEN t.ends + 1 ELSE t.ends)
      /\ s.answeredBy = t.answeredBy
      /\ s.state = (IF code = "2xx" /\ t.state = "early" THEN "confirmed" ELSE t.state)
  BY <1>1 DEF AfterInviteReport, SessionType
<1>4. /\ l \in CallType /\ l.opId = call[c].opId /\ l.dialogOp = call[c].dialogOp
      /\ l.assoc = call[c].assoc /\ l.finalEmitted
  BY <1>1 DEF CallType
<1>5. /\ k \in CallType /\ k.opId = call[c].opId /\ k.dialogOp = call[c].dialogOp
      /\ k.assoc = call[c].assoc /\ (k.finalEmitted <=> call[c].finalEmitted \/ code # "1xx")
  BY <1>1, <1>4
<1>6. /\ ReportsGrow /\ UNCHANGED <<operation, request, frame, open, operations>>
      /\ first => Responds(call[c].opId)
  BY DEF InviteTsxState, ReportsGrow
<1>7. IF drop THEN DropCall(c, k, s)
      ELSE call' = [call EXCEPT ![c] = k] /\ session' = [session EXCEPT ![c] = s]
  <2>1. CASE first
    BY <2>1 DEF InviteTsxState, ReportInv, TypeOK
  <2>2. CASE ~first
    <3>1. session' = [session EXCEPT ![c] = s] /\ call' = call
      BY <2>2 DEF InviteTsxState
    <3>2. call' = [call EXCEPT ![c] = call[c]]
      BY <3>1 DEF ReportInv, TypeOK
    <3> QED
      BY <2>2, <3>1, <3>2
  <2> QED
    BY <2>1, <2>2
<1>8. CallAccounts(call[c], t)
  BY DEF AccountInv
<1>9. \/ t.inviteTsx = "open" /\ (code = "failed" <=> t.state = "disconnected")
      \/ t.inviteTsx = code
  BY <1>1 DEF InviteReports
<1>10. t.inviteTsx # "1xx" /\ t.inviteTsx \in {"none", "open", "2xx", "failed"} /\ t.ends \in Nat
  BY SMT, <1>1 DEF SessionType
<1>11. \A n \in Operations :
          n # 0 /\ (Reported(n) => Reported(n)') /\ (Responds(n) => Reported(n)')
  <2>1. 0 \notin Operations
    BY SMT DEF Operations
  <2> QED
    BY <1>6, <2>1, ReportedStays DEF ReportInv
<1>12. t.inviteTsx # "none" /\ (call[c].finalEmitted <=> t.inviteTsx # "open")
  BY <1>8, <1>9 DEF CallAccounts
<1> HIDE DEF s, l, k, t
<1>13. s.inviteTsx # "none" => (k.finalEmitted <=> s.inviteTsx # "open")
  BY <1>3, <1>5, <1>9, <1>12
<1>14. drop => code = "failed" /\ s.inviteTsx = "failed"
  <2>1. drop => t.inviteTsx = "open" /\ t.state = "disconnected"
    BY <1>3, <1>12
  <2> QED
    BY <1>3, <1>9, <2>1
<1>15. \A n \in Operations : k.opId = n =>
          \/ Reported(n)' \/ (~drop /\ s.inviteTsx = "open")
          \/ k.assoc \notin open \/ (drop /\ s.state = "disconnected")
  <2>1. CASE first
    BY <1>5, <1>6, <1>11, <2>1
  <2>2. CASE ~first
    BY <1>3, <1>5, <1>8, <1>11, <1>12, <2>2, <1>1 DEF CallAccounts, t
  <2> QED
    BY <2>1, <2>2
<1>16. k.dialogOp # 0 =>
          \/ ~drop /\ (s.ends > 0 \/ (s.deferred /\ s.inviteTsx = "open"))
          \/ s.answeredBy = k.dialogOp
          \/ k.assoc \notin open \/ (drop /\ s.inviteTsx = "failed")
  <2>1. k.dialogOp # 0 =>
           \/ t.ends > 0 \/ (t.deferred /\ t.inviteTsx = "open") \/ k.assoc \notin open
           \/ s.answeredBy = k.dialogOp
    BY <1>1, <1>3, <1>5, <1>8 DEF CallAccounts
  <2>2. t.ends > 0 => s.ends > 0
    BY SMT, <1>3, <1>10
  <2>3. t.deferred /\ code # "failed" => s.ends > 0
    BY SMT, <1>3, <1>10
  <2>4. t.inviteTsx = "open" /\ code = "failed" => drop
    BY <1>3, <1>9, <1>12
  <2> QED
    BY <1>14, <2>1, <2>2, <2>3, <2>4
<1>17. drop \in BOOLEAN
  OBVIOUS
<1> HIDE DEF drop, first
<1> QED
  BY <1>2, <1>5, <1>6, <1>7, <1>13, <1>15, <1>16, <1>17, CallbackAccounts

\* ... and for a BYE or CANCEL the one that is under way.
LEMMA EndTsxAccounts ==
    ASSUME ReportInv, AccountInv, TypeOK', NEW c \in Calls, NEW again \in BOOLEAN,
           EndTsxState(c, again)
    PROVE  AccountInv'
<1> DEFINE t == session[c]
           s == IF again THEN [t EXCEPT !.endDone = FALSE]
                         ELSE [t EXCEPT !.endDone = TRUE, !.ends = @ - 1]
           drop == call[c].dialogOp # 0 /\ s.state = "disconnected"
           l == [call[c] EXCEPT !.dialogOp = 0]
<1>1. call[c] \in CallType /\ t \in SessionType /\ t.modData
  BY DEF ReportInv, TypeOK, EndTsxState
<1>2. again \/ t.ends > 0
  BY DEF EndTsxState
<1>3. /\ s \in SessionType /\ s.modData /\ s.state = t.state /\ s.inviteTsx = t.inviteTsx
      /\ s.deferred = t.deferred
  <2>1. CASE again
    <3>1. s = [t EXCEPT !.endDone = FALSE]
      BY <2>1
    <3> HIDE DEF s, t
    <3> QED
      BY <1>1, <3>1 DEF SessionType
  <2>2. CASE ~again
    <3> HIDE DEF t
    <3>1. PICK n \in 0 .. MaxOperations : n = t.ends - 1
      BY SMT, <1>1, <1>2, <2>2, CallConstants DEF SessionType
    <3>2. s = [t EXCEPT !.endDone = TRUE, !.ends = n]
      BY <2>2, <3>1
    <3> HIDE DEF s
    <3> QED
      BY <1>1, <3>2 DEF SessionType
  <2> QED
    BY <2>1, <2>2
<1>4. /\ l \in CallType /\ l.opId = call[c].opId /\ l.dialogOp = 0
      /\ l.assoc = call[c].assoc /\ l.finalEmitted = call[c].finalEmitted
  BY SMT, <1>1, CallConstants DEF CallType
<1>5. /\ ReportsGrow /\ UNCHANGED <<operation, request, frame, open, operations>>
      /\ call[c].dialogOp # 0 => Responds(call[c].dialogOp)
  BY DEF EndTsxState, ReportsGrow
<1>6. IF drop THEN DropCall(c, l, s)
      ELSE call' = [call EXCEPT ![c] = l] /\ session' = [session EXCEPT ![c] = s]
  <2>1. CASE call[c].dialogOp # 0
    BY <2>1 DEF EndTsxState, ReportInv, TypeOK
  <2>2. CASE call[c].dialogOp = 0
    <3>1. session' = [session EXCEPT ![c] = s] /\ call' = call
      BY <2>2 DEF EndTsxState
    <3>2. l = call[c]
      BY SMT, <1>1, <2>2 DEF CallType
    <3>3. call' = [call EXCEPT ![c] = call[c]]
      BY <3>1 DEF ReportInv, TypeOK
    <3> HIDE DEF l
    <3> QED
      BY <2>2, <3>1, <3>2, <3>3
  <2> QED
    BY <2>1, <2>2
<1>7. CallAccounts(call[c], t)
  BY DEF AccountInv
<1>8. \A n \in Operations :
          n # 0 /\ (Reported(n) => Reported(n)') /\ (Responds(n) => Reported(n)')
  <2>1. 0 \notin Operations
    BY SMT DEF Operations
  <2> QED
    BY <1>5, <2>1, ReportedStays DEF ReportInv
<1> HIDE DEF s, l, t
<1>9. s.inviteTsx # "none" => (l.finalEmitted <=> s.inviteTsx # "open")
  BY <1>3, <1>4, <1>7 DEF CallAccounts
<1>10. \A n \in Operations : l.opId = n =>
          \/ Reported(n)' \/ (~drop /\ s.inviteTsx = "open")
          \/ l.assoc \notin open \/ (drop /\ s.state = "disconnected")
  BY <1>1, <1>3, <1>4, <1>7, <1>8 DEF CallAccounts
<1>11. \A n \in Operations : call[c].dialogOp = n => Reported(n)'
  BY <1>5, <1>8
<1>12. drop \in BOOLEAN
  OBVIOUS
<1> HIDE DEF drop
<1> QED
  BY <1>3, <1>4, <1>5, <1>6, <1>9, <1>10, <1>11, <1>12, CallbackAccounts

\* gmv_send_invite_on_owner reports the INVITE when it could not be sent.
LEMMA InviteSentAccounts ==
    ASSUME ReportInv, AccountInv, TypeOK', NEW ok \in BOOLEAN, InviteSent(ok)
    PROVE  AccountInv'
<1>1. PICK c \in Calls : c = frame.of /\ frame.at = "invite"
  BY FrameFacts DEF ReportInv, InviteSent, CallFrames
<1>2. /\ ReportsGrow /\ UNCHANGED <<operation, request, open, operations>> /\ frame' = NoFrame
      /\ ~ok => Faults(call[c].opId, FALSE)
  BY <1>1 DEF InviteSent, ReportsGrow
<1>3. frame'.at \notin {"invite", "end"} /\ \A o \in Operations : ~Sending(o)
  BY <1>1, <1>2 DEF NoFrame, Sending
<1>4. call \in [Calls -> CallType] /\ session \in [Calls -> SessionType]
  BY DEF ReportInv, TypeOK
<1>5. \A d \in Calls : d # c => call'[d] = call[d] /\ session'[d] = session[d]
  BY <1>1, <1>4 DEF InviteSent
<1>6. SameCall(call'[c], call[c])
  <2> DEFINE i == [call[c] EXCEPT !.invite = FALSE]
             l == RemovedCall(c, i)
  <2>1. i \in CallType /\ SameCall(i, call[c])
    BY <1>4 DEF CallType, SameCall
  <2>2. call'[c] = Released(call[c]) \/ call'[c] = Released(l)
    BY <1>1, <1>4 DEF InviteSent
  <2> HIDE DEF i
  <2>3. l \in CallType /\ SameCall(l, i)
    BY <2>1, RemovedCallFacts
  <2> HIDE DEF l
  <2>4. SameCall(Released(call[c]), call[c]) /\ SameCall(Released(l), l)
    BY <1>4, <2>3, ReleasedCallFacts
  <2> QED
    BY <2>1, <2>2, <2>3, <2>4 DEF SameCall
<1>7. CallAccounts(call[c], session[c])'
  <2>1. CASE ok
    <3>1. session'[c] = session[c]
      BY <2>1 DEF InviteSent
    <3> QED
      BY <1>2, <1>6, <3>1, CallAccountsStill
  <2>2. CASE ~ok
    <3>1. session'[c].inviteTsx = session[c].inviteTsx
      BY <1>1, <1>4 DEF InviteSent, SessionType
    <3>2. \A n \in Operations : call[c].opId = n => Reported(n)'
      BY <1>2, <2>2, ReportedStays DEF ReportInv
    <3>3. call'[c].opId # 0 => Reported(call[c].opId)'
      BY <1>6, <3>2, CallIds DEF ReportInv, SameCall, Reported
    <3>4. call'[c].dialogOp = 0
      BY <1>1, <1>6 DEF AccountInv, HandlersKnow, SameCall
    <3>5. session[c].inviteTsx # "none" =>
             (call[c].finalEmitted <=> session[c].inviteTsx # "open")
      BY DEF AccountInv, CallAccounts
    <3>6. session'[c].inviteTsx # "none" =>
             (call'[c].finalEmitted <=> session'[c].inviteTsx # "open")
      BY <1>6, <3>1, <3>5 DEF SameCall
    <3> QED
      BY <3>3, <3>4, <3>6 DEF CallAccounts
  <2> QED
    BY <2>1, <2>2
<1> QED
  BY <1>2, <1>3, <1>5, <1>6, <1>7, OneAccounts DEF SameCall

\* A step that leaves the calls and the sessions to themselves, between two handlers
LEMMA CallsAccount ==
    ASSUME ReportInv, AccountInv, ReportsGrow,
           \A c \in Calls : SameCall(call'[c], call[c]) /\ session'[c] = session[c],
           UNCHANGED open
    PROVE  \A c \in Calls :
              /\ CallAccounts(call[c], session[c])'
              /\ call[c].opId # 0 => call'[c].opId = call[c].opId
              /\ \A n \in Operations :
                    call[c].dialogOp = n => call'[c].dialogOp = n \/ Reported(n)'
<1>1. \A c \in Calls : CallAccounts(call[c], session[c])'
  BY CallAccountsStill
<1> QED
  BY <1>1 DEF SameCall

\* ... and one that leaves the requests to themselves
LEMMA RequestsAccount ==
    ASSUME ReportInv, AccountInv, ReportsGrow, UNCHANGED <<operation, request>>,
           \A o \in Operations : Sending(o) => Sending(o)'
    PROVE  \A o \in Operations :
              /\ RequestAccounts(o, operation[o], request[o])'
              /\ operation[o].kind # "none" => operation'[o].kind # "none"
BY RequestAccountsStill

\* No handler of an INVITE, a BYE or a CANCEL
LEMMA NoHandlerKnows ==
    ASSUME frame' = NoFrame \/ frame'.at = "request" PROVE HandlersKnow'
<1>1. NoFrame.at = "poll"
  BY DEF NoFrame
<1> QED
  BY <1>1 DEF HandlersKnow

\* The step that is none, and the command that fails at once
LEMMA CommandAccounts ==
    ASSUME ReportInv, AccountInv, TypeOK',
           CommandFails \/ UNCHANGED vars \/ \E c \in Calls : UseFreedSession(c)
    PROVE  AccountInv'
<1>1. /\ ReportsGrow /\ UNCHANGED <<call, session, operation, request, open, frame>>
  BY DEF CommandFails, UseFreedSession, vars, ReportsGrow
<1>2. /\ \A c \in Calls : SameCall(call'[c], call[c]) /\ session'[c] = session[c]
      /\ \A o \in Operations : Sending(o) => Sending(o)'
  BY <1>1 DEF SameCall, Sending
<1>3. CASE /\ operations < MaxOperations /\ operations' = operations + 1 /\ frame = NoFrame
           /\ Faults(operations + 1, FALSE)
  <2>1. /\ operations < MaxOperations /\ operations' = operations + 1 /\ frame' = NoFrame
        /\ Faults(operations + 1, FALSE)
    BY <1>1, <1>3
  <2>2. operations + 1 \in Operations
    BY <2>1, NextId
  <2>3. \A n \in Operations : Faults(n, FALSE) => Reported(n)'
    BY <1>1, ReportedStays DEF ReportInv
  <2>4. Stands(operations)'
    BY <2>1, <2>2, <2>3 DEF Stands, Reported
  <2> QED
    BY <1>1, <1>2, <2>1, <2>4, CallsAccount, RequestsAccount, NoHandlerKnows, AccountsKept
<1>4. CASE UNCHANGED operations
  <2>1. HandlersKnow'
    BY <1>1, <1>4 DEF HandlersKnow, AccountInv
  <2> QED
    BY <1>1, <1>2, <1>4, <2>1, CallsAccount, RequestsAccount, AccountsKept
<1> QED
  BY <1>3, <1>4 DEF CommandFails, UseFreedSession, vars

\* A BYE or CANCEL has a transaction, or waits for one of the INVITE.
LEMMA EndCallAccounts ==
    ASSUME ReportInv, ObjectInv, AccountInv, TypeOK', NEW c \in Calls,
           NEW how \in {"waits", "sends", "answers"}, EndCall(c, how)
    PROVE  AccountInv'
<1>1. PICK n \in Operations : n = operations + 1
  BY NextId DEF EndCall
<1>2. /\ frame = NoFrame /\ operations' = n /\ call[c].dialogOp = 0 /\ c \in inviteCalls
      /\ call[c].invite /\ (how = "waits" => session[c].inviteTsx = "open")
      /\ frame' = IF how = "waits" THEN NoFrame ELSE [at |-> "end", of |-> c]
      /\ UNCHANGED <<operation, request, open>> /\ ReportsGrow
  BY <1>1 DEF EndCall, Ends, ReportsGrow
<1>3. session[c].modData
  BY <1>2 DEF ObjectInv, CallInv, CallFine
<1>4. call[c] \in CallType /\ session[c] \in SessionType /\ session[c].ends \in Nat
  BY SMT DEF ReportInv, TypeOK, SessionType
<1>5. /\ call'[c].dialogOp = n /\ call'[c].opId = call[c].opId
      /\ call'[c].assoc = call[c].assoc /\ call'[c].finalEmitted = call[c].finalEmitted
  BY SMT, <1>1, <1>4 DEF EndCall, ReportInv, TypeOK, CallType
<1>6. /\ session'[c].modData /\ session'[c].inviteTsx = session[c].inviteTsx
      /\ session'[c].state = session[c].state /\ session'[c].deferred = (how = "waits")
      /\ session'[c].ends = IF how = "sends" THEN session[c].ends + 1 ELSE session[c].ends
      /\ how = "answers" => session'[c].answeredBy = n
  BY SMT, <1>1, <1>3, <1>4 DEF EndCall, ReportInv, TypeOK, SessionType
<1>7. how = "sends" => session'[c].ends > 0
  BY SMT, <1>4, <1>6
<1>8. \A d \in Calls : d # c => SameCall(call'[d], call[d]) /\ session'[d] = session[d]
  BY DEF EndCall, ReportInv, TypeOK, SameCall
<1>9. CallAccounts(call[c], session[c])'
  <2>1. CallAccounts(call[c], session[c])
    BY DEF AccountInv
  <2>2. \A m \in Operations : Reported(m) => Reported(m)'
    BY <1>2, ReportedStays DEF ReportInv
  <2>3. call[c].opId # 0 /\ Reported(call[c].opId) => Reported(call[c].opId)'
    BY <1>5, <2>2, CallIds DEF ReportInv, Reported
  <2>4. session'[c].deferred => session'[c].inviteTsx = "open"
    BY <1>2, <1>6
  <2>5. call'[c].dialogOp # 0 =>
            \/ session'[c].modData /\ \/ session'[c].ends > 0
                                      \/ session'[c].deferred /\ session'[c].inviteTsx = "open"
            \/ session'[c].answeredBy = call'[c].dialogOp
    BY <1>2, <1>5, <1>6, <1>7
  <2>6. call'[c].opId # 0 =>
            \/ Reported(call[c].opId)' \/ (session'[c].modData /\ session'[c].inviteTsx = "open")
            \/ call'[c].assoc \notin open'
    BY <1>2, <1>3, <1>5, <1>6, <2>1, <2>3 DEF CallAccounts
  <2> QED
    BY <1>5, <1>6, <2>1, <2>5, <2>6 DEF CallAccounts
<1>10. \A d \in Calls : CallAccounts(call[d], session[d])'
  BY <1>2, <1>8, <1>9, CallAccountsStill
<1>11. HandlersKnow'
  <2>1. CASE how = "waits"
    BY <1>2, <2>1, NoHandlerKnows
  <2>2. CASE how # "waits"
    <3>1. frame'.at = "end" /\ frame'.of = c
      BY SMT, <1>2, <2>2
    <3> QED
      BY <1>2, <1>5, <3>1 DEF HandlersKnow
  <2> QED
    BY <2>1, <2>2
<1>12. \A o \in Operations : ~Sending(o)
  BY <1>2 DEF Sending, NoFrame
<1>13. \A d \in Calls :
          /\ call[d].opId # 0 => call'[d].opId = call[d].opId
          /\ \A m \in Operations : call[d].dialogOp = m => call'[d].dialogOp = m \/ Reported(m)'
  <2>1. 0 \notin Operations
    BY SMT DEF Operations
  <2> QED
    BY <1>2, <1>5, <1>8, <2>1 DEF SameCall
<1>14. operations' = operations + 1 /\ Stands(operations)'
  BY <1>1, <1>2, <1>5 DEF Stands
<1> QED
  BY <1>2, <1>10, <1>11, <1>12, <1>13, <1>14, RequestsAccount, AccountsKept

\* A call that is new has nothing to account for before.
LEMMA NewCallAccounts ==
    ASSUME ReportInv, AccountInv, ReportsGrow, UNCHANGED open, NEW c \in Calls, call[c] = NoCall,
           \A d \in Calls : d # c => call'[d] = call[d] /\ session'[d] = session[d],
           CallAccounts(call[c], session[c])'
    PROVE  \A d \in Calls :
              /\ CallAccounts(call[d], session[d])'
              /\ call[d].opId # 0 => call'[d].opId = call[d].opId
              /\ \A n \in Operations :
                    call[d].dialogOp = n => call'[d].dialogOp = n \/ Reported(n)'
<1>1. call[c].opId = 0 /\ call[c].dialogOp = 0 /\ 0 \notin Operations
  <2>1. 0 \notin Operations
    BY SMT DEF Operations
  <2> QED
    BY <2>1, NoneFields
<1>2. \A d \in Calls : d # c => SameCall(call'[d], call[d])
  BY DEF SameCall
<1>3. \A d \in Calls : CallAccounts(call[d], session[d])'
  BY <1>2, CallAccountsStill
<1> QED
  BY <1>1, <1>3

\* An INVITE is given a transaction; an incoming one has nothing to report.
LEMMA InvitesAccount ==
    ASSUME ReportInv, AccountInv, TypeOK', NEW a \in Associations,
           SendInvite(a) \/ IncomingInvite(a)
    PROVE  AccountInv'
<1>1. PICK c \in Calls : c = calls + 1
  BY SMT, CallConstants DEF ReportInv, TypeOK, Calls, SendInvite, IncomingInvite
<1>2. /\ frame = NoFrame /\ UNCHANGED <<operation, request, open>> /\ ReportsGrow
      /\ \A d \in Calls : d # c => call'[d] = call[d] /\ session'[d] = session[d]
  BY <1>1 DEF SendInvite, IncomingInvite, ReportInv, TypeOK, ReportsGrow
<1>3. call[c] = NoCall /\ \A o \in Operations : ~Sending(o)
  <2>1. c > calls
    BY SMT, <1>1 DEF ReportInv, TypeOK
  <2> QED
    BY <1>2, <2>1 DEF ReportInv, FreshInv, Sending, NoFrame
<1>4. CASE SendInvite(a)
  <2>1. /\ call'[c].opId = operations + 1 /\ call'[c].dialogOp = 0 /\ ~call'[c].finalEmitted
        /\ session'[c].modData /\ session'[c].inviteTsx = "open"
        /\ frame'.at = "invite" /\ frame'.of = c /\ operations' = operations + 1
    BY SMT, <1>1, <1>4, NoneFields DEF SendInvite, ReportInv, TypeOK, NoCall, NoSession
  <2>2. CallAccounts(call[c], session[c])'
    BY <2>1 DEF CallAccounts
  <2>3. HandlersKnow' /\ Stands(operations)'
    BY <2>1 DEF HandlersKnow, Stands
  <2> QED
    BY <1>2, <1>3, <2>1, <2>2, <2>3, NewCallAccounts, RequestsAccount, AccountsKept
<1>5. CASE IncomingInvite(a)
  <2>1. /\ call'[c].opId = 0 /\ call'[c].dialogOp = 0
        /\ session'[c].inviteTsx = "none" /\ frame' = NoFrame /\ UNCHANGED operations
    BY SMT, <1>1, <1>5, NoneFields DEF IncomingInvite, ReportInv, TypeOK, NoCall, NoSession
  <2>2. CallAccounts(call[c], session[c])'
    BY <2>1 DEF CallAccounts
  <2> QED
    BY <1>2, <1>3, <2>1, <2>2, NewCallAccounts, RequestsAccount, NoHandlerKnows, AccountsKept
<1> QED
  BY <1>4, <1>5

\* A request that is begun has its handler.
LEMMA BeginAccounts ==
    ASSUME ReportInv, AccountInv, TypeOK', NEW p, NEW m, BeginRequest(p, m),
           p.kind # "none", ~p.finalEmitted,
           \A c \in Calls :
              /\ CallAccounts(call[c], session[c])'
              /\ call[c].opId # 0 => call'[c].opId = call[c].opId
              /\ \A n \in Operations :
                    call[c].dialogOp = n => call'[c].dialogOp = n \/ Reported(n)'
    PROVE  AccountInv'
<1>1. PICK n \in Operations : n = operations + 1
  BY NextId DEF BeginRequest
<1>2. /\ operations' = operations + 1 /\ operations' = n /\ frame = NoFrame
      /\ frame' = [at |-> "request", of |-> n] /\ ReportsGrow
      /\ operation' = [operation EXCEPT ![n] = p]
  BY <1>1 DEF BeginRequest, ReportsGrow
<1>3. operation'[n] = p /\ \A o \in Operations : o # n => operation'[o] = operation[o]
  BY <1>2 DEF ReportInv, TypeOK
<1>4. PICK made \in BOOLEAN :
        request' = [request EXCEPT ![n] =
                       [tsx |-> IF made THEN "open" ELSE "none", token |-> made, sessions |-> m]]
  BY <1>1 DEF BeginRequest
<1>5. /\ request'[n].tsx = (IF made THEN "open" ELSE "none") /\ request'[n].token = made
      /\ \A o \in Operations : o # n => request'[o] = request[o]
  BY <1>4 DEF ReportInv, TypeOK
<1>6. frame'.at = "request" /\ frame'.of = n
  BY SMT, <1>2
<1>7. Sending(n)' /\ \A o \in Operations : ~Sending(o)
  BY <1>2, <1>6 DEF Sending, NoFrame
<1>8. RequestAccounts(n, operation[n], request[n])'
  BY <1>3, <1>5, <1>7 DEF RequestAccounts
<1>9. ASSUME NEW o \in Operations
      PROVE  /\ RequestAccounts(o, operation[o], request[o])'
             /\ operation[o].kind # "none" => operation'[o].kind # "none"
  <2>1. CASE o = n
    BY <1>3, <1>8, <2>1
  <2>2. CASE o # n
    BY <1>2, <1>3, <1>5, <1>7, <2>2, RequestAccountsStill
  <2> QED
    BY <2>1, <2>2
<1>10. HandlersKnow' /\ Stands(operations)'
  BY <1>2, <1>3, <1>6, NoHandlerKnows DEF Stands
<1> QED
  BY <1>2, <1>9, <1>10, AccountsKept

\* A send whose request is accepted or refused keeps the accounts.
LEMMA SendAccounts ==
    ASSUME ReportInv, AccountInv, TypeOK',
           \/ SendMessage \/ \E c \in Calls : SendInfo(c)
           \/ \E a \in Associations : SendRestored(a)
    PROVE  AccountInv'
<1>1. ReportsGrow /\ UNCHANGED <<session, open>>
  BY DEF SendMessage, SendInfo, SendRestored, BeginRequest, ReportsGrow
<1>2. CASE SendMessage \/ \E c \in Calls : SendInfo(c)
  <2>1. PICK p, m : BeginRequest(p, m) /\ p.kind # "none" /\ ~p.finalEmitted
    <3> DEFINE q == [NoOperation EXCEPT !.kind = "message"]
               r(i) == [NoOperation EXCEPT !.kind = i, !.active = 1, !.allocated = TRUE]
    <3>1. /\ q.kind # "none" /\ ~q.finalEmitted
          /\ \A i \in {"info", "uasInfo"} : r(i).kind # "none" /\ ~r(i).finalEmitted
      BY DEF NoOperation
    <3>2. BeginRequest(q, 0) \/ \E i \in {"info", "uasInfo"} : BeginRequest(r(i), 0)
      BY <1>2 DEF SendMessage, SendInfo
    <3> HIDE DEF q, r
    <3> QED
      BY <3>1, <3>2
  <2>2. \A c \in Calls : SameCall(call'[c], call[c]) /\ session'[c] = session[c]
    BY <1>1, <1>2 DEF SendMessage, SendInfo, SameCall
  <2> QED
    BY <1>1, <2>1, <2>2, CallsAccount, BeginAccounts
<1>3. ASSUME NEW a \in Associations, SendRestored(a) PROVE AccountInv'
  <2>1. PICK c \in Calls : c = calls + 1
    <3>1. calls < MaxCalls /\ calls \in 0 .. MaxCalls
      BY <1>3 DEF ReportInv, TypeOK, SendRestored
    <3> QED
      BY SMT, <3>1, CallConstants DEF Calls
  <2>2. call[c] = NoCall /\ session[c] = NoSession
    <3>1. c > calls
      BY SMT, <2>1 DEF ReportInv, TypeOK
    <3> QED
      BY <3>1 DEF ReportInv, FreshInv
  <2>3. /\ call'[c].opId = 0 /\ call'[c].dialogOp = 0 /\ session'[c].inviteTsx = "none"
        /\ \A d \in Calls : d # c => call'[d] = call[d] /\ session'[d] = session[d]
    <3>1. call' = [call EXCEPT ![c] =
                      [NoCall EXCEPT !.kind = "restored", !.assoc = a, !.allocated = TRUE]]
      BY <1>3, <2>1 DEF SendRestored
    <3> QED
      BY <1>1, <2>2, <3>1, NoneFields DEF ReportInv, TypeOK, NoCall
  <2>4. CallAccounts(call[c], session[c])'
    BY <2>3 DEF CallAccounts
  <2>5. PICK p, m : BeginRequest(p, m) /\ p.kind # "none" /\ ~p.finalEmitted
    <3> DEFINE q == [NoOperation EXCEPT !.kind = "restored", !.restoredCall = calls + 1,
                                        !.sessionHeld = TRUE, !.active = 1, !.allocated = TRUE]
    <3>1. q.kind # "none" /\ ~q.finalEmitted
      BY DEF NoOperation
    <3>2. BeginRequest(q, 1)
      BY <1>3 DEF SendRestored
    <3> HIDE DEF q
    <3> QED
      BY <3>1, <3>2
  <2> QED
    BY <1>1, <2>2, <2>3, <2>4, <2>5, NewCallAccounts, BeginAccounts
<1> QED
  BY <1>2, <1>3

\* A step of the request o that leaves the calls to themselves
LEMMA RequestStepAccounts ==
    ASSUME ReportInv, AccountInv, TypeOK', ReportsGrow, NEW o \in Operations,
           \A x \in Operations : x # o =>
              /\ operation'[x] = operation[x] /\ request'[x] = request[x]
              /\ Sending(x) => Sending(x)',
           RequestAccounts(o, operation[o], request[o])',
           operation[o].kind # "none" => operation'[o].kind # "none",
           \A c \in Calls : SameCall(call'[c], call[c]),
           UNCHANGED <<session, open, operations>>, frame' = frame \/ frame' = NoFrame
    PROVE  AccountInv'
<1>1. \A c \in Calls : SameCall(call'[c], call[c]) /\ session'[c] = session[c]
  OBVIOUS
<1>2. ASSUME NEW x \in Operations
      PROVE  /\ RequestAccounts(x, operation[x], request[x])'
             /\ operation[x].kind # "none" => operation'[x].kind # "none"
  BY RequestAccountsStill
<1>3. HandlersKnow'
  <2>1. CASE frame' = NoFrame
    BY <2>1, NoHandlerKnows
  <2>2. CASE frame' = frame /\ frame.at \in {"invite", "end"}
    <3>1. frame.of \in Calls
      BY <2>2, FrameFacts DEF ReportInv, CallFrames
    <3> QED
      BY <2>2, <3>1 DEF HandlersKnow, AccountInv, SameCall
  <2>3. CASE frame'.at \notin {"invite", "end"}
    BY <2>3 DEF HandlersKnow
  <2> QED
    BY <2>1, <2>2, <2>3
<1> QED
  BY <1>1, <1>2, <1>3, CallsAccount, AccountsKept

\* gmv_outbound_callback and gmv_on_tsx_state report with the final status; an INFO on an
\* incoming call is given up with it.
LEMMA RequestReportsAccounts ==
    ASSUME ReportInv, AccountInv, TypeOK', NEW o \in Operations, NEW status \in BOOLEAN,
           OutboundCallback(o, status) \/ OnTsxState(o, status) \/ TsxUnheard(o, status)
    PROVE  AccountInv'
<1>1. /\ operation[o] \in OperationType /\ request[o] \in RequestType
      /\ RequestAccounts(o, operation[o], request[o])
      /\ OperationFine(operation[o], request[o], Sending(o))
  BY DEF ReportInv, TypeOK, AccountInv, OperationInv
<1>2. /\ ReportsGrow /\ UNCHANGED <<session, open, operations, frame>>
      /\ \A x \in Operations : (Sending(x) => Sending(x)') /\ (Sending(x)' => Sending(x))
      /\ operation[o].kind # "none"
  BY DEF OutboundCallback, OnTsxState, TsxUnheard, ReportsGrow, Sending
<1>3. Reported(o) \/ Responds(o) => Reported(o)'
  BY <1>2, ReportedStays DEF ReportInv
<1>4. ~status => Sending(o)
  <2>1. RequestReports(o, status)
    BY DEF OutboundCallback, OnTsxState, TsxUnheard
  <2> QED
    BY <2>1 DEF RequestReports, CallsBack, Sending
<1>5. Ended(TRUE) = "final" /\ Ended(FALSE) = "dropped"
  BY DEF Ended
<1>6. CASE OutboundCallback(o, status)
  <2>1. /\ request'[o].tsx = Ended(status)
        /\ \A x \in Operations : x # o =>
              operation'[x] = operation[x] /\ request'[x] = request[x]
    BY <1>1, <1>6 DEF OutboundCallback, ReportInv, TypeOK, RequestType
  <2>2. /\ operation'[o].kind = operation[o].kind
        /\ operation'[o].finalEmitted <=> operation[o].finalEmitted \/ status
    BY <1>1, <1>6 DEF OutboundCallback, ReportInv, TypeOK, OperationType
  <2>3. operation[o].finalEmitted \/ status => Reported(o)'
    BY <1>1, <1>3, <1>6 DEF OutboundCallback, RequestAccounts
  <2>4. RequestAccounts(o, operation[o], request[o])'
    BY <1>2, <1>4, <1>5, <2>1, <2>2, <2>3 DEF RequestAccounts
  <2>5. \A c \in Calls : SameCall(call'[c], call[c])
    BY <1>6 DEF OutboundCallback, SameCall
  <2> QED
    BY <1>2, <2>1, <2>2, <2>4, <2>5, RequestStepAccounts
<1>7. CASE OnTsxState(o, status)
  <2> DEFINE i == [request[o] EXCEPT !.tsx = Ended(status), !.token = FALSE]
             r == [i EXCEPT !.sessions = IF operation[o].sessionHeld THEN @ - 1 ELSE @]
  <2>1. /\ CompleteDialogOperation(o, operation[o], i) /\ UNCHANGED calls
        /\ operation' = [operation EXCEPT ![o] = CompletedOperation(operation[o])]
        /\ request[o].token /\ operation[o].kind \in {"info", "restored"}
        /\ status => Responds(o)
    BY <1>7 DEF OnTsxState, RequestReports
  <2>2. request' = [request EXCEPT ![o] = r]
    BY <2>1 DEF CompleteDialogOperation
  <2>3. r.tsx = Ended(status)
    BY <1>1 DEF RequestType
  <2> HIDE DEF i, r
  <2>4. ~operation[o].cleanup
    BY <1>1, <2>1 DEF OperationFine
  <2>5. /\ operation'[o].kind = operation[o].kind
        /\ operation'[o].finalEmitted = operation[o].finalEmitted
        /\ request'[o].tsx = Ended(status)
        /\ \A x \in Operations : x # o =>
              operation'[x] = operation[x] /\ request'[x] = request[x]
    <3>1. operation'[o] = CompletedOperation(operation[o]) /\ request'[o] = r
      BY <2>1, <2>2 DEF ReportInv, TypeOK
    <3>2. \A x \in Operations : x # o =>
              operation'[x] = operation[x] /\ request'[x] = request[x]
      BY <2>1, <2>2 DEF ReportInv, TypeOK
    <3> QED
      BY <1>1, <2>3, <2>4, <3>1, <3>2, CompletedFacts
  <2>6. RequestAccounts(o, operation[o], request[o])'
    BY <1>1, <1>2, <1>3, <1>4, <1>5, <2>1, <2>5 DEF RequestAccounts
  <2>7. \A c \in Calls : SameCall(call'[c], call[c])
    BY <2>1, CompletesCalls
  <2> QED
    BY <1>2, <2>5, <2>6, <2>7, RequestStepAccounts
<1>8. CASE TsxUnheard(o, status)
  <2>1. /\ request'[o].tsx = Ended(status) /\ operation' = operation
        /\ operation[o].kind = "uasInfo"
        /\ \A x \in Operations : x # o => request'[x] = request[x]
    BY <1>1, <1>8 DEF TsxUnheard, ReportInv, TypeOK, RequestType
  <2>2. RequestAccounts(o, operation[o], request[o])'
    BY <1>1, <1>2, <1>3, <1>4, <1>5, <2>1 DEF RequestAccounts
  <2>3. \A c \in Calls : SameCall(call'[c], call[c])
    BY <1>8 DEF TsxUnheard, SameCall
  <2> QED
    BY <1>2, <2>1, <2>2, <2>3, RequestStepAccounts
<1> QED
  BY <1>6, <1>7, <1>8

\* The handler that sends a request reports it when it could not, and leaves it to the
\* transaction otherwise.
LEMMA RequestSentAccounts ==
    ASSUME ReportInv, AccountInv, TypeOK', NEW ok \in BOOLEAN, RequestSent(ok)
    PROVE  AccountInv'
<1>1. PICK o \in Operations : o = frame.of /\ Sending(o)
  BY FrameFacts DEF ReportInv, RequestSent, Sending
<1> DEFINE p == operation[o]
           complete == ~ok /\ p.kind # "message" /\ ~p.cleanup
           r == [request[o] EXCEPT !.sessions = IF p.sessionHeld THEN @ - 1 ELSE @]
<1>2. /\ ReportsGrow /\ frame' = NoFrame /\ UNCHANGED <<session, open, operations, calls>>
      /\ IF ok THEN request[o].tsx \in {"open", "final"} ELSE Faults(o, FALSE)
      /\ operation' = [operation EXCEPT ![o] =
                          Released(IF complete THEN CompletedOperation(p) ELSE p)]
      /\ IF complete THEN CompleteDialogOperation(o, p, request[o])
                     ELSE UNCHANGED <<request, call, inviteCalls>>
  BY <1>1 DEF RequestSent, ReportsGrow
<1>3. p \in OperationType /\ request[o] \in RequestType /\ RequestAccounts(o, p, request[o])
  BY DEF ReportInv, TypeOK, AccountInv
<1>4. \A x \in Operations : x # o => ~Sending(x)
  BY <1>1 DEF Sending
<1>5. operation'[o].kind = p.kind /\ operation'[o].finalEmitted = p.finalEmitted
  <2>1. operation'[o] = Released(IF complete THEN CompletedOperation(p) ELSE p)
    BY <1>2 DEF ReportInv, TypeOK
  <2>2. PICK q : q = IF complete THEN CompletedOperation(p) ELSE p
    OBVIOUS
  <2> HIDE DEF p
  <2>3. q \in OperationType /\ q.kind = p.kind /\ q.finalEmitted = p.finalEmitted
    BY <1>3, <2>2, CompletedFacts
  <2>4. operation'[o] = Released(q)
    BY <2>1, <2>2
  <2> QED
    BY <2>3, <2>4, ReleasedOperationFacts
<1>6. request'[o].tsx = request[o].tsx /\ request'[o].token = request[o].token
  <2>1. CASE complete
    <3>1. request'[o] = r
      BY <1>2, <2>1 DEF CompleteDialogOperation, ReportInv, TypeOK
    <3> QED
      BY <1>3, <3>1 DEF RequestType
  <2>2. CASE ~complete
    BY <1>2, <2>2
  <2> QED
    BY <2>1, <2>2
<1>7. \A x \in Operations : x # o => operation'[x] = operation[x] /\ request'[x] = request[x]
  BY <1>2 DEF CompleteDialogOperation, ReportInv, TypeOK
<1>8. \A c \in Calls : SameCall(call'[c], call[c])
  <2>1. CASE complete
    BY <1>2, <2>1, CompletesCalls
  <2>2. CASE ~complete
    BY <1>2, <2>2 DEF SameCall
  <2> QED
    BY <2>1, <2>2
<1>9. Reported(o) \/ Faults(o, FALSE) => Reported(o)'
  BY <1>2, ReportedStays DEF ReportInv
<1>10. RequestAccounts(o, operation[o], request[o])'
  BY <1>2, <1>3, <1>5, <1>6, <1>9 DEF RequestAccounts
<1> QED
  BY <1>2, <1>4, <1>5, <1>7, <1>8, <1>10, RequestStepAccounts

\* gmv_process_close_commands: what is due on the association is lost with it.
LEMMA CloseAccounts ==
    ASSUME ReportInv, AccountInv, TypeOK', NEW a \in Associations, CloseAssociation(a)
    PROVE  AccountInv'
<1> DEFINE gone == {c \in inviteCalls : call[c].assoc = a}
<1>1. /\ ReportsGrow /\ UNCHANGED <<operation, request, frame, operations>>
      /\ frame' = NoFrame /\ open' \subseteq open /\ a \notin open'
  BY DEF CloseAssociation, ReportsGrow
<1>2. ASSUME NEW c \in Calls
      PROVE  CallAccounts(call[c], session[c])' /\ SameCall(call'[c], call[c])
  <2>0. call[c] \in CallType /\ session[c] \in SessionType
    BY DEF ReportInv, TypeOK
  <2>1. CASE c \in gone
    <3> DEFINE i == [call[c] EXCEPT !.invite = FALSE]
    <3>1. /\ call'[c] = RemovedCall(c, i) /\ session'[c] = [session[c] EXCEPT !.modData = FALSE]
          /\ call[c].assoc = a
      BY <2>1 DEF CloseAssociation
    <3>2. i \in CallType /\ SameCall(i, call[c])
      BY <2>0 DEF CallType, SameCall
    <3> HIDE DEF i
    <3>3. SameCall(RemovedCall(c, i), i)
      BY <3>2, RemovedCallFacts
    <3>4. SameCall(call'[c], call[c])
      BY <3>1, <3>2, <3>3 DEF SameCall
    <3>5. session'[c].inviteTsx = session[c].inviteTsx
      BY <2>0, <3>1 DEF SessionType
    <3>6. call'[c].assoc \notin open'
      BY <1>1, <3>1, <3>4 DEF SameCall
    <3>7. session'[c].inviteTsx # "none" =>
             (call'[c].finalEmitted <=> session'[c].inviteTsx # "open")
      BY <3>4, <3>5 DEF AccountInv, CallAccounts, SameCall
    <3>8. CallAccounts(call[c], session[c])'
      BY <3>6, <3>7 DEF CallAccounts
    <3> QED
      BY <3>4, <3>8
  <2>2. CASE c \notin gone
    <3>1. SameCall(call'[c], call[c]) /\ session'[c] = session[c]
      BY <2>2 DEF CloseAssociation, SameCall
    <3> QED
      BY <1>1, <3>1, CallAccountsStill
  <2> QED
    BY <2>1, <2>2
<1>3. \A c \in Calls :
         /\ call[c].opId # 0 => call'[c].opId = call[c].opId
         /\ \A n \in Operations : call[c].dialogOp = n => call'[c].dialogOp = n \/ Reported(n)'
  BY <1>2 DEF SameCall
<1>4. \A o \in Operations : Sending(o) => Sending(o)'
  BY <1>1 DEF Sending
<1> HIDE DEF gone
<1> QED
  BY <1>1, <1>2, <1>3, <1>4, RequestsAccount, NoHandlerKnows, AccountsKept

\* Before the first operation there is nothing to account for.
LEMMA AccountInit == Init => AccountInv
<1> SUFFICES ASSUME Init PROVE AccountInv
  OBVIOUS
<1>1. ReportInv
  BY CallInit
<1>2. /\ \A c \in Calls : call[c] = NoCall /\ session[c] = NoSession
      /\ \A o \in Operations : operation[o] = NoOperation
            /\ request[o] = [tsx |-> "none", token |-> FALSE, sessions |-> 0]
      /\ operations = 0 /\ frame = NoFrame
  BY DEF Init
<1>3. \A c \in Calls : CallAccounts(call[c], session[c])
  BY <1>2, NoneFields DEF CallAccounts
<1>4. \A o \in Operations : RequestAccounts(o, operation[o], request[o])
  <2>1. ~NoOperation.finalEmitted
    BY DEF NoOperation
  <2>2. \A o \in Operations : request[o].tsx = "none"
    BY SMT, <1>2
  <2> QED
    BY <1>2, <2>1, <2>2, NoneFields DEF RequestAccounts
<1>5. 1 .. operations = {}
  BY SMT, <1>2
<1>6. HandlersKnow
  BY <1>2 DEF HandlersKnow, NoFrame
<1> QED
  BY <1>3, <1>4, <1>5, <1>6 DEF AccountInv

\* Every step keeps the accounts.
LEMMA AccountNext ==
    ASSUME ReportInv, ObjectInv, AccountInv, [Next]_vars
    PROVE  AccountInv'
<1>1. TypeOK'
  BY CallNext DEF ReportInv
<1>2. CASE Handler
  BY <1>1, <1>2, InviteSentAccounts, HandlersAccount, RequestSentAccounts DEF Handler
<1>3. CASE Application
  BY <1>1, <1>3, CommandAccounts, SendAccounts, InvitesAccount, CloseAccounts,
     HandlersAccount, EndCallAccounts DEF Application
<1>4. CASE Callback
  BY <1>1, <1>4, InvitesAccount, StateChangedAccounts, InviteTsxAccounts, EndTsxAccounts,
     RequestReportsAccounts DEF Callback
<1>5. CASE UNCHANGED vars
  BY <1>1, <1>5, CommandAccounts
<1> QED
  BY <1>2, <1>3, <1>4, <1>5 DEF Next

\* What the calls and the requests account for is every operation.
LEMMA AllAccounted ==
    ASSUME ReportInv, ObjectInv, AccountInv PROVE OperationsAccounted
<1> SUFFICES ASSUME NEW o \in 1 .. operations PROVE Accounted(o)
  BY DEF OperationsAccounted
<1>1. Stands(o)
  BY DEF AccountInv
<1>2. o \in Operations /\ o # 0
  <2>1. operations \in 0 .. MaxOperations
    BY DEF ReportInv, TypeOK
  <2> QED
    BY SMT, <2>1, CallConstants DEF Operations
<1>3. CASE operation[o].kind # "none"
  <2>1. RequestAccounts(o, operation[o], request[o])
    BY <1>2 DEF AccountInv
  <2>2. Sending(o) => frame = [at |-> "request", of |-> o]
    BY <1>2, FrameFacts DEF ReportInv
  <2> QED
    BY <1>3, <2>1, <2>2 DEF RequestAccounts, Accounted
<1>4. ASSUME NEW c \in Calls, call[c].opId = o \/ call[c].dialogOp = o
      PROVE  Accounted(o)
  <2>1. CallAccounts(call[c], session[c])
    BY DEF AccountInv
  <2>2. session[c].modData => Attached(c)
    BY ObjectsAreLive DEF Attached
  <2>3. CASE call[c].opId = o
    BY <1>2, <2>1, <2>2, <2>3 DEF CallAccounts, Accounted, InviteDue
  <2>4. CASE call[c].dialogOp = o
    BY <1>2, <2>1, <2>2, <2>4 DEF CallAccounts, Accounted, EndDue
  <2> QED
    BY <1>4, <2>3, <2>4
<1> QED
  BY <1>1, <1>3, <1>4 DEF Stands, Accounted

-----------------------------------------------------------------------------
(* Calls that have ended.                                                    *)

\* A call whose session has ended is still listed only while something is to come that
\* will remove it: the failure of its INVITE, or the answer to its BYE or CANCEL; or a
\* BYE has answered it, or freed memory was read.
EndedCallsAwaited ==
    misread = 0 =>
        \A c \in inviteCalls : session[c].state = "disconnected" =>
            /\ Attached(c)
            /\ InviteDue(c) \/ (call[c].dialogOp # 0 /\ EndDue(c)) \/ AnsweredByBye(c)

\* A session that knows its call has an open association, and when it ends the INVITE or
\* the BYE of the call is not yet reported or a BYE has answered it; an incoming call has
\* no INVITE to report.
Awaits(k, s) ==
    s.modData =>
        /\ k.assoc \in open
        /\ s.inviteTsx = "none" => k.finalEmitted
        /\ s.state = "disconnected" =>
              ~k.finalEmitted \/ k.dialogOp # 0 \/ s.answeredBy # 0

\* A listed call that no session knows is of a restored dialog, which has none to end,
\* and the BYE that a handler sends is not waiting.
AwaitInv ==
    /\ \A c \in Calls :
          /\ Awaits(call[c], session[c])
          /\ c \in inviteCalls => session[c].modData \/ session[c].state # "disconnected"
    /\ frame.at = "end" => ~session[frame.of].deferred

\* A step that leaves a call to itself, or leaves it as it should be
LEMMA AwaitsKept ==
    ASSUME AwaitInv, UNCHANGED open,
           \A c \in Calls :
              \/ /\ SameCall(call'[c], call[c]) /\ session'[c] = session[c]
                 /\ c \in inviteCalls' => c \in inviteCalls
              \/ /\ Awaits(call[c], session[c])'
                 /\ c \in inviteCalls' =>
                       session'[c].modData \/ session'[c].state # "disconnected",
           frame'.at = "end" => ~session'[frame'.of].deferred
    PROVE  AwaitInv'
<1>1. ASSUME NEW c \in Calls
      PROVE  /\ Awaits(call[c], session[c])'
             /\ c \in inviteCalls' => session'[c].modData \/ session'[c].state # "disconnected"
  <2>1. CASE /\ SameCall(call'[c], call[c]) /\ session'[c] = session[c]
             /\ c \in inviteCalls' => c \in inviteCalls
    BY <2>1 DEF AwaitInv, Awaits, SameCall
  <2> QED
    BY <2>1
<1> QED
  BY <1>1 DEF AwaitInv

\* ... any step that leaves the sessions to themselves, between two handlers of a BYE
LEMMA OthersAwait ==
    ASSUME AwaitInv, UNCHANGED <<open, session>>, inviteCalls' \subseteq inviteCalls,
           \A c \in Calls : SameCall(call'[c], call[c]),
           frame' = frame \/ frame'.at # "end"
    PROVE  AwaitInv'
<1>1. frame'.at = "end" => ~session'[frame'.of].deferred
  BY DEF AwaitInv
<1> QED
  BY <1>1, AwaitsKept

\* A new call has a session that has not ended, or none.
LEMMA NewCallsAwait ==
    ASSUME ReportInv, AwaitInv, NEW a \in Associations,
           SendInvite(a) \/ IncomingInvite(a) \/ SendRestored(a)
    PROVE  AwaitInv'
<1>1. PICK c \in Calls : c = calls + 1
  BY SMT, CallConstants DEF ReportInv, TypeOK, Calls, SendInvite, IncomingInvite, SendRestored
<1>2. c > calls
  BY SMT, <1>1 DEF ReportInv, TypeOK
<1>3. session[c] = NoSession /\ ~NoSession.modData /\ NoSession.state # "disconnected"
  BY <1>2 DEF ReportInv, FreshInv, NoSession
<1>4. /\ UNCHANGED open /\ a \in open /\ frame'.at # "end"
      /\ inviteCalls' = inviteCalls \cup {c}
      /\ \A d \in Calls : d # c => call'[d] = call[d] /\ session'[d] = session[d]
  <2>1. CASE SendInvite(a)
    BY SMT, <1>1, <2>1 DEF SendInvite, ReportInv, TypeOK
  <2>2. CASE IncomingInvite(a)
    BY SMT, <1>1, <2>2 DEF IncomingInvite, ReportInv, TypeOK, NoFrame
  <2>3. CASE SendRestored(a)
    BY SMT, <1>1, <2>3 DEF SendRestored, BeginRequest, ReportInv, TypeOK
  <2> QED
    BY <2>1, <2>2, <2>3
<1>5. /\ Awaits(call[c], session[c])'
      /\ session'[c].modData \/ session'[c].state # "disconnected"
  <2>1. CASE SendInvite(a)
    <3>1. /\ call'[c].assoc = a /\ session'[c].modData
          /\ session'[c].inviteTsx = "open" /\ session'[c].state = "early"
      BY SMT, <1>1, <2>1 DEF SendInvite, ReportInv, TypeOK, NoCall, NoSession
    <3> QED
      BY <1>4, <3>1 DEF Awaits
  <2>2. CASE IncomingInvite(a)
    <3>1. /\ call'[c].assoc = a /\ session'[c].modData /\ call'[c].finalEmitted
          /\ session'[c].state = "early"
      BY SMT, <1>1, <2>2 DEF IncomingInvite, ReportInv, TypeOK, NoCall, NoSession
    <3> QED
      BY <1>4, <3>1 DEF Awaits
  <2>3. CASE SendRestored(a)
    <3>1. session'[c] = NoSession
      BY <1>3, <2>3 DEF SendRestored, BeginRequest
    <3> QED
      BY <1>3, <3>1 DEF Awaits
  <2> QED
    BY <2>1, <2>2, <2>3
<1>6. \A d \in Calls : d # c =>
         /\ SameCall(call'[d], call[d]) /\ session'[d] = session[d]
         /\ d \in inviteCalls' => d \in inviteCalls
  BY <1>4 DEF SameCall
<1> QED
  BY <1>4, <1>5, <1>6, AwaitsKept

\* What the callbacks leave of a call: k, with session s, which is dropped or not
LEMMA CallbackAwaits ==
    ASSUME ReportInv, AwaitInv, NEW c \in Calls, session[c].modData,
           NEW k \in CallType, NEW s \in SessionType, s.modData, NEW drop \in BOOLEAN,
           IF drop THEN DropCall(c, k, s)
           ELSE /\ call' = [call EXCEPT ![c] = k] /\ session' = [session EXCEPT ![c] = s]
                /\ UNCHANGED inviteCalls,
           UNCHANGED <<open, frame>>, k.assoc = call[c].assoc, s.deferred => session[c].deferred,
           ~drop => /\ s.inviteTsx = "none" => k.finalEmitted
                    /\ s.state = "disconnected" =>
                          ~k.finalEmitted \/ k.dialogOp # 0 \/ s.answeredBy # 0
    PROVE  AwaitInv'
<1>1. call \in [Calls -> CallType] /\ session \in [Calls -> SessionType]
  BY DEF ReportInv, TypeOK
<1>2. \A d \in Calls : d # c => call'[d] = call[d] /\ session'[d] = session[d]
  BY <1>1 DEF DropCall
<1>3. inviteCalls' \subseteq inviteCalls /\ (drop => c \notin inviteCalls')
  BY DEF DropCall
<1>4. session'[c].deferred = s.deferred /\ (drop => ~session'[c].modData)
  <2>1. CASE drop
    <3>1. session'[c] = [s EXCEPT !.modData = FALSE]
      BY <1>1, <2>1 DEF DropCall
    <3> QED
      BY <3>1 DEF SessionType
  <2>2. CASE ~drop
    BY <1>1, <2>2
  <2> QED
    BY <2>1, <2>2
<1>5. /\ Awaits(call[c], session[c])'
      /\ c \in inviteCalls' => session'[c].modData \/ session'[c].state # "disconnected"
  <2>1. CASE drop
    BY <1>3, <1>4, <2>1 DEF Awaits
  <2>2. CASE ~drop
    <3>1. call'[c] = k /\ session'[c] = s
      BY <1>1, <2>2
    <3>2. k.assoc \in open'
      BY DEF AwaitInv, Awaits
    <3> QED
      BY <2>2, <3>1, <3>2 DEF Awaits
  <2> QED
    BY <2>1, <2>2
<1>6. \A d \in Calls : d # c =>
         /\ SameCall(call'[d], call[d]) /\ session'[d] = session[d]
         /\ d \in inviteCalls' => d \in inviteCalls
  BY <1>2, <1>3 DEF SameCall
<1>7. frame'.at = "end" => ~session'[frame'.of].deferred
  <2>1. frame.at = "end" => frame.of \in Calls
    BY FrameFacts DEF ReportInv, CallFrames
  <2> QED
    BY <1>2, <1>4, <2>1 DEF AwaitInv
<1> QED
  BY <1>5, <1>6, <1>7, AwaitsKept

\* gmv_invite_on_state_changed drops the call of a session that ends with all reported.
LEMMA StateChangedAwaits ==
    ASSUME ReportInv, AwaitInv, NEW c \in Calls,
           NEW to \in {"confirmed", "disconnected"}, InviteStateChanged(c, to)
    PROVE  AwaitInv'
<1> DEFINE s == [session[c] EXCEPT !.state = to]
           drop == to = "disconnected" /\ call[c].finalEmitted /\ call[c].dialogOp = 0
<1>1. call[c] \in CallType /\ session[c] \in SessionType /\ session[c].modData
  BY DEF ReportInv, TypeOK, InviteStateChanged
<1>2. /\ s \in SessionType /\ s.modData /\ s.state = to
      /\ s.inviteTsx = session[c].inviteTsx /\ s.deferred = session[c].deferred
  BY <1>1 DEF SessionType
<1>3. UNCHANGED <<open, frame>>
  BY DEF InviteStateChanged
<1>4. IF drop THEN DropCall(c, call[c], s)
      ELSE /\ call' = [call EXCEPT ![c] = call[c]] /\ session' = [session EXCEPT ![c] = s]
           /\ UNCHANGED inviteCalls
  BY DEF InviteStateChanged, ReportInv, TypeOK
<1>5. session[c].inviteTsx = "none" => call[c].finalEmitted
  BY <1>1 DEF AwaitInv, Awaits
<1> HIDE DEF s
<1>6. ~drop => /\ s.inviteTsx = "none" => call[c].finalEmitted
               /\ s.state = "disconnected" => ~call[c].finalEmitted \/ call[c].dialogOp # 0
  BY <1>2, <1>5
<1>7. drop \in BOOLEAN
  OBVIOUS
<1> HIDE DEF drop
<1> QED
  BY <1>1, <1>2, <1>3, <1>4, <1>6, <1>7, CallbackAwaits

\* gmv_invite_on_tsx_state_changed drops it with the failure of the INVITE, which finds
\* the session ended.
LEMMA InviteTsxAwaits ==
    ASSUME ReportInv, AccountInv, AwaitInv, NEW c \in Calls,
           NEW code \in {"1xx", "2xx", "failed"}, InviteTsxState(c, code)
    PROVE  AwaitInv'
<1> DEFINE t == session[c]
           s == AfterInviteReport(t, code)
           first == code # "1xx" /\ ~call[c].finalEmitted
           drop == first /\ s.state = "disconnected"
           l == [call[c] EXCEPT !.finalEmitted = TRUE]
           k == IF first THEN l ELSE call[c]
<1>1. call[c] \in CallType /\ t \in SessionType /\ t.modData /\ InviteReports(c, code)
  BY DEF ReportInv, TypeOK, InviteTsxState
<1>2. s \in SessionType /\ s.modData
  BY <1>1, AfterReportFacts
<1>3. /\ s.inviteTsx = (IF code = "1xx" THEN t.inviteTsx ELSE code)
      /\ s.deferred => t.deferred
      /\ s.answeredBy = t.answeredBy
      /\ s.state = (IF code = "2xx" /\ t.state = "early" THEN "confirmed" ELSE t.state)
  BY <1>1 DEF AfterInviteReport, SessionType
<1>4. /\ l \in CallType /\ l.dialogOp = call[c].dialogOp
      /\ l.assoc = call[c].assoc /\ l.finalEmitted
  BY <1>1 DEF CallType
<1>5. /\ k \in CallType /\ k.dialogOp = call[c].dialogOp
      /\ k.assoc = call[c].assoc /\ (k.finalEmitted <=> call[c].finalEmitted \/ code # "1xx")
  BY <1>1, <1>4
<1>6. UNCHANGED <<open, frame>>
  BY DEF InviteTsxState
<1>7. IF drop THEN DropCall(c, k, s)
      ELSE /\ call' = [call EXCEPT ![c] = k] /\ session' = [session EXCEPT ![c] = s]
           /\ UNCHANGED inviteCalls
  <2>1. CASE first
    BY <2>1 DEF InviteTsxState, ReportInv, TypeOK
  <2>2. CASE ~first
    <3>1. session' = [session EXCEPT ![c] = s] /\ call' = call /\ UNCHANGED inviteCalls
      BY <2>2 DEF InviteTsxState
    <3>2. call' = [call EXCEPT ![c] = call[c]]
      BY <3>1 DEF ReportInv, TypeOK
    <3> QED
      BY <2>2, <3>1, <3>2
  <2> QED
    BY <2>1, <2>2
<1>8. CallAccounts(call[c], t) /\ Awaits(call[c], t)
  BY DEF AccountInv, AwaitInv
<1>9. \/ t.inviteTsx = "open" /\ (code = "failed" <=> t.state = "disconnected")
      \/ t.inviteTsx = code
  BY <1>1 DEF InviteReports
<1>10. t.inviteTsx # "none" /\ t.inviteTsx # "1xx" /\ (call[c].finalEmitted <=> t.inviteTsx # "open")
  <2>1. t.inviteTsx # "none" /\ t.inviteTsx # "1xx"
    BY SMT, <1>1, <1>9 DEF SessionType
  <2> QED
    BY <1>8, <2>1 DEF CallAccounts
<1> HIDE DEF s, l, k, t
<1>11. s.inviteTsx # "none"
  BY <1>3, <1>10
<1>12. ~drop /\ s.state = "disconnected" =>
          ~k.finalEmitted \/ k.dialogOp # 0 \/ s.answeredBy # 0
  <2>1. t.state = "disconnected" =>
           ~call[c].finalEmitted \/ call[c].dialogOp # 0 \/ t.answeredBy # 0
    BY <1>1, <1>8 DEF Awaits
  <2>2. s.state = "disconnected" => t.state = "disconnected"
    BY <1>3
  <2> QED
    BY <1>3, <1>5, <2>1, <2>2
<1>13. drop \in BOOLEAN
  OBVIOUS
<1>14. t = session[c]
  BY DEF t
<1> HIDE DEF drop, first
<1> QED
  BY <1>1, <1>2, <1>3, <1>5, <1>6, <1>7, <1>11, <1>12, <1>13, <1>14, CallbackAwaits

\* ... and with the answer to a BYE or CANCEL that is under way.
LEMMA EndTsxAwaits ==
    ASSUME ReportInv, AwaitInv, NEW c \in Calls, NEW again \in BOOLEAN, EndTsxState(c, again)
    PROVE  AwaitInv'
<1> DEFINE t == session[c]
           s == IF again THEN [t EXCEPT !.endDone = FALSE]
                         ELSE [t EXCEPT !.endDone = TRUE, !.ends = @ - 1]
           drop == call[c].dialogOp # 0 /\ s.state = "disconnected"
           l == [call[c] EXCEPT !.dialogOp = 0]
<1>1. /\ call[c] \in CallType /\ t \in SessionType /\ t.modData
      /\ again \/ t.ends > 0
  BY DEF ReportInv, TypeOK, EndTsxState
<1>2. /\ s \in SessionType /\ s.modData /\ s.state = t.state /\ s.inviteTsx = t.inviteTsx
      /\ s.deferred = t.deferred /\ s.answeredBy = t.answeredBy
  <2>1. CASE again
    <3>1. s = [t EXCEPT !.endDone = FALSE]
      BY <2>1
    <3> HIDE DEF s, t
    <3> QED
      BY <1>1, <3>1 DEF SessionType
  <2>2. CASE ~again
    <3> HIDE DEF t
    <3>1. PICK n \in 0 .. MaxOperations : n = t.ends - 1
      BY SMT, <1>1, <2>2, CallConstants DEF SessionType
    <3>2. s = [t EXCEPT !.endDone = TRUE, !.ends = n]
      BY <2>2, <3>1
    <3> HIDE DEF s
    <3> QED
      BY <1>1, <3>2 DEF SessionType
  <2> QED
    BY <2>1, <2>2
<1>3. /\ l \in CallType /\ l.dialogOp = 0 /\ l.assoc = call[c].assoc
      /\ l.finalEmitted = call[c].finalEmitted
  BY SMT, <1>1, CallConstants DEF CallType
<1>4. UNCHANGED <<open, frame>>
  BY DEF EndTsxState
<1>5. IF drop THEN DropCall(c, l, s)
      ELSE /\ call' = [call EXCEPT ![c] = l] /\ session' = [session EXCEPT ![c] = s]
           /\ UNCHANGED inviteCalls
  <2>1. CASE call[c].dialogOp # 0
    BY <2>1 DEF EndTsxState, ReportInv, TypeOK
  <2>2. CASE call[c].dialogOp = 0
    <3>1. session' = [session EXCEPT ![c] = s] /\ call' = call /\ UNCHANGED inviteCalls
      BY <2>2 DEF EndTsxState
    <3>2. l = call[c]
      BY SMT, <1>1, <2>2 DEF CallType
    <3>3. call' = [call EXCEPT ![c] = call[c]]
      BY <3>1 DEF ReportInv, TypeOK
    <3> HIDE DEF l
    <3> QED
      BY <2>2, <3>1, <3>2, <3>3
  <2> QED
    BY <2>1, <2>2
<1>6. Awaits(call[c], t) /\ t = session[c]
  BY DEF AwaitInv
<1> HIDE DEF s, l, t
<1>7. s.inviteTsx = "none" => l.finalEmitted
  BY <1>1, <1>2, <1>3, <1>6 DEF Awaits
<1>8. ~drop /\ s.state = "disconnected" => ~l.finalEmitted \/ s.answeredBy # 0
  BY <1>1, <1>2, <1>3, <1>6 DEF Awaits
<1>9. drop \in BOOLEAN
  OBVIOUS
<1> HIDE DEF drop
<1> QED
  BY <1>1, <1>2, <1>3, <1>4, <1>5, <1>6, <1>7, <1>8, <1>9, CallbackAwaits

\* A BYE or CANCEL is begun on a session that has not ended.
LEMMA EndCallAwaits ==
    ASSUME ReportInv, AwaitInv, NEW c \in Calls,
           NEW how \in {"waits", "sends", "answers"}, EndCall(c, how)
    PROVE  AwaitInv'
<1>1. /\ session[c].state # "disconnected" /\ UNCHANGED <<open, inviteCalls>>
      /\ frame' = IF how = "waits" THEN NoFrame ELSE [at |-> "end", of |-> c]
  BY DEF EndCall
<1>2. call[c] \in CallType /\ session[c] \in SessionType
  BY DEF ReportInv, TypeOK
<1>3. call'[c].assoc = call[c].assoc /\ call'[c].finalEmitted = call[c].finalEmitted
  BY SMT, <1>2 DEF EndCall, ReportInv, TypeOK, CallType
<1>4. /\ session'[c].modData = session[c].modData /\ session'[c].state = session[c].state
      /\ session'[c].inviteTsx = session[c].inviteTsx /\ session'[c].deferred = (how = "waits")
  BY SMT, <1>2 DEF EndCall, ReportInv, TypeOK, SessionType
<1>5. \A d \in Calls : d # c => SameCall(call'[d], call[d]) /\ session'[d] = session[d]
  BY DEF EndCall, ReportInv, TypeOK, SameCall
<1>6. Awaits(call[c], session[c])'
  BY <1>1, <1>3, <1>4 DEF AwaitInv, Awaits
<1>7. frame'.at = "end" => ~session'[frame'.of].deferred
  <2>1. CASE how = "waits"
    BY <1>1, <2>1 DEF NoFrame
  <2>2. CASE how # "waits"
    <3>1. frame'.of = c
      BY SMT, <1>1, <2>2
    <3> QED
      BY <1>4, <2>2, <3>1
  <2> QED
    BY <2>1, <2>2
<1> QED
  BY <1>1, <1>4, <1>5, <1>6, <1>7, AwaitsKept

\* The handler of a BYE that could not be sent clears an operation that the session no
\* longer waits for; the handler of an INVITE drops the call.
LEMMA SentAwaits ==
    ASSUME ReportInv, AccountInv, AwaitInv, NEW ok \in BOOLEAN, InviteSent(ok) \/ EndSent(ok)
    PROVE  AwaitInv'
<1>1. PICK c \in Calls : c = frame.of /\ frame.at \in {"invite", "end"}
  BY FrameFacts DEF ReportInv, InviteSent, EndSent, CallFrames
<1>2. UNCHANGED open /\ frame' = NoFrame /\ frame'.at # "end"
  <2>1. UNCHANGED open /\ frame' = NoFrame
    BY DEF InviteSent, EndSent
  <2> QED
    BY <2>1 DEF NoFrame
<1>3. call \in [Calls -> CallType] /\ session \in [Calls -> SessionType]
  BY DEF ReportInv, TypeOK
<1>4. /\ \A d \in Calls : d # c => call'[d] = call[d] /\ session'[d] = session[d]
      /\ inviteCalls' \subseteq inviteCalls
  BY <1>1, <1>3 DEF InviteSent, EndSent
<1>5. \A d \in Calls : d # c =>
         /\ SameCall(call'[d], call[d]) /\ session'[d] = session[d]
         /\ d \in inviteCalls' => d \in inviteCalls
  BY <1>4 DEF SameCall
<1>6. SameCall(Released(call[c]), call[c])
  BY <1>3, ReleasedCallFacts
<1>7. CASE call'[c] = Released(call[c]) /\ session'[c] = session[c]
  BY <1>2, <1>4, <1>5, <1>6, <1>7, AwaitsKept
<1>8. CASE InviteSent(ok) /\ ~ok /\ ~call[c].cleanup
  <2>1. session'[c] = [session[c] EXCEPT !.modData = FALSE] /\ c \notin inviteCalls'
    BY <1>1, <1>3, <1>8 DEF InviteSent
  <2>2. ~session'[c].modData
    BY <1>3, <2>1 DEF SessionType
  <2>3. Awaits(call[c], session[c])'
    BY <2>2 DEF Awaits
  <2> QED
    BY <1>2, <1>5, <2>1, <2>3, AwaitsKept
<1>9. CASE EndSent(ok) /\ ~ok
  <2>1. /\ frame.at = "end" /\ session[c].ends = 0 /\ UNCHANGED <<session, inviteCalls>>
        /\ call'[c] = Released([call[c] EXCEPT !.dialogOp = 0])
    BY <1>1, <1>3, <1>9 DEF EndSent
  <2>2. ~(session[c].ends > 0) /\ ~session[c].deferred
    <3>1. ~(session[c].ends > 0)
      BY SMT, <2>1
    <3> QED
      BY <1>1, <2>1, <3>1 DEF AwaitInv
  <2>3. CallAccounts(call[c], session[c]) /\ Awaits(call[c], session[c])
    BY DEF AccountInv, AwaitInv
  <2>4. session[c].modData => call[c].dialogOp = 0 \/ session[c].answeredBy # 0
    BY <2>2, <2>3 DEF CallAccounts, Awaits
  <2> DEFINE l == [call[c] EXCEPT !.dialogOp = 0]
  <2>5. l \in CallType /\ l.assoc = call[c].assoc /\ l.finalEmitted = call[c].finalEmitted
    BY SMT, <1>3, CallConstants DEF CallType
  <2>6. call'[c] = Released(l)
    BY <2>1
  <2> HIDE DEF l
  <2>7. call'[c].assoc = call[c].assoc /\ call'[c].finalEmitted = call[c].finalEmitted
    BY <2>5, <2>6, ReleasedCallFacts DEF SameCall
  <2>8. Awaits(call[c], session[c])'
    BY <1>2, <2>1, <2>3, <2>4, <2>7 DEF Awaits
  <2>9. c \in inviteCalls' => session'[c].modData \/ session'[c].state # "disconnected"
    BY <2>1 DEF AwaitInv
  <2> QED
    BY <1>2, <1>5, <2>8, <2>9, AwaitsKept
<1> QED
  <2>1. CASE InviteSent(ok) /\ (ok \/ call[c].cleanup)
    BY <1>1, <1>3, <1>7, <2>1 DEF InviteSent
  <2>2. CASE EndSent(ok) /\ ok
    BY <1>1, <1>3, <1>7, <2>2 DEF EndSent
  <2> QED
    BY <1>8, <1>9, <2>1, <2>2

\* gmv_process_close_commands drops every call of the association.
LEMMA CloseAwaits ==
    ASSUME ReportInv, ObjectInv, AwaitInv, NEW a \in Associations, CloseAssociation(a)
    PROVE  AwaitInv'
<1> DEFINE gone == {c \in inviteCalls : call[c].assoc = a}
<1>1. open' = open \ {a} /\ inviteCalls' = inviteCalls \ gone /\ frame' = NoFrame
  BY DEF CloseAssociation
<1>2. ASSUME NEW c \in Calls
      PROVE  /\ Awaits(call[c], session[c])'
             /\ c \in inviteCalls' => session'[c].modData \/ session'[c].state # "disconnected"
  <2>1. CASE c \in gone
    <3>1. session'[c] = [session[c] EXCEPT !.modData = FALSE]
      BY <2>1 DEF CloseAssociation
    <3>2. ~session'[c].modData
      BY <3>1 DEF ReportInv, TypeOK, SessionType
    <3> QED
      BY <1>1, <2>1, <3>2 DEF Awaits
  <2>2. CASE c \notin gone
    <3>1. call'[c] = call[c] /\ session'[c] = session[c]
      BY <2>2 DEF CloseAssociation
    <3>2. session[c].modData => c \in inviteCalls
      BY ObjectsAreLive
    <3>3. session[c].modData => call[c].assoc \in open'
      BY <1>1, <2>2, <3>2 DEF AwaitInv, Awaits
    <3> QED
      BY <1>1, <3>1, <3>3 DEF AwaitInv, Awaits
  <2> QED
    BY <2>1, <2>2
<1>3. frame'.at # "end"
  BY <1>1 DEF NoFrame
<1> HIDE DEF gone
<1> QED
  BY <1>2, <1>3 DEF AwaitInv

\* The steps that concern no session
LEMMA RequestsAwait ==
    ASSUME ReportInv, AwaitInv,
           \/ CommandFails \/ SendMessage \/ AnswerSent \/ UNCHANGED vars
           \/ \E c \in Calls : AnswerCall(c) \/ SendInfo(c) \/ UseFreedSession(c)
           \/ \E ok \in BOOLEAN : RequestSent(ok)
           \/ \E o \in Operations, status \in BOOLEAN :
                 OutboundCallback(o, status) \/ OnTsxState(o, status) \/ TsxUnheard(o, status)
    PROVE  AwaitInv'
<1>0. UNCHANGED <<open, session>>
  BY DEF CommandFails, SendMessage, SendInfo, BeginRequest, AnswerSent, AnswerCall, RequestSent,
         OutboundCallback, OnTsxState, TsxUnheard, UseFreedSession, vars
<1>1. CASE CommandFails \/ UNCHANGED vars \/ \E c \in Calls : UseFreedSession(c)
  <2>1. UNCHANGED <<call, inviteCalls, frame>>
    BY <1>1 DEF CommandFails, UseFreedSession, vars
  <2> QED
    BY <1>0, <2>1, OthersAwait DEF SameCall
<1>2. CASE SendMessage \/ \E c \in Calls : SendInfo(c)
  <2>1. UNCHANGED <<call, inviteCalls>> /\ frame' = [at |-> "request", of |-> operations + 1]
    BY <1>2 DEF SendMessage, SendInfo, BeginRequest
  <2>2. frame'.at # "end"
    BY <2>1
  <2> QED
    BY <1>0, <2>1, <2>2, OthersAwait DEF SameCall
<1>3. CASE AnswerSent \/ \E c \in Calls : AnswerCall(c)
  <2>1. \A c \in Calls : SameCall(call'[c], call[c])
    <3>1. ASSUME NEW c \in Calls, AnswerCall(c), NEW d \in Calls
          PROVE  SameCall(call'[d], call[d])
      BY SMT, <3>1 DEF AnswerCall, ReportInv, TypeOK, CallType, SameCall
    <3>2. ASSUME AnswerSent, NEW d \in Calls PROVE SameCall(call'[d], call[d])
      <4>1. call[d] \in CallType /\ (call'[d] = Released(call[d]) \/ call'[d] = call[d])
        BY <3>2 DEF AnswerSent, ReportInv, TypeOK
      <4> QED
        BY <4>1, ReleasedCallFacts DEF SameCall
    <3> QED
      BY <1>3, <3>1, <3>2
  <2>2. UNCHANGED inviteCalls /\ frame'.at # "end"
    <3>1. /\ UNCHANGED inviteCalls
          /\ frame' = NoFrame \/ \E c \in Calls : frame' = [at |-> "answer", of |-> c]
      BY <1>3 DEF AnswerSent, AnswerCall
    <3>2. NoFrame.at # "end" /\ \A c \in Calls : [at |-> "answer", of |-> c].at # "end"
      BY SMT DEF NoFrame
    <3> QED
      BY <3>1, <3>2
  <2> QED
    BY <1>0, <2>1, <2>2, OthersAwait
<1>4. CASE \E ok \in BOOLEAN : RequestSent(ok)
  <2>1. PICK ok \in BOOLEAN : RequestSent(ok)
    BY <1>4
  <2>2. PICK o \in Operations : o = frame.of
    BY <2>1, FrameFacts DEF ReportInv, RequestSent
  <2>3. /\ frame' = NoFrame /\ UNCHANGED calls
        /\ \/ CompleteDialogOperation(o, operation[o], request[o])
           \/ UNCHANGED <<call, inviteCalls>>
    BY <2>1, <2>2 DEF RequestSent
  <2>4. inviteCalls' \subseteq inviteCalls /\ \A c \in Calls : SameCall(call'[c], call[c])
    <3>1. CASE CompleteDialogOperation(o, operation[o], request[o])
      BY <2>3, <3>1, CompletesCalls
    <3> QED
      BY <2>3, <3>1 DEF SameCall
  <2>5. frame'.at # "end"
    BY <2>3 DEF NoFrame
  <2> QED
    BY <1>0, <2>4, <2>5, OthersAwait
<1>5. CASE \E o \in Operations, status \in BOOLEAN :
              OutboundCallback(o, status) \/ OnTsxState(o, status) \/ TsxUnheard(o, status)
  <2>1. PICK o \in Operations, status \in BOOLEAN :
           OutboundCallback(o, status) \/ OnTsxState(o, status) \/ TsxUnheard(o, status)
    BY <1>5
  <2>2. frame' = frame
    BY <2>1 DEF OutboundCallback, OnTsxState, TsxUnheard
  <2>3. inviteCalls' \subseteq inviteCalls /\ \A c \in Calls : SameCall(call'[c], call[c])
    <3>1. CASE OutboundCallback(o, status) \/ TsxUnheard(o, status)
      BY <3>1 DEF OutboundCallback, TsxUnheard, SameCall
    <3>2. CASE OnTsxState(o, status)
      <4>1. /\ UNCHANGED calls
            /\ \E r : CompleteDialogOperation(o, operation[o], r)
        BY <3>2 DEF OnTsxState
      <4> QED
        BY <4>1, CompletesCalls
    <3> QED
      BY <2>1, <3>1, <3>2
  <2> QED
    BY <1>0, <2>2, <2>3, OthersAwait
<1> QED
  BY <1>1, <1>2, <1>3, <1>4, <1>5

\* Every step keeps what a call that has ended waits for.
LEMMA AwaitNext ==
    ASSUME ReportInv, ObjectInv, AccountInv, AwaitInv, [Next]_vars
    PROVE  AwaitInv'
<1>1. CASE Handler
  BY <1>1, SentAwaits, RequestsAwait DEF Handler
<1>2. CASE Application
  BY <1>2, RequestsAwait, NewCallsAwait, CloseAwaits, EndCallAwaits DEF Application
<1>3. CASE Callback
  BY <1>3, NewCallsAwait, StateChangedAwaits, InviteTsxAwaits, EndTsxAwaits, RequestsAwait
     DEF Callback
<1>4. CASE UNCHANGED vars
  BY <1>4, RequestsAwait
<1> QED
  BY <1>1, <1>2, <1>3, <1>4 DEF Next

-----------------------------------------------------------------------------
(* Freed memory.                                                             *)

\* Freed memory is first read through the restored call of an operation, or through a
\* listed call whose session is gone.
LEMMA MisreadNext ==
    ASSUME ReportInv, [Next]_vars, misread' # misread
    PROVE  /\ misread = 0
           /\ \/ \E o \in Operations : /\ Freed(operation[o].restoredCall)
                                       /\ misread' = operation[o].restoredCall
              \/ \E c \in inviteCalls : /\ call[c].invite /\ ~SessionLives(c)
                                        /\ misread' = c
<1>1. ASSUME NEW o \in Operations, NEW r, CompleteDialogOperation(o, operation[o], r)
      PROVE  /\ misread = 0 /\ Freed(operation[o].restoredCall)
             /\ misread' = operation[o].restoredCall
  BY <1>1 DEF CompleteDialogOperation, Misread
<1>2. ASSUME NEW ok \in BOOLEAN, RequestSent(ok)
      PROVE  \E o \in Operations : \E r : CompleteDialogOperation(o, operation[o], r)
  <2>1. frame.of \in Operations
    BY <1>2, FrameFacts DEF RequestSent, ReportInv
  <2> QED
    BY <1>2, <2>1 DEF RequestSent
<1>3. CASE Handler
  BY <1>1, <1>2, <1>3 DEF Handler, InviteSent, EndSent, AnswerSent
<1>4. ASSUME NEW c \in Calls, SendInfo(c) \/ UseFreedSession(c)
      PROVE  /\ misread = 0
             /\ c \in inviteCalls /\ call[c].invite /\ ~SessionLives(c) /\ misread' = c
  BY <1>4 DEF SendInfo, UseFreedSession, Misread
<1>5. ASSUME NEW a \in Associations, CloseAssociation(a)
      PROVE  /\ misread = 0
             /\ \E c \in inviteCalls : call[c].invite /\ ~SessionLives(c) /\ misread' = c
  BY <1>5 DEF CloseAssociation, Misread
<1>6. CASE Application
  BY <1>4, <1>5, <1>6 DEF Application, CommandFails, SendMessage, SendInvite, SendRestored,
     AnswerCall, EndCall
<1>7. CASE Callback
  <2>1. ASSUME NEW o \in Operations, NEW status \in BOOLEAN, OnTsxState(o, status)
        PROVE  \E r : CompleteDialogOperation(o, operation[o], r)
    BY <2>1 DEF OnTsxState
  <2> QED
    BY <1>1, <1>7, <2>1 DEF Callback, IncomingInvite, InviteStateChanged, InviteTsxState,
       EndTsxState, OutboundCallback, TsxUnheard
<1> QED
  BY <1>3, <1>6, <1>7 DEF Next, vars

\* What a call that is not new keeps: whom it is for, and that a BYE has answered it.
Lasts(c) ==
    /\ call'[c].kind = call[c].kind /\ call'[c].assoc = call[c].assoc
    /\ session[c].answeredBy # 0 => session'[c].answeredBy # 0

\* The steps of one call and its session
LEMMA CallStepsLast ==
    ASSUME ReportInv, NEW c \in Calls, NEW b \in Calls,
           \/ \E to \in {"confirmed", "disconnected"} : InviteStateChanged(b, to)
           \/ \E code \in {"1xx", "2xx", "failed"} : InviteTsxState(b, code)
           \/ \E again \in BOOLEAN : EndTsxState(b, again)
           \/ \E how \in {"waits", "sends", "answers"} : EndCall(b, how)
    PROVE  Lasts(c) /\ UNCHANGED open
<1>1. UNCHANGED open
  BY DEF InviteStateChanged, InviteTsxState, EndTsxState, EndCall
<1>2. call \in [Calls -> CallType] /\ session \in [Calls -> SessionType]
  BY DEF ReportInv, TypeOK
<1>3. ASSUME NEW k \in CallType, NEW s \in SessionType,
             k.kind = call[b].kind, k.assoc = call[b].assoc,
             s.answeredBy = session[b].answeredBy,
             \/ DropCall(b, k, s)
             \/ call' = [call EXCEPT ![b] = k] /\ session' = [session EXCEPT ![b] = s]
      PROVE  Lasts(c)
  <2>1. CASE DropCall(b, k, s)
    <3> DEFINE l == [k EXCEPT !.invite = FALSE]
    <3>1. l \in CallType /\ SameCall(l, k)
      BY DEF CallType, SameCall
    <3>2. /\ call' = [call EXCEPT ![b] = RemovedCall(b, l)]
          /\ session' = [session EXCEPT ![b] = [s EXCEPT !.modData = FALSE]]
      BY <2>1 DEF DropCall
    <3> HIDE DEF l
    <3>3. SameCall(RemovedCall(b, l), l)
      BY <3>1, RemovedCallFacts
    <3>4. [s EXCEPT !.modData = FALSE].answeredBy = s.answeredBy
      BY DEF SessionType
    <3> QED
      BY <1>2, <1>3, <3>1, <3>2, <3>3, <3>4 DEF SameCall, Lasts
  <2>2. CASE call' = [call EXCEPT ![b] = k] /\ session' = [session EXCEPT ![b] = s]
    BY <1>2, <1>3, <2>2 DEF Lasts
  <2> QED
    BY <1>3, <2>1, <2>2
<1>4. call[b] \in CallType /\ session[b] \in SessionType /\ call = [call EXCEPT ![b] = call[b]]
  BY Unchanged
<1>5. ASSUME NEW to \in {"confirmed", "disconnected"}, InviteStateChanged(b, to)
      PROVE  Lasts(c)
  <2> DEFINE s == [session[b] EXCEPT !.state = to]
  <2>1. s \in SessionType /\ s.answeredBy = session[b].answeredBy
    BY <1>4 DEF SessionType
  <2>2. \/ DropCall(b, call[b], s)
        \/ call' = call /\ session' = [session EXCEPT ![b] = s]
    BY <1>5 DEF InviteStateChanged
  <2> HIDE DEF s
  <2> QED
    BY <1>3, <1>4, <2>1, <2>2
<1>6. ASSUME NEW code \in {"1xx", "2xx", "failed"}, InviteTsxState(b, code)
      PROVE  Lasts(c)
  <2> DEFINE s == AfterInviteReport(session[b], code)
             k == [call[b] EXCEPT !.finalEmitted = TRUE]
  <2>1. s \in SessionType
    BY <1>6, AfterReportFacts DEF InviteTsxState
  <2>2. s.answeredBy = session[b].answeredBy
    BY <1>4 DEF AfterInviteReport, SessionType
  <2>3. k \in CallType /\ k.kind = call[b].kind /\ k.assoc = call[b].assoc
    BY <1>4 DEF CallType
  <2>4. \/ DropCall(b, k, s)
        \/ /\ call' = call \/ call' = [call EXCEPT ![b] = k]
           /\ session' = [session EXCEPT ![b] = s]
    BY <1>6 DEF InviteTsxState
  <2> HIDE DEF s, k
  <2> QED
    BY <1>3, <1>4, <2>1, <2>2, <2>3, <2>4
<1>7. ASSUME NEW again \in BOOLEAN, EndTsxState(b, again) PROVE Lasts(c)
  <2>1. PICK s : /\ s = IF again THEN [session[b] EXCEPT !.endDone = FALSE]
                                 ELSE [session[b] EXCEPT !.endDone = TRUE, !.ends = @ - 1]
    OBVIOUS
  <2> DEFINE k == [call[b] EXCEPT !.dialogOp = 0]
  <2>2. s \in SessionType /\ s.answeredBy = session[b].answeredBy
    <3>1. CASE again
      BY <1>4, <2>1, <3>1 DEF SessionType
    <3>2. CASE ~again
      <4>1. session[b].ends > 0
        BY <1>7, <3>2 DEF EndTsxState
      <4>2. PICK n \in 0 .. MaxOperations : n = session[b].ends - 1
        BY SMT, <1>4, <4>1, CallConstants DEF SessionType
      <4>3. s = [session[b] EXCEPT !.endDone = TRUE, !.ends = n]
        BY <2>1, <3>2, <4>2
      <4> QED
        BY <1>4, <4>3 DEF SessionType
    <3> QED
      BY <3>1, <3>2
  <2>3. k \in CallType /\ k.kind = call[b].kind /\ k.assoc = call[b].assoc
    BY SMT, <1>4, CallConstants DEF CallType
  <2>4. \/ DropCall(b, k, s)
        \/ /\ call' = call \/ call' = [call EXCEPT ![b] = k]
           /\ session' = [session EXCEPT ![b] = s]
    BY <1>7, <2>1 DEF EndTsxState
  <2> HIDE DEF k
  <2> QED
    BY <1>3, <1>4, <2>2, <2>3, <2>4
<1>8. ASSUME NEW how \in {"waits", "sends", "answers"}, EndCall(b, how) PROVE Lasts(c)
  <2>1. PICK n \in Operations : n = operations + 1
    BY <1>8, NextId DEF EndCall
  <2>2. n # 0
    BY SMT DEF Operations
  <2>3. /\ call'[b].kind = call[b].kind /\ call'[b].assoc = call[b].assoc
        /\ session'[b].answeredBy \in {session[b].answeredBy, n}
    BY SMT, <1>2, <1>8, <2>1 DEF EndCall, CallType, SessionType
  <2>4. c # b => call'[c] = call[c] /\ session'[c] = session[c]
    BY <1>2, <1>8 DEF EndCall
  <2> QED
    BY <2>2, <2>3, <2>4 DEF Lasts
<1> QED
  BY <1>1, <1>5, <1>6, <1>7, <1>8

\* The steps that leave the calls to themselves, but for a request that takes its call away
LEMMA RequestStepsLast ==
    ASSUME ReportInv, NEW c \in Calls,
           \/ CommandFails \/ SendMessage \/ AnswerSent \/ UNCHANGED vars
           \/ \E b \in Calls : AnswerCall(b) \/ SendInfo(b) \/ UseFreedSession(b)
           \/ \E ok \in BOOLEAN : RequestSent(ok) \/ EndSent(ok)
           \/ \E o \in Operations, status \in BOOLEAN :
                 OutboundCallback(o, status) \/ OnTsxState(o, status) \/ TsxUnheard(o, status)
    PROVE  Lasts(c) /\ UNCHANGED open
<1>1. UNCHANGED <<open, session>>
  BY DEF CommandFails, SendMessage, AnswerSent, vars, AnswerCall, SendInfo, UseFreedSession,
         RequestSent, EndSent, BeginRequest, OutboundCallback, OnTsxState, TsxUnheard
<1>2. call \in [Calls -> CallType]
  BY DEF ReportInv, TypeOK
<1>3. CASE call'[c].kind = call[c].kind /\ call'[c].assoc = call[c].assoc
  BY <1>1, <1>3 DEF Lasts
<1>4. CASE UNCHANGED call
  BY <1>3, <1>4
<1>5. ASSUME NEW k \in CallType, NEW b \in Calls, call' = [call EXCEPT ![b] = Released(k)],
             k.kind = call[b].kind, k.assoc = call[b].assoc
      PROVE  Lasts(c)
  <2>1. call'[c] = IF c = b THEN Released(k) ELSE call[c]
    BY <1>2, <1>5
  <2>2. SameCall(Released(k), k)
    BY ReleasedCallFacts
  <2> QED
    BY <1>3, <1>5, <2>1, <2>2 DEF SameCall
<1>6. CASE AnswerSent
  <2>1. PICK b \in Calls : b = frame.of
    BY <1>6, FrameFacts DEF ReportInv, AnswerSent, CallFrames
  <2>2. call[b] \in CallType /\ call' = [call EXCEPT ![b] = Released(call[b])]
    BY <1>2, <1>6, <2>1 DEF AnswerSent
  <2> QED
    BY <1>1, <1>5, <2>2
<1>7. ASSUME NEW ok \in BOOLEAN, EndSent(ok) PROVE Lasts(c)
  <2>1. PICK b \in Calls : b = frame.of
    BY <1>7, FrameFacts DEF ReportInv, EndSent, CallFrames
  <2>2. PICK k : k = IF ok THEN call[b] ELSE [call[b] EXCEPT !.dialogOp = 0]
    OBVIOUS
  <2>3. call' = [call EXCEPT ![b] = Released(k)]
    BY <1>2, <1>7, <2>1, <2>2 DEF EndSent
  <2>4. k \in CallType /\ k.kind = call[b].kind /\ k.assoc = call[b].assoc
    BY SMT, <1>2, <2>2, CallConstants DEF CallType
  <2> QED
    BY <1>5, <2>3, <2>4
<1>8. ASSUME NEW b \in Calls, AnswerCall(b) PROVE Lasts(c)
  <2>1. call'[c].kind = call[c].kind /\ call'[c].assoc = call[c].assoc
    BY SMT, <1>2, <1>8 DEF AnswerCall, CallType
  <2> QED
    BY <1>3, <2>1
<1>9. ASSUME NEW o \in Operations, NEW r, CompleteDialogOperation(o, operation[o], r),
             UNCHANGED calls
      PROVE  Lasts(c)
  BY <1>3, <1>9, CompletesCalls DEF SameCall
<1>10. ASSUME NEW ok \in BOOLEAN, RequestSent(ok) PROVE Lasts(c)
  <2>1. PICK o \in Operations : o = frame.of
    BY <1>10, FrameFacts DEF ReportInv, RequestSent
  <2>2. /\ UNCHANGED calls
        /\ CompleteDialogOperation(o, operation[o], request[o]) \/ UNCHANGED call
    BY <1>10, <2>1 DEF RequestSent
  <2> QED
    BY <1>4, <1>9, <2>2
<1>11. ASSUME NEW o \in Operations, NEW status \in BOOLEAN, OnTsxState(o, status)
       PROVE  Lasts(c)
  <2>1. UNCHANGED calls /\ \E r : CompleteDialogOperation(o, operation[o], r)
    BY <1>11 DEF OnTsxState
  <2> QED
    BY <1>9, <2>1
<1> QED
  BY <1>1, <1>4, <1>6, <1>7, <1>8, <1>10, <1>11 DEF CommandFails, SendMessage, vars, SendInfo,
     UseFreedSession, OutboundCallback, TsxUnheard

\* Every step keeps that of a call that is not new; no association opens.
LEMMA CallsLast ==
    ASSUME ReportInv, [Next]_vars, NEW c \in Calls, c <= calls
    PROVE  Lasts(c) /\ open' \subseteq open
<1>1. call \in [Calls -> CallType] /\ session \in [Calls -> SessionType]
  BY DEF ReportInv, TypeOK
<1>2. c # calls + 1
  BY SMT DEF ReportInv, TypeOK, Calls
<1>3. ASSUME NEW a \in Associations, SendInvite(a) \/ SendRestored(a) \/ IncomingInvite(a)
      PROVE  Lasts(c) /\ UNCHANGED open
  <2>1. call'[c] = call[c] /\ session'[c] = session[c] /\ UNCHANGED open
    BY <1>1, <1>2, <1>3 DEF SendInvite, SendRestored, IncomingInvite, BeginRequest
  <2> QED
    BY <2>1 DEF Lasts
<1>4. ASSUME NEW ok \in BOOLEAN, InviteSent(ok) PROVE Lasts(c) /\ UNCHANGED open
  <2>1. PICK b \in Calls : b = frame.of
    BY <1>4, FrameFacts DEF ReportInv, InviteSent, CallFrames
  <2> DEFINE i == [call[b] EXCEPT !.invite = FALSE]
             l == RemovedCall(b, i)
             t == [session[b] EXCEPT !.modData = FALSE]
  <2>2. i \in CallType /\ SameCall(i, call[b]) /\ t.answeredBy = session[b].answeredBy
    BY <1>1 DEF CallType, SameCall, SessionType
  <2>3. /\ call' = [call EXCEPT ![b] = Released(call[b])]
              \/ call' = [call EXCEPT ![b] = Released(l)]
        /\ session' = session \/ session' = [session EXCEPT ![b] = t]
        /\ UNCHANGED open
    BY <1>1, <1>4, <2>1 DEF InviteSent
  <2> HIDE DEF i, t
  <2>4. l \in CallType /\ SameCall(l, i)
    BY <2>2, RemovedCallFacts
  <2> HIDE DEF l
  <2>5. SameCall(Released(call[b]), call[b]) /\ SameCall(Released(l), l)
    BY <1>1, <2>4, ReleasedCallFacts
  <2>6. SameCall(Released(l), call[b])
    BY <2>2, <2>4, <2>5 DEF SameCall
  <2>7. SameCall(call'[c], call[c])
    BY <1>1, <2>3, <2>5, <2>6 DEF SameCall
  <2>8. session'[c].answeredBy = session[c].answeredBy
    BY <1>1, <2>2, <2>3
  <2> QED
    BY <2>3, <2>7, <2>8 DEF SameCall, Lasts
<1>5. ASSUME NEW a \in Associations, CloseAssociation(a) PROVE Lasts(c) /\ open' \subseteq open
  <2> DEFINE i == [call[c] EXCEPT !.invite = FALSE]
             t == [session[c] EXCEPT !.modData = FALSE]
  <2>1. i \in CallType /\ SameCall(i, call[c]) /\ t.answeredBy = session[c].answeredBy
    BY <1>1 DEF CallType, SameCall, SessionType
  <2>2. /\ call'[c] = call[c] \/ call'[c] = RemovedCall(c, i)
        /\ session'[c] = session[c] \/ session'[c] = t
        /\ open' \subseteq open
    BY <1>5 DEF CloseAssociation
  <2> HIDE DEF i, t
  <2>3. SameCall(RemovedCall(c, i), i)
    BY <2>1, RemovedCallFacts
  <2> QED
    BY <2>1, <2>2, <2>3 DEF SameCall, Lasts
<1>6. CASE Handler
  BY <1>4, <1>6, RequestStepsLast DEF Handler
<1>7. CASE Application
  BY <1>3, <1>5, <1>7, RequestStepsLast, CallStepsLast DEF Application
<1>8. CASE Callback
  BY <1>3, <1>8, RequestStepsLast, CallStepsLast DEF Callback
<1>9. CASE UNCHANGED vars
  BY <1>9, RequestStepsLast
<1> QED
  BY <1>6, <1>7, <1>8, <1>9 DEF Next

\* Freed memory was first read through a restored call over an association that has
\* closed, or through a call that a BYE has answered.
MisreadInv ==
    misread # 0 =>
        \/ call[misread].kind = "restored" /\ call[misread].assoc \notin open
        \/ session[misread].answeredBy # 0

\* What holds of the objects, the operations and the calls as long as none was read
SoundInv == ObjectInv /\ AccountInv /\ AwaitInv

\* A call that has ended and is still listed
LEMMA EndedCalls ==
    ASSUME ReportInv, SoundInv, NEW c \in inviteCalls, session[c].state = "disconnected"
    PROVE  /\ Attached(c)
           /\ InviteDue(c) \/ (call[c].dialogOp # 0 /\ EndDue(c)) \/ AnsweredByBye(c)
<1>1. c \in Calls
  BY DEF ReportInv, TypeOK
<1>2. CallAccounts(call[c], session[c]) /\ Awaits(call[c], session[c]) /\ session[c].modData
  BY <1>1 DEF SoundInv, AccountInv, AwaitInv
<1>3. Attached(c)
  BY <1>1, <1>2, ObjectsAreLive DEF SoundInv, Attached
<1> QED
  BY <1>2, <1>3 DEF CallAccounts, Awaits, InviteDue, EndDue, AnsweredByBye

\* The session of a listed call is there, or a BYE has answered the call.
LEMMA SessionsLive ==
    ASSUME ReportInv, SoundInv, NEW c \in inviteCalls
    PROVE  SessionLives(c) \/ AnsweredByBye(c)
BY EndedCalls DEF SessionLives, InviteDue, EndDue

\* Freed memory is read as MisreadInv says, and it stays so.
LEMMA MisreadKeeps ==
    ASSUME ReportInv, misread = 0 => SoundInv, MisreadInv, [Next]_vars
    PROVE  MisreadInv'
<1>1. misread \in 0 .. MaxCalls /\ misread' \in 0 .. MaxCalls
  BY CallNext DEF ReportInv, TypeOK
<1>2. ASSUME NEW c \in Calls, c <= calls, misread' = c,
             (call[c].kind = "restored" /\ call[c].assoc \notin open) \/ session[c].answeredBy # 0
      PROVE  MisreadInv'
  BY <1>2, CallsLast DEF MisreadInv, Lasts
<1>3. CASE misread' = misread /\ misread # 0
  <2>1. misread \in Calls
    BY SMT, <1>1, <1>3, CallConstants DEF Calls
  <2>2. misread <= calls
    <3> SUFFICES ASSUME ~(misread <= calls) PROVE FALSE
      OBVIOUS
    <3>1. misread > calls
      BY SMT, <2>1 DEF Calls, ReportInv, TypeOK
    <3>2. call[misread] = NoCall /\ session[misread] = NoSession
      BY <2>1, <3>1 DEF ReportInv, FreshInv
    <3> QED
      BY <1>3, <3>2, NoneFields DEF MisreadInv, NoCall
  <2> QED
    BY <1>2, <1>3, <2>1, <2>2 DEF MisreadInv
<1>4. CASE misread' = misread /\ misread = 0
  BY <1>4 DEF MisreadInv
<1>5. CASE misread' # misread
  <2>1. misread = 0
    BY <1>5, MisreadNext
  <2>2. SoundInv
    BY <2>1
  <2>3. ASSUME NEW o \in Operations, Freed(operation[o].restoredCall),
               misread' = operation[o].restoredCall
        PROVE  MisreadInv'
    <3>1. PICK c : c = operation[o].restoredCall
      OBVIOUS
    <3>2. c # 0
      BY <2>3, <3>1 DEF Freed
    <3>3. c \in Calls /\ c <= calls /\ call[c].kind = "restored"
      BY <2>2, <3>1, <3>2 DEF SoundInv, ObjectInv, RestoredInv
    <3>4. call[c].assoc \notin open
      BY <2>2, <2>3, <3>1, ObjectsAreLive DEF SoundInv
    <3> QED
      BY <1>2, <2>3, <3>1, <3>3, <3>4
  <2>4. ASSUME NEW c \in inviteCalls, ~SessionLives(c), misread' = c PROVE MisreadInv'
    <3>1. c \in Calls
      BY DEF ReportInv, TypeOK
    <3>2. c <= calls
      BY <3>1, WasAllocated
    <3>3. session[c].answeredBy # 0
      BY <2>2, <2>4, SessionsLive DEF AnsweredByBye
    <3> QED
      BY <1>2, <2>4, <3>1, <3>2, <3>3
  <2> QED
    BY <1>5, <2>3, <2>4, MisreadNext
<1> QED
  BY <1>3, <1>4, <1>5

CallsInv == ReportInv /\ (misread = 0 => SoundInv) /\ MisreadInv

\* The whole invariant, for any number of calls, operations and associations
LEMMA CallsInvariant == Spec => []CallsInv
<1>1. Init => CallsInv
  <2> SUFFICES ASSUME Init PROVE CallsInv
    OBVIOUS
  <2>1. /\ \A c \in Calls : session[c] = NoSession
        /\ inviteCalls = {} /\ frame.at # "end" /\ ~NoSession.modData
    BY DEF Init, NoFrame, NoSession
  <2>2. AwaitInv
    BY <2>1 DEF AwaitInv, Awaits
  <2>3. MisreadInv
    BY DEF Init, MisreadInv
  <2> QED
    BY <2>2, <2>3, CallInit, AccountInit DEF CallsInv, SoundInv
<1>2. CallsInv /\ [Next]_vars => CallsInv'
  <2> SUFFICES ASSUME CallsInv, [Next]_vars PROVE CallsInv'
    OBVIOUS
  <2>1. ReportInv' /\ MisreadInv'
    BY CallNext, MisreadKeeps DEF CallsInv
  <2>2. ASSUME misread' = 0 PROVE SoundInv'
    <3>1. misread = 0
      BY <2>2, MisreadNext DEF CallsInv
    <3>2. SoundInv
      BY <3>1 DEF CallsInv
    <3> QED
      BY <2>2, <3>2, CallNext, AccountNext, AwaitNext DEF SoundInv, CallsInv
  <2> QED
    BY <2>1, <2>2 DEF CallsInv
<1> QED
  BY <1>1, <1>2, PTL DEF Spec

\* Whatever PJSIP or a handler refers to is allocated, whatever is done with however
\* many calls, requests and associations, but for two references: the restored call of
\* a request in flight when its association closes (gmv_close_association_calls frees
\* it), and the session of a call that a BYE has answered (gmv_send_dialog_on_owner).
\* Freed memory is first read through one of them.
THEOREM LiveReferencesCorrect == Spec => []LiveReferences
<1>1. CallsInv => LiveReferences
  <2> SUFFICES ASSUME CallsInv PROVE LiveReferences
    OBVIOUS
  <2>1. ASSUME misread = 0, NEW c \in inviteCalls PROVE SessionLives(c) \/ AnsweredByBye(c)
    BY <2>1, SessionsLive DEF CallsInv
  <2> QED
    BY <2>1, ObjectsAreLive DEF CallsInv, SoundInv, MisreadInv, LiveReferences
<1> QED
  BY <1>1, CallsInvariant, PTL

\* Nothing is left behind as long as no freed memory was read, for any number of calls
\* and operations: an object that is allocated is listed, or held by the handler that
\* will free it, or has a transaction that will report, but for the operation of an INFO
\* on an incoming call (gmv_on_tsx_state is not told); a restored dialog is given back its
\* session once.
THEOREM NothingLeftBehindCorrect == Spec => []NothingLeftBehind
<1>1. CallsInv => NothingLeftBehind
  BY ObjectsAreLive DEF CallsInv, SoundInv, NothingLeftBehind
<1> QED
  BY <1>1, CallsInvariant, PTL

\* As long as no freed memory was read, every operation that was begun is reported, or a
\* transaction or a handler that will report it is there, with a call that is listed, for
\* any number of calls and operations.  Only five losses remain: an INFO on an incoming
\* call (gmv_on_tsx_state is not told), a BYE that answered one (pjsip_inv_end_session
\* makes no request), the association closed (gmv_close_association_calls), the session
\* ended and the answer to the CANCEL removed the call of an INVITE, the failure of the
\* INVITE removed the call of a BYE or CANCEL (gmv_invite_on_tsx_state_changed).
THEOREM OperationsAccountedCorrect == Spec => []OperationsAccounted
<1>1. CallsInv => OperationsAccounted
  BY AllAccounted DEF CallsInv, SoundInv, OperationsAccounted
<1> QED
  BY <1>1, CallsInvariant, PTL

\* As long as no freed memory was read, a call whose session has ended stays listed, in
\* runtime->invite_calls, only while the failure of its INVITE or the answer to its BYE or
\* CANCEL is still to come, with the session that will take it to gmv_remove_invite_call,
\* or for good after a BYE has answered it: otherwise whichever of the callbacks is the
\* last drops the call, for any number of calls and operations.
THEOREM EndedCallsAwaitedCorrect == Spec => []EndedCallsAwaited
<1>1. CallsInv => EndedCallsAwaited
  BY EndedCalls DEF CallsInv, EndedCallsAwaited
<1> QED
  BY <1>1, CallsInvariant, PTL

=============================================================================
