---------------------------- MODULE Subscriptions ----------------------------
(***************************************************************************)
(* SUBSCRIBE: what the poll does with the SUBSCRIBE commands of OwnerApi,  *)
(* and the callbacks of PJSIP's evsub (shim.c, shim_subscription.inc).     *)
(*                                                                         *)
(* A gmv_subscription_call_t is listed in the runtime, referred to by the  *)
(* mod_data of its evsub, and held (active_calls) by a handler that is     *)
(* inside a call into PJSIP, which may call back before it returns.  It    *)
(* carries one operation of the application at a time; the refreshes that  *)
(* evsub makes by itself are no operations.  The body and the Expires of   *)
(* the requests, and NOTIFY, which changes nothing here but the evsub's    *)
(* state, are left out.                                                    *)
(***************************************************************************)
EXTENDS OwnerApi

CONSTANTS
    Connections,       \* associations that can close
    MaxSubscriptions,  \* bound: gmv_subscription_call_t objects allocated
    MaxTransactions    \* bound: open transactions of an evsub that refreshes

VARIABLES
    sub,        \* gmv_subscription_call_t, by allocation
    listed,     \* runtime->subscriptions
    evsub,      \* the pjsip_evsub of each and its transactions
    frame,      \* the handler that is inside a call into PJSIP
    open,       \* connections that have a transport
    owed        \* operations taken from the queue whose end was not yet reported

subVars == <<sub, listed, evsub, frame, open, owed>>
allVars == <<ownerVars, subVars>>

Subs == 1 .. MaxSubscriptions

\* set: call->subscription is not NULL
NoSub == [operation |-> 0, association |-> 0, set |-> FALSE, active |-> 0,
          cleanup |-> FALSE, allocated |-> FALSE]

\* A gmv_subscription_call_t that was freed
Freed == [NoSub EXCEPT !.cleanup = TRUE]

\* open: SUBSCRIBE transactions that have not ended; timer: a refresh is due
NoEvsub == [state |-> "none", modData |-> FALSE, open |-> 0, timer |-> FALSE]

\* An evsub that has no mod_data: the callbacks ignore what it does.
Forgotten == [NoEvsub EXCEPT !.state = "terminated"]

\* tsx: what became of the transaction the handler wants to start
NoFrame == [at |-> "poll", of |-> 0, tsx |-> "none", number |-> 0]

SubscriptionsInit ==
    /\ OwnerInit
    /\ sub = [s \in Subs |-> NoSub] /\ listed = {}
    /\ evsub = [s \in Subs |-> NoEvsub]
    /\ frame = NoFrame /\ open = Connections /\ owed = {}

-----------------------------------------------------------------------------
\* gmv_release_subscription
Released(k) == IF k.active = 1 /\ k.cleanup THEN Freed ELSE [k EXCEPT !.active = @ - 1]

\* Faulty: frees a subscription that a handler holds.
RemovedAtOnce(s, k) == IF k.cleanup \/ s \notin listed THEN k ELSE Freed

\* gmv_remove_subscription: unlink, and free unless a handler holds it.
Removed(s, k) ==
    IF k.cleanup \/ s \notin listed THEN k
    ELSE IF k.active = 0 THEN Freed ELSE [k EXCEPT !.cleanup = TRUE]

\* How a subscription is given up: evsub and subscription forget each other and it
\* is removed.
Dropped(s, k) == Removed(s, [k EXCEPT !.set = FALSE])

Drop(s, k) ==
    /\ sub' = [sub EXCEPT ![s] = Dropped(s, k)]
    /\ listed' = listed \ {s}
    /\ evsub' = [evsub EXCEPT ![s] = Forgotten]

Keep(s, k, e) ==
    /\ sub' = [sub EXCEPT ![s] = k]
    /\ evsub' = [evsub EXCEPT ![s] = e]
    /\ UNCHANGED listed

\* A final response or a fault
Reports(number) == owed' = owed \ {number}

At(part) == phase # 0 /\ Kind = part /\ frame = NoFrame

\* PJSIP calls back from the poll, or from inside the call a handler has made when the
\* transaction is at the given point.  Transactions time out in "events": there are
\* only calls of the application between the timers of a poll and the next poll.
CallsBack(s, tsx) == At("events") \/ (frame.of = s /\ frame.tsx \in tsx)

-----------------------------------------------------------------------------
(* gmv_send_subscribe_on_owner.                                              *)

Command == Head(queues[Kind])

TakesSubscribe == At("subscribe") /\ RunCommand

\* Refused before a subscription is listed or given the operation: no transport, no
\* such subscription, one with an operation or another event, an error of PJSIP or
\* malloc.  A fault reports it.
SubscribeRefused ==
    /\ TakesSubscribe
    /\ UNCHANGED subVars

\* gmv_start_subscription_request on s.  It may fail before there is a transaction.
StartRequest(at, s, k, e, number) ==
    \E made \in BOOLEAN :
        /\ sub' = [sub EXCEPT ![s] = [k EXCEPT !.active = @ + 1]]
        /\ evsub' = [evsub EXCEPT ![s] = [e EXCEPT !.open = IF made THEN @ + 1 ELSE @]]
        /\ frame' = [at |-> at, of |-> s, tsx |-> IF made THEN "open" ELSE "none",
                     number |-> number]

\* The first SUBSCRIBE, up to the call of pjsip_evsub_send_request
SubscribeInitial(s) ==
    LET c == Command IN
    /\ TakesSubscribe /\ c.method = "initial"
    /\ sub[s] = NoSub /\ \A r \in 1 .. s - 1 : sub[r] # NoSub
    /\ c.association \in open \cup {0}
    /\ StartRequest("initial", s,
                    [NoSub EXCEPT !.operation = c.number, !.association = c.association,
                                  !.set = TRUE, !.allocated = TRUE],
                    [NoEvsub EXCEPT !.state = "active", !.modData = TRUE], c.number)
    /\ listed' = listed \cup {s}
    /\ owed' = owed \cup {c.number}
    /\ UNCHANGED open

\* A refresh or an unsubscribe, likewise
SubscribeRefresh(s) ==
    /\ TakesSubscribe /\ Command.method = "refresh"
    /\ s \in listed /\ sub[s].set /\ sub[s].operation = 0
    /\ StartRequest("refresh", s, [sub[s] EXCEPT !.operation = Command.number], evsub[s],
                    Command.number)
    /\ owed' = owed \cup {Command.number}
    /\ UNCHANGED <<listed, open>>

\* gmv_subscription_on_client_refresh: evsub's timer wants a refresh,
\* which an operation under way makes unnecessary.
ClientRefresh(s) ==
    /\ At("timers")
    /\ evsub[s].modData /\ evsub[s].state = "active" /\ evsub[s].timer
    /\ evsub[s].open < MaxTransactions
    /\ IF sub[s].operation = 0
       THEN /\ StartRequest("timer", s, sub[s], [evsub[s] EXCEPT !.timer = FALSE], 0)
            /\ UNCHANGED <<listed, open, owed>>
       ELSE /\ evsub' = [evsub EXCEPT ![s].timer = FALSE]
            /\ UNCHANGED <<sub, listed, frame, open, owed>>

\* The request is sent, or it is not, when there is no transaction or after the
\* transaction has reported that it ended.
RequestReturns(ok) ==
    LET s == frame.of
        k == sub[s]
    IN
    /\ frame # NoFrame
    /\ IF ok THEN frame.tsx # "none" ELSE frame.tsx # "open"
    /\ IF ~ok /\ frame.at = "initial" /\ ~k.cleanup
       THEN /\ sub' = [sub EXCEPT ![s] = Released(Dropped(s, k))]
            /\ listed' = listed \ {s}
            /\ evsub' = [evsub EXCEPT ![s] = Forgotten]
       ELSE /\ sub' = [sub EXCEPT ![s] =
                          Released(IF ~ok /\ frame.at = "refresh"
                                   THEN [k EXCEPT !.operation = 0] ELSE k)]
            /\ UNCHANGED <<listed, evsub>>
    /\ IF ok THEN UNCHANGED owed ELSE Reports(frame.number)
    /\ frame' = NoFrame
    /\ UNCHANGED open

-----------------------------------------------------------------------------
(* Callbacks of evsub.                                                       *)

\* Faulty: does not look at the operation.
EvsubTerminatesAnyway(s) ==
    LET e == [evsub[s] EXCEPT !.state = "terminated"] IN
    /\ CallsBack(s, {"reported"}) /\ evsub[s].state = "active"
    /\ IF e.modData THEN Drop(s, sub[s]) ELSE Keep(s, sub[s], e)
    /\ UNCHANGED <<frame, open, owed>>

\* gmv_subscription_on_state: the evsub ends, after a NOTIFY, a failed SUBSCRIBE, the
\* answer to an unsubscribe or a timeout.  Inside a call of a handler the transaction
\* reports first.
EvsubTerminates(s) ==
    LET e == [evsub[s] EXCEPT !.state = "terminated"] IN
    /\ CallsBack(s, {"reported"}) /\ evsub[s].state = "active"
    /\ IF e.modData /\ sub[s].operation = 0 THEN Drop(s, sub[s]) ELSE Keep(s, sub[s], e)
    /\ UNCHANGED <<frame, open, owed>>

\* gmv_subscription_on_tsx_state with a final status: any SUBSCRIBE of the evsub, with
\* its response, after which evsub sets its timer, and once more when it ends.
SubscribeTsxState(s, ends) ==
    LET k == [sub[s] EXCEPT !.operation = 0]
        e == [evsub[s] EXCEPT !.open = IF ends THEN @ - 1 ELSE @, !.timer = @ \/ (frame = NoFrame /\ ~ends)]
    IN
    /\ CallsBack(s, {"open", "reported"}) /\ evsub[s].open > 0
    /\ IF ~e.modData \/ sub[s].operation = 0
       THEN Keep(s, sub[s], e) /\ UNCHANGED owed
       ELSE /\ Reports(sub[s].operation)
            /\ IF e.state = "terminated" THEN Drop(s, k) ELSE Keep(s, k, e)
    /\ frame' = IF frame = NoFrame THEN frame ELSE [frame EXCEPT !.tsx = "reported"]
    /\ UNCHANGED open

\* gmv_close_association_calls, in the poll before the commands: the subscriptions
\* over the connection are forgotten, and their operations with them.
CloseConnection(a) ==
    LET gone == {s \in listed : sub[s].association = a} IN
    /\ At("events") /\ a \in open
    /\ open' = open \ {a}
    /\ sub' = [s \in Subs |-> IF s \in gone THEN Dropped(s, sub[s]) ELSE sub[s]]
    /\ listed' = listed \ gone
    /\ evsub' = [s \in Subs |-> IF s \in gone THEN Forgotten ELSE evsub[s]]
    /\ owed' = owed \ {sub[s].operation : s \in gone}
    /\ UNCHANGED frame

\* The subscriptions part of gmv_runtime_release, and a crash
SubscriptionsGone ==
    /\ sub' = [s \in Subs |-> IF sub[s] = NoSub THEN NoSub ELSE Freed]
    /\ evsub' = [s \in Subs |-> IF sub[s] = NoSub THEN NoEvsub ELSE Forgotten]
    /\ listed' = {} /\ frame' = NoFrame /\ open' = {} /\ owed' = {}

-----------------------------------------------------------------------------
\* The steps of the poll, but for what PJSIP calls back
PollSteps ==
    \/ /\ frame = NoFrame
       /\ PollGoesOn \/ (RunCommand /\ Kind # "subscribe")
       /\ UNCHANGED subVars
    \/ SubscribeRefused
    \/ \E s \in Subs : SubscribeInitial(s) \/ SubscribeRefresh(s)
    \/ (\E ok \in BOOLEAN : RequestReturns(ok)) /\ UNCHANGED ownerVars

EvsubCallback ==
    \E s \in Subs : ClientRefresh(s) \/ EvsubTerminates(s) \/
                    \E ends \in BOOLEAN : SubscribeTsxState(s, ends)

SubscriptionsNext ==
    \/ /\ \/ \E r \in Requests : Call(r)
          \/ Threads \/ TakeEvent \/ StartAgain
          \/ \E d \in Dialogs : frame = NoFrame /\ EmitResponse(d)
       /\ UNCHANGED subVars
    \/ PollSteps
    \/ (EvsubCallback \/ \E a \in Connections : CloseConnection(a)) /\ UNCHANGED ownerVars
    \/ (StopRuntime \/ Crash) /\ SubscriptionsGone

\* The owner keeps polling and finishes the calls it makes: stores become visible to
\* its retries in the end, and an exchange does not fail without reason forever.
\* Every transaction ends, PJSIP has a timer on each and the poll runs its timers.
SubscriptionsSpec ==
    /\ SubscriptionsInit /\ [][SubscriptionsNext]_allVars
    /\ WF_allVars(PollSteps)
    /\ SF_allVars(RetriesWithLatest(Owner) /\ UNCHANGED subVars)
    /\ SF_allVars(Allocated(Owner) /\ UNCHANGED subVars)
    /\ \A s \in Subs : SF_allVars(SubscribeTsxState(s, TRUE) /\ UNCHANGED ownerVars)

-----------------------------------------------------------------------------
(* Properties.                                                              *)

\* What evsub's mod_data, the list or a handler inside PJSIP refers to is allocated,
\* and nothing else is: whichever of the callbacks comes last, and wherever it
\* comes, frees the subscription.
SubscriptionReferences ==
    \A s \in Subs :
        /\ sub[s].allocated <=> s \in listed \/ (frame # NoFrame /\ frame.of = s)
        /\ evsub[s].modData => sub[s].allocated /\ sub[s].set
        /\ s \in listed => evsub[s].modData
        /\ s \in listed /\ evsub[s].state = "terminated" => sub[s].operation # 0

\* A SUBSCRIBE that was handled is reported, by a response or a fault, whichever of
\* the evsub's transactions and states comes first.  Only the ones whose connection
\* is closed, or whose runtime is gone, are not.
EverySubscribeReports == []<>(owed = {})

=============================================================================
