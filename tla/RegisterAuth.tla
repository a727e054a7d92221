---------------------------- MODULE RegisterAuth ----------------------------
(***************************************************************************)
(* The REGISTER path of the C shim (shim_auth.inc and the poll loop of     *)
(* shim.c): a REGISTER is refused or challenged at once, or it is parked   *)
(* in runtime->pending_auth while the application looks the device up. The *)
(* application's answer (gmv_sip_runtime_complete_auth_lookup) is queued   *)
(* and applied by the next gmv_sip_runtime_poll, which then times out what *)
(* nobody answered.                                                        *)
(*                                                                         *)
(* Everything runs on the owner thread.  One poll is cut into the steps    *)
(* between which the wall clock can be read again: receive, commands,      *)
(* timeouts.  The application runs only between two polls (phase "idle").  *)
(*                                                                         *)
(* The other users of runtime->register_orders (allow_registered_source,   *)
(* allow_recovery_source and their clean-up) are in SourceGate.  Stopping  *)
(* the runtime, which drops what is parked, is not modelled.               *)
(***************************************************************************)
EXTENDS Integers, Sequences, FiniteSets

CONSTANTS
    Devices,            \* device ids: the Digest username or the From user
    CallIds, CSeqs,     \* Call-ID and CSeq number of a REGISTER
    Expires,            \* gmv_register_expires; 0 unregisters
    Cnonces,            \* client nonces of a Digest
    NonceCounts,        \* nc values; 0 stands for a Digest without qop
    Results,            \* answers the application gives to a lookup
    MaxPendingAuth,     \* runtime->max_pending_auth
    AuthLookupTimeout,  \* runtime->auth_lookup_timeout_ms
    NonceTTL,           \* GMV_SIP_NONCE_TTL_MS
    MaxUsages,          \* usages kept per nonce, 64 in the code
    CleanupInterval,    \* nonce purge interval, 1000 ms in the code
    \* Bounds of the model, not of the program:
    MaxRequests,        \* REGISTERs that arrive
    MaxNonces,          \* nonces issued
    MaxCommands,        \* answers queued between two polls
    MaxClock,           \* largest clock value
    MaxSetBacks         \* times the wall clock is set back

ASSUME ConstantsAssumption ==
    /\ CSeqs \subseteq Nat /\ Expires \subseteq Nat /\ NonceCounts \subseteq Nat
    /\ Results \subseteq {"credential", "bypass", "reject"}
    /\ MaxPendingAuth \in Nat /\ AuthLookupTimeout \in Nat /\ NonceTTL \in Nat
    /\ MaxUsages \in Nat /\ CleanupInterval \in Nat
    /\ MaxRequests \in Nat /\ MaxNonces \in Nat /\ MaxCommands \in Nat
    /\ MaxClock \in Nat /\ MaxSetBacks \in Nat

VARIABLES
    phase,          \* where the owner thread is in the poll loop
    now,            \* gmv_now_ms, a wall clock
    setBacks,       \* how often the wall clock was set back
    arrived,        \* REGISTERs received so far
    register,       \* what the r-th REGISTER says
    outcome,        \* what became of it
    pendingAuth,    \* runtime->pending_auth; the list is newest first
    pendingAuthCount, \* runtime->pending_auth_count
    lookupId,       \* pending->lookup_id
    deadline,       \* pending->deadline_ms
    lookupSequence, \* runtime->lookup_sequence
    announced,      \* device of each AUTH_LOOKUP_REQUIRED event emitted
    authCommands,   \* runtime->command_head .. command_tail
    answered,       \* history: every answer complete_auth_lookup accepted
    nonceSequence,  \* nonces issued so far
    authNonces,     \* runtime->auth_nonces
    nonceExpires,   \* nonce->expires_at_ms, 0 before the nonce is issued
    usage,          \* nonce->usages
    verifiedAt,     \* history: when a Digest was verified and counted, or 0
    registerOrder,  \* runtime->register_orders
    nonceCleanupAt, \* runtime->nonce_cleanup_at_ms
    sweepNow        \* the "now" gmv_process_auth_timeouts works with

timeVars   == <<now, setBacks>>
pendingVars == <<pendingAuth, pendingAuthCount, lookupId, deadline>>
lookupVars == <<lookupSequence, announced>>
answerVars == <<authCommands, answered>>
nonceVars  == <<nonceSequence, authNonces, nonceExpires, usage, nonceCleanupAt>>
vars == <<phase, timeVars, arrived, register, outcome, pendingVars, lookupVars,
          answerVars, nonceVars, verifiedAt, registerOrder, sweepNow>>

Requests == 1 .. MaxRequests
NoDevice == "no device"
NoOrder  == [callId |-> "none", cseq |-> 0]

(***************************************************************************)
(* A nonce is a fresh random string; the n-th one issued is named n, so the *)
(* list runtime->auth_nonces, newest first, is in descending order.  A     *)
(* Digest may name a nonce that was never issued.                           *)
(***************************************************************************)
Nonces == 1 .. MaxNonces
NoAuth == [digest |-> FALSE, nonce |-> 0, cnonce |-> "none", nc |-> 0, good |-> FALSE]

\* "good" says whether the response was computed with the device's secret.
Digests == [digest : {TRUE}, nonce : Nonces, cnonce : Cnonces,
            nc : NonceCounts, good : BOOLEAN]

Registers == [dev : Devices, callId : CallIds, cseq : CSeqs, expires : Expires,
              auth : Digests \cup {NoAuth}]
NoRegister == [dev |-> NoDevice]

Commands == [lookup : Requests, result : Results, user : Devices]

UsageKeys == Nonces \X Devices \X Cnonces
NoUsage   == [seen |-> FALSE, lastNc |-> 0, withoutQop |-> FALSE]

Outcomes == {"none", "queued", "refused", "200", "401", "403", "500", "503",
             "504", "unsent", "terminated"}

Init ==
    /\ phase = "idle"
    /\ now = 1 /\ setBacks = 0
    /\ arrived = 0
    /\ register = [r \in Requests |-> NoRegister]
    /\ outcome = [r \in Requests |-> "none"]
    /\ pendingAuth = {} /\ pendingAuthCount = 0
    /\ lookupId = [r \in Requests |-> 0]
    /\ deadline = [r \in Requests |-> 0]
    /\ lookupSequence = 0
    /\ announced = [l \in Requests |-> NoDevice]
    /\ authCommands = <<>> /\ answered = {}
    /\ nonceSequence = 0 /\ authNonces = {}
    /\ nonceExpires = [n \in Nonces |-> 0]
    /\ usage = [k \in UsageKeys |-> NoUsage]
    /\ nonceCleanupAt = 0
    /\ verifiedAt = [r \in Requests |-> 0]
    /\ registerOrder = [d \in Devices |-> NoOrder]
    /\ sweepNow = 0

-----------------------------------------------------------------------------
(* The wall clock: pj_gettimeofday moves on, and an operator may set it back. *)

Tick ==
    /\ now < MaxClock
    /\ now' = now + 1
    /\ UNCHANGED <<phase, setBacks, arrived, register, outcome, pendingVars,
                   lookupVars, answerVars, nonceVars, verifiedAt,
                   registerOrder, sweepNow>>

SetClockBack ==
    /\ setBacks < MaxSetBacks
    /\ setBacks' = setBacks + 1
    /\ now' \in 1 .. now - 1
    /\ UNCHANGED <<phase, arrived, register, outcome, pendingVars,
                   lookupVars, answerVars, nonceVars, verifiedAt,
                   registerOrder, sweepNow>>

-----------------------------------------------------------------------------
(* Nonces: gmv_nonce_status, gmv_issue_nonce, gmv_commit_nonce_usage.       *)

Expired(n) == nonceExpires[n] <= now

NonceLive(n) == n \in authNonces /\ ~Expired(n)

\* The list after gmv_nonce_status walked it for nonce n: the walk drops the
\* expired nonces it meets and stops at n when n is live.
NoncesWalked(n) ==
    {m \in authNonces : Expired(m) => (NonceLive(n) /\ m < n)}

\* The list after the walk for a REGISTER's Authorization, if it has one.
NoncesAfter(auth) == IF auth.digest THEN NoncesWalked(auth.nonce) ELSE authNonces

\* gmv_issue_nonce, on the list "listed".
IssueNonce(listed) ==
    /\ nonceSequence < MaxNonces
    /\ nonceSequence' = nonceSequence + 1
    /\ authNonces' = listed \cup {nonceSequence + 1}
    /\ nonceExpires' = [nonceExpires EXCEPT ![nonceSequence + 1] = now + NonceTTL]

\* The challenge of gmv_send_response.  It fails before or after the nonce is
\* put in the list.
SendChallenge(listed, sent) ==
    \/ IssueNonce(listed)
    \/ ~sent /\ authNonces' = listed /\ UNCHANGED <<nonceSequence, nonceExpires>>

UsageKey(reg) == <<reg.auth.nonce, reg.dev, reg.auth.cnonce>>

UsageCount(n) == Cardinality({k \in UsageKeys : k[1] = n /\ usage[k].seen})

\* Faulty: the expiry is not looked at again.
UsageEntryExpired(reg) ==
    /\ reg.auth.nonce \in authNonces
    /\ usage[UsageKey(reg)].seen \/ UsageCount(reg.auth.nonce) < MaxUsages

\* Faulty: one entry too many.
UsageEntryOneMore(reg) ==
    /\ NonceLive(reg.auth.nonce)
    /\ usage[UsageKey(reg)].seen \/ UsageCount(reg.auth.nonce) <= MaxUsages

\* gmv_commit_nonce_usage finds or makes the entry for (username, cnonce).
UsageEntry(reg) ==
    /\ NonceLive(reg.auth.nonce)
    /\ usage[UsageKey(reg)].seen \/ UsageCount(reg.auth.nonce) < MaxUsages

\* Faulty: the last nonce count is accepted again.
UsageFreshAgain(reg) ==
    LET u == usage[UsageKey(reg)]
    IN  IF reg.auth.nc = 0 THEN ~u.withoutQop ELSE reg.auth.nc >= u.lastNc

\* ... and accepts a Digest without qop once, one with qop if nc has grown.
UsageFresh(reg) ==
    LET u == usage[UsageKey(reg)]
    IN  IF reg.auth.nc = 0 THEN ~u.withoutQop ELSE reg.auth.nc > u.lastNc

UsageCommits(reg) == UsageEntry(reg) /\ UsageFresh(reg)

\* The entry is kept even when the Digest is then refused.
UsageAfter(reg) ==
    IF UsageEntry(reg)
    THEN [usage EXCEPT ![UsageKey(reg)] =
            [seen |-> TRUE,
             lastNc |-> IF reg.auth.nc > @.lastNc THEN reg.auth.nc ELSE @.lastNc,
             withoutQop |-> @.withoutQop \/ reg.auth.nc = 0]]
    ELSE usage

-----------------------------------------------------------------------------
(* gmv_handle_register: the r-th REGISTER reaches gmv_on_rx_request.        *)

Arrive(r) ==
    /\ phase = "receive"
    /\ r = arrived + 1 /\ r \in Requests
    /\ now + AuthLookupTimeout <= MaxClock
    /\ arrived' = r

\* A response sent at once; when it cannot be sent nothing more happens.
RespondNow(r, code, sent) ==
    outcome' = [outcome EXCEPT ![r] = IF sent THEN code ELSE "unsent"]

\* No usable device id (400), wrong realm or malformed Digest (403): "refused".
RefuseRegister(r) ==
    /\ Arrive(r)
    /\ \E sent \in BOOLEAN : RespondNow(r, "refused", sent)
    /\ UNCHANGED <<phase, timeVars, register, pendingVars, lookupVars,
                   answerVars, nonceVars, verifiedAt, registerOrder, sweepNow>>

\* An Authorization that is not a Digest, or a Digest whose nonce is unknown
\* or expired.
ChallengeRegister(r) ==
    /\ Arrive(r)
    /\ \E sent \in BOOLEAN :
         /\ RespondNow(r, "401", sent)
         /\ \/ SendChallenge(authNonces, sent)
            \/ \E n \in Nonces : ~NonceLive(n) /\ SendChallenge(NoncesWalked(n), sent)
    /\ UNCHANGED <<phase, timeVars, register, pendingVars, lookupVars, usage,
                   nonceCleanupAt, answerVars, verifiedAt, registerOrder, sweepNow>>

\* The nonce check a REGISTER passes before gmv_queue_register_lookup.
NonceAdmits(auth) == auth.digest => NonceLive(auth.nonce)

\* gmv_queue_register_lookup fails: too many pending (503), or no memory,
\* transport reference or transaction (500).
QueueFails(r) ==
    /\ Arrive(r)
    /\ \E auth \in Digests \cup {NoAuth}, sent \in BOOLEAN :
         /\ NonceAdmits(auth)
         /\ authNonces' = NoncesAfter(auth)
         /\ RespondNow(r, IF pendingAuthCount >= MaxPendingAuth THEN "503" ELSE "500", sent)
    /\ UNCHANGED <<phase, timeVars, register, pendingVars, lookupVars, usage,
                   nonceSequence, nonceExpires, nonceCleanupAt, answerVars,
                   verifiedAt, registerOrder, sweepNow>>

\* Faulty: the device is not compared.
SameDeviceAny(reg) == pendingAuth

SameDevice(reg) == {s \in pendingAuth : register[s].dev = reg.dev}

\* Joins the lookup of the first pending REGISTER of the device in the list,
\* or opens a new one and announces it with AUTH_LOOKUP_REQUIRED.
AssignLookup(r, reg) ==
    \/ \E s \in SameDevice(reg) :
         /\ \A t \in SameDevice(reg) : t <= s
         /\ lookupId' = [lookupId EXCEPT ![r] = lookupId[s]]
         /\ UNCHANGED lookupVars
    \/ /\ SameDevice(reg) = {}
       /\ lookupSequence' = lookupSequence + 1
       /\ lookupId' = [lookupId EXCEPT ![r] = lookupSequence + 1]
       /\ announced' = [announced EXCEPT ![lookupSequence + 1] = reg.dev]

QueueLookup(r) ==
    /\ Arrive(r)
    /\ pendingAuthCount < MaxPendingAuth
    /\ \E reg \in Registers :
         /\ NonceAdmits(reg.auth)
         /\ authNonces' = NoncesAfter(reg.auth)
         /\ register' = [register EXCEPT ![r] = reg]
         /\ AssignLookup(r, reg)
    /\ outcome' = [outcome EXCEPT ![r] = "queued"]
    /\ deadline' = [deadline EXCEPT ![r] = now + AuthLookupTimeout]
    /\ pendingAuth' = pendingAuth \cup {r}
    /\ pendingAuthCount' = pendingAuthCount + 1
    /\ UNCHANGED <<phase, timeVars, answerVars, nonceSequence, nonceExpires, usage,
                   nonceCleanupAt, verifiedAt, registerOrder, sweepNow>>

-----------------------------------------------------------------------------
(* The application answers a lookup it was asked for.  "reject" stands for   *)
(* GMV_SIP_AUTH_REJECT and NOT_FOUND, which take the same path.              *)

CompleteAuthLookup(command) ==
    /\ phase = "idle"
    /\ Len(authCommands) < MaxCommands
    /\ announced[command.lookup] # NoDevice
    /\ command.result # "credential" => command.user = announced[command.lookup]
    /\ authCommands' = Append(authCommands, command)
    /\ answered' = answered \cup {command}
    /\ UNCHANGED <<phase, timeVars, arrived, register, outcome, pendingVars,
                   lookupVars, nonceVars, verifiedAt, registerOrder, sweepNow>>

-----------------------------------------------------------------------------
(* gmv_complete_pending_auth and gmv_process_auth_command(s).               *)

\* Faulty: only the user name is compared.
VerifiesUser(reg, command) == command.user = reg.dev

\* pjsip_auth_srv_verify with gmv_auth_lookup as the credential source.
Verifies(reg, command) == reg.auth.good /\ command.user = reg.dev

ChecksDigest(reg, command) ==
    command.result = "credential" /\ reg.auth.digest /\ Verifies(reg, command)

Challenges(reg, command) == command.result = "credential" /\ ~reg.auth.digest

Admits(reg, command) ==
    command.result = "bypass" \/ (ChecksDigest(reg, command) /\ UsageCommits(reg))

\* Faulty: off by one.
OrderIsStaleByTwo(reg) ==
    LET order == registerOrder[reg.dev]
    IN  order # NoOrder /\ order.callId = reg.callId /\ reg.cseq + 1 < order.cseq

\* gmv_register_order_is_stale
OrderIsStale(reg) ==
    LET order == registerOrder[reg.dev]
    IN  order # NoOrder /\ order.callId = reg.callId /\ reg.cseq < order.cseq

Verdict(reg, command) ==
    CASE Admits(reg, command) /\ ~OrderIsStale(reg) -> "200"
      [] Admits(reg, command) /\ OrderIsStale(reg)  -> "500"
      [] Challenges(reg, command)                   -> "401"
      [] OTHER                                      -> "403"

\* Faulty: keeps the CSeq it expects next.
OrderAfterNext(reg) ==
    [registerOrder EXCEPT ![reg.dev] =
        IF reg.expires = 0 THEN NoOrder
        ELSE [callId |-> reg.callId, cseq |-> reg.cseq + 1]]

\* gmv_commit_register_order: an unregister forgets the device's order.
OrderAfter(reg) ==
    [registerOrder EXCEPT ![reg.dev] =
        IF reg.expires = 0 THEN NoOrder
        ELSE [callId |-> reg.callId, cseq |-> reg.cseq]]

Matching(command) == {s \in pendingAuth : lookupId[s] = command.lookup}

\* Faulty: the counter is not taken down.
UnlinkUncounted(r, candidates) ==
    /\ r \in candidates /\ \A s \in candidates : s <= r
    /\ pendingAuth' = pendingAuth \ {r}
    /\ deadline' = [deadline EXCEPT ![r] = 0]
    /\ UNCHANGED <<pendingAuthCount, lookupId>>

\* Takes r off the list; lists are walked newest first.
Unlink(r, candidates) ==
    /\ r \in candidates /\ \A s \in candidates : s <= r
    /\ pendingAuth' = pendingAuth \ {r}
    /\ pendingAuthCount' = pendingAuthCount - 1
    /\ deadline' = [deadline EXCEPT ![r] = 0]
    /\ UNCHANGED lookupId

\* The saved packet no longer parses: the transaction is ended, no event.
TerminatePending(r) ==
    /\ outcome' = [outcome EXCEPT ![r] = "terminated"]
    /\ UNCHANGED <<nonceVars, verifiedAt, registerOrder>>

AnswerPending(r, command, sent) ==
    LET reg  == register[r]
        code == Verdict(reg, command)
    IN  /\ RespondNow(r, code, sent)
        /\ \/ code = "401" /\ SendChallenge(authNonces, sent)
           \/ code # "401" /\ UNCHANGED <<nonceSequence, authNonces, nonceExpires>>
        /\ usage' = IF ChecksDigest(reg, command) THEN UsageAfter(reg) ELSE usage
        /\ verifiedAt' = IF ChecksDigest(reg, command) /\ UsageCommits(reg)
                         THEN [verifiedAt EXCEPT ![r] = now] ELSE verifiedAt
        /\ registerOrder' = IF sent /\ code = "200" THEN OrderAfter(reg)
                            ELSE registerOrder
        /\ UNCHANGED nonceCleanupAt

CompletePendingAuth(r) ==
    /\ phase = "commands" /\ authCommands # <<>>
    /\ Unlink(r, Matching(Head(authCommands)))
    /\ \/ TerminatePending(r)
       \/ \E sent \in BOOLEAN : AnswerPending(r, Head(authCommands), sent)
    /\ UNCHANGED <<phase, timeVars, arrived, register, lookupVars, answerVars, sweepNow>>

\* Faulty: an answer that comes after the timeout is still sent.
FinishAuthCommandLate ==
    /\ phase = "commands" /\ authCommands # <<>>
    /\ Matching(Head(authCommands)) = {}
    /\ authCommands' = Tail(authCommands)
    /\ outcome' = [r \in Requests |->
           IF outcome[r] = "504" /\ lookupId[r] = Head(authCommands).lookup
           THEN "200" ELSE outcome[r]]
    /\ UNCHANGED <<phase, timeVars, arrived, register, pendingVars, lookupVars,
                   answered, nonceVars, verifiedAt, registerOrder, sweepNow>>

FinishAuthCommand ==
    /\ phase = "commands" /\ authCommands # <<>>
    /\ Matching(Head(authCommands)) = {}
    /\ authCommands' = Tail(authCommands)
    /\ UNCHANGED <<phase, timeVars, arrived, register, outcome, pendingVars,
                   lookupVars, answered, nonceVars, verifiedAt, registerOrder, sweepNow>>

-----------------------------------------------------------------------------
(* gmv_process_auth_timeouts: the nonce purge, then every overdue REGISTER.  *)

\* Faulty: a REGISTER that joined the lookup of an earlier one has no deadline.
OverdueFirst ==
    {s \in pendingAuth : /\ deadline[s] <= sweepNow
                         /\ \A q \in 1 .. s - 1 : lookupId[q] # lookupId[s]}

Overdue == {s \in pendingAuth : deadline[s] <= sweepNow}

\* Faulty: the timeouts run before the answers.
StartTimeoutsEarly ==
    /\ phase = "commands"
    /\ phase' = "timeouts"
    /\ sweepNow' = now
    /\ UNCHANGED <<timeVars, arrived, register, outcome, pendingVars, lookupVars,
                   answerVars, nonceVars, verifiedAt, registerOrder>>

StartTimeouts ==
    /\ phase = "commands" /\ authCommands = <<>>
    /\ phase' = "timeouts"
    /\ sweepNow' = now
    /\ IF now >= nonceCleanupAt
       THEN /\ authNonces' = {n \in authNonces : ~Expired(n)}
            /\ nonceCleanupAt' = now + CleanupInterval
       ELSE UNCHANGED <<authNonces, nonceCleanupAt>>
    /\ UNCHANGED <<timeVars, arrived, register, outcome, pendingVars, lookupVars,
                   answerVars, nonceSequence, nonceExpires, usage, verifiedAt,
                   registerOrder>>

TimeoutPending(r) ==
    /\ phase = "timeouts"
    /\ Unlink(r, Overdue)
    /\ \E code \in {"504", "unsent", "terminated"} :
         outcome' = [outcome EXCEPT ![r] = code]
    /\ UNCHANGED <<phase, timeVars, arrived, register, lookupVars, answerVars,
                   nonceVars, verifiedAt, registerOrder, sweepNow>>

-----------------------------------------------------------------------------
(* gmv_sip_runtime_poll: received packets, then answers, then timeouts.     *)

GoTo(from, to) ==
    /\ phase = from /\ phase' = to
    /\ sweepNow' = 0
    /\ UNCHANGED <<timeVars, arrived, register, outcome, pendingVars, lookupVars,
                   answerVars, nonceVars, verifiedAt, registerOrder>>

BeginPoll == GoTo("idle", "receive")
EndReceive == GoTo("receive", "commands")
EndPoll == Overdue = {} /\ GoTo("timeouts", "idle")

Receive == \E r \in Requests :
    RefuseRegister(r) \/ ChallengeRegister(r) \/ QueueFails(r) \/ QueueLookup(r)

Poll ==
    \/ BeginPoll \/ EndReceive \/ StartTimeouts \/ EndPoll
    \/ FinishAuthCommand
    \/ \E r \in Requests : CompletePendingAuth(r) \/ TimeoutPending(r)

Next ==
    \/ Tick \/ SetClockBack
    \/ Receive
    \/ \E command \in Commands : CompleteAuthLookup(command)
    \/ Poll

Spec == Init /\ [][Next]_vars

\* The owner thread keeps polling and the wall clock keeps running.
FairSpec == Spec /\ WF_vars(Poll) /\ WF_vars(Tick)

-----------------------------------------------------------------------------
(* Properties.                                                              *)

\* Every variable has its type.
TypeOK ==
    /\ phase \in {"idle", "receive", "commands", "timeouts"}
    /\ now \in Nat /\ setBacks \in Nat /\ sweepNow \in Nat
    /\ arrived \in 0 .. MaxRequests
    /\ register \in [Requests -> Registers \cup {NoRegister}]
    /\ outcome \in [Requests -> Outcomes]
    /\ pendingAuth \subseteq Requests /\ pendingAuthCount \in Int
    /\ lookupId \in [Requests -> Nat] /\ deadline \in [Requests -> Nat]
    /\ lookupSequence \in Nat
    /\ announced \in [Requests -> Devices \cup {NoDevice}]
    /\ authCommands \in Seq(Commands) /\ answered \subseteq Commands
    /\ nonceSequence \in 0 .. MaxNonces /\ authNonces \subseteq Nonces
    /\ nonceExpires \in [Nonces -> Nat] /\ nonceCleanupAt \in Nat
    /\ usage \in [UsageKeys -> [seen : BOOLEAN, lastNc : Nat, withoutQop : BOOLEAN]]
    /\ verifiedAt \in [Requests -> Nat]
    /\ registerOrder \in [Devices -> [callId : CallIds, cseq : CSeqs] \cup {NoOrder}]

\* The counter that limits pending REGISTERs (runtime->pending_auth_count) is
\* the length of the list at every point where one of its three users can run,
\* never exceeds max_pending_auth, and the list holds exactly the REGISTERs
\* that have no final response yet.
PendingAccounting ==
    /\ pendingAuth = {r \in Requests : outcome[r] = "queued"}
    /\ pendingAuthCount = Cardinality(pendingAuth)
    /\ pendingAuthCount <= MaxPendingAuth

\* An answer to a lookup reaches REGISTERs of one device only: a pending
\* REGISTER waits for a lookup that was announced for its own device, and the
\* pending REGISTERs of a device all wait for the same one, although they come
\* and go one by one (gmv_queue_register_lookup, gmv_process_auth_timeouts).
LookupIsolation ==
    /\ \A r \in pendingAuth :
         /\ lookupId[r] \in 1 .. lookupSequence
         /\ announced[lookupId[r]] = register[r].dev
    /\ \A r, s \in pendingAuth :
         register[r].dev = register[s].dev => lookupId[r] = lookupId[s]

\* A REGISTER is accepted only because the application waved its own lookup
\* through, or because its own Digest was computed with the device's secret
\* under an answer to its own lookup and counted against its nonce
\* (gmv_complete_pending_auth).
AcceptedWithReason ==
    \A r \in Requests : outcome[r] = "200" =>
        \E c \in answered :
            /\ c.lookup = lookupId[r]
            /\ \/ c.result = "bypass"
               \/ /\ c.result = "credential" /\ c.user = register[r].dev
                  /\ register[r].auth.good /\ verifiedAt[r] # 0

\* No Digest is counted twice: two REGISTERs of a device that were both
\* verified with the same nonce and cnonce carry different nonce counts
\* (gmv_commit_nonce_usage), so a replayed REGISTER is never verified.
DigestUsedOnce ==
    \A r, s \in Requests :
        r # s /\ verifiedAt[r] # 0 /\ verifiedAt[s] # 0
              /\ UsageKey(register[r]) = UsageKey(register[s])
        => register[r].auth.nc # register[s].auth.nc

\* The nonce, checked when the REGISTER arrived, is still unexpired when the
\* answer to the lookup is applied and the Digest is counted.
NonceLiveWhenCounted ==
    \A r \in Requests : verifiedAt[r] # 0 =>
        verifiedAt[r] < nonceExpires[register[r].auth.nonce]

\* A nonce keeps at most MaxUsages entries whatever the clients send.
UsagesBounded == \A n \in Nonces : UsageCount(n) <= MaxUsages

\* A REGISTER gets one final outcome: neither a second answer, nor a timeout
\* that races an answer, nor an answer that comes after the timeout changes it.
FinalOnce ==
    [][\A r \in Requests : outcome[r] \notin {"none", "queued"} =>
           outcome'[r] = outcome[r]]_vars

\* An answer the application gave before the poll wins over the timeout, even
\* when the deadline passed meanwhile: no REGISTER is refused with 504 once an
\* answer to its lookup was accepted (order of the calls in
\* gmv_sip_runtime_poll).
AnswerBeatsTimeout ==
    [][\A r \in Requests : outcome[r] = "queued" /\ outcome'[r] = "504" =>
           \A c \in answered : c.lookup # lookupId[r]]_vars

\* Answering REGISTERs never moves the CSeq kept for a Call-ID back, although
\* coalesced REGISTERs are answered newest first (gmv_register_order_is_stale
\* before gmv_commit_register_order).
OrderNeverGoesBack ==
    [][\A d \in Devices :
           registerOrder'[d] # NoOrder /\ registerOrder'[d].callId = registerOrder[d].callId
           => registerOrder'[d].cseq >= registerOrder[d].cseq]_vars

\* What the test runtime_rejects_register_cseq_rollback_before_success_response
\* names: a REGISTER gets no 200 after a REGISTER of the same device and
\* Call-ID with a higher CSeq got one.
NoCSeqRollback ==
    [][\A r, s \in Requests :
           /\ outcome[r] = "queued" /\ outcome'[r] = "200" /\ outcome[s] = "200"
           /\ register[r].dev = register[s].dev
           /\ register[r].callId = register[s].callId
           => register[r].cseq >= register[s].cseq]_vars

\* Every parked REGISTER gets its final outcome, whether or not the
\* application ever answers.
EveryRegisterSettles ==
    \A r \in Requests : outcome[r] = "queued" ~> outcome[r] # "queued"

=============================================================================
