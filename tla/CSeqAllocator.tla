---------------------------- MODULE CSeqAllocator ----------------------------
(***************************************************************************)
(* next_atomic_value on SIP_CSEQ (runtime.rs): a loop of                   *)
(* compare_exchange_weak with relaxed ordering.                            *)
(* SipInviteIdentity::generate runs it on any thread, send_message and     *)
(* send_subscribe on the owner thread.                                     *)
(*                                                                         *)
(* Relaxed loads may be old: a load, and the value a failed exchange       *)
(* returns, is any value the counter has held.  A weak exchange may also   *)
(* fail for no reason.  Only an exchange that succeeds is known to have    *)
(* read the latest.                                                        *)
(***************************************************************************)
EXTENDS Integers, Sequences, FiniteSets

CONSTANTS
    Callers,          \* threads that allocate
    MaxCSeq,          \* MAX_SIP_CSEQ
    MaxAllocations    \* bound: values handed out, or asked for, per process

ASSUME AllocatorAssumption == MaxCSeq \in Nat \ {0} /\ MaxAllocations \in Nat

VARIABLES
    sequence,         \* SIP_CSEQ
    current,          \* `current' of a caller in the loop, Idle outside
    granted           \* history: the values returned, in order

allocatorVars == <<sequence, current, granted>>

Idle == -1

AllocatorInit ==
    /\ sequence = 0
    /\ current = [t \in Callers |-> Idle]
    /\ granted = <<>>

Held == {0} \cup {granted[i] : i \in 1 .. Len(granted)}

NextValue(value) == IF value >= MaxCSeq THEN 1 ELSE value + 1

Load(t) ==
    /\ current[t] = Idle
    /\ Len(granted) + Cardinality({u \in Callers : current[u] # Idle}) < MaxAllocations
    /\ \E value \in Held : current' = [current EXCEPT ![t] = value]
    /\ UNCHANGED <<sequence, granted>>

\* Faulty: a load and a store instead of the exchange.
Store(t) ==
    /\ current[t] # Idle
    /\ sequence' = NextValue(current[t])
    /\ granted' = Append(granted, NextValue(current[t]))
    /\ current' = [current EXCEPT ![t] = Idle]

\* compare_exchange_weak returns Ok, and the caller gets the next value.
Exchange(t) ==
    /\ current[t] # Idle /\ current[t] = sequence
    /\ sequence' = NextValue(current[t])
    /\ granted' = Append(granted, NextValue(current[t]))
    /\ current' = [current EXCEPT ![t] = Idle]

\* compare_exchange_weak returns Err(actual).
ExchangeFails(t) ==
    /\ current[t] # Idle
    /\ \E actual \in Held : current' = [current EXCEPT ![t] = actual]
    /\ UNCHANGED <<sequence, granted>>

\* The process ends, at any point of the loop, and another begins.
RestartProcess ==
    /\ sequence' = 0
    /\ current' = [t \in Callers |-> Idle]
    /\ granted' = <<>>

AllocatorNext ==
    \/ \E t \in Callers : Load(t) \/ Exchange(t) \/ ExchangeFails(t)
    \/ RestartProcess

AllocatorSpec == AllocatorInit /\ [][AllocatorNext]_allocatorVars

-----------------------------------------------------------------------------
(* Properties.                                                              *)

Atomic == INSTANCE AtomicSequence WITH Max <- MaxCSeq

\* next_atomic_value is an atomic counter: whatever the threads read in between,
\* every value is handed out once and is the successor of the one before.
CountsAtomically == Atomic!Spec

\* Two requests get the same CSeq only if MaxCSeq others got theirs in between.
DistinctInCycle ==
    \A i, j \in 1 .. Len(granted) :
        i < j /\ j - i < MaxCSeq => granted[i] # granted[j]

=============================================================================
