--------------------------- MODULE AtomicSequence ---------------------------
(***************************************************************************)
(* What next_atomic_value promises: the values handed out are 1, 2, ...,   *)
(* Max, 1, 2, ... in the order of the hand-outs, whoever asks.             *)
(***************************************************************************)
EXTENDS Integers, Sequences

CONSTANT Max

VARIABLE granted       \* values handed out since the process began

Successor(value) == IF value >= Max THEN 1 ELSE value + 1

Latest == IF granted = <<>> THEN 0 ELSE granted[Len(granted)]

Init == granted = <<>>

Grant == granted' = Append(granted, Successor(Latest))

\* A new process begins anew.
Restart == granted' = <<>>

Spec == Init /\ [][Grant \/ Restart]_granted

=============================================================================
