--------------------------- MODULE DialogInvariant --------------------------
(***************************************************************************)
(* The invariant behind DialogCSeqRises of OwnerApi: where the CSeqs of a  *)
(* dialog can be, in what was sent, what waits, what is saved and what is  *)
(* on its way.                                                             *)
(***************************************************************************)
EXTENDS OwnerApi

AllKinds == Kinds \cup {"restored"}

CommandType ==
    [kind : AllKinds, dialog : Dialogs \cup {NoDialog}, method : STRING,
     association : Nat, cseq : Int, number : Int]

EventType == [dialog : Dialogs, cseq : Int]

OwnerTypeOK ==
    /\ sequence \in Nat /\ current \in [Callers -> Int] /\ granted \in Seq(Int)
    /\ queues \in [Kinds -> Seq(CommandType)] /\ calls \in Int
    /\ identity \in [Dialogs -> -1 .. MaxCSeq]
    /\ making \in [Callers -> Dialogs \cup {NoDialog}]
    /\ localCSeq \in [Dialogs -> Int] /\ sent \in [Dialogs -> Seq(Int)]
    /\ saved \in [Dialogs -> Int] /\ lost \in SUBSET Dialogs
    /\ events \in Seq(EventType)

\* A queue has the commands of its kind, and the owner allocates for a call that
\* goes to a queue of no dialog.
KindsInv ==
    /\ \A i \in 1 .. Len(queues["invite"]) :
          queues["invite"][i].kind = "invite" /\ queues["invite"][i].dialog \in Dialogs
    /\ \A i \in 1 .. Len(queues["dialog"]) :
          /\ queues["dialog"][i].kind \in {"dialog", "restored"}
          /\ queues["dialog"][i].dialog \in Dialogs
    /\ \A k \in {"message", "response", "subscribe"} : \A i \in 1 .. Len(queues[k]) :
          queues[k][i].kind = k
    /\ current[Owner] # Idle => calling \in Requests /\ calling.kind \in {"message", "subscribe"}

\* An identity is generated once.
IdentityInv ==
    \A t \in Callers :
        /\ t # Owner /\ current[t] # Idle => making[t] \in Dialogs
        /\ making[t] \in Dialogs =>
              /\ identity[making[t]] = 0
              /\ \A u \in Callers : u # t => making[u] # making[t]

Under(s, n) == \A i \in 1 .. Len(s) : s[i] < n

\* All that was sent in a dialog is below n.
Below(d, n) == Under(sent[d], n)

\* Nothing has happened in a dialog whose INVITE was not passed on.
FreshInv ==
    \A d \in Dialogs : identity[d] # Used =>
        /\ sent[d] = <<>> /\ localCSeq[d] = 0 /\ saved[d] = 0 /\ d \notin lost
        /\ \A k \in {"invite", "dialog"} : \A i \in 1 .. Len(queues[k]) :
              queues[k][i].dialog # d
        /\ \A i \in 1 .. Len(events) : events[i].dialog # d

\* Nor in one whose INVITE waits, which is the only one.
InviteInv ==
    \A i \in 1 .. Len(queues["invite"]) :
        LET c == queues["invite"][i]
            d == c.dialog
        IN
        /\ c.cseq \in 1 .. MaxCSeq
        /\ sent[d] = <<>> /\ localCSeq[d] = 0 /\ saved[d] \in {0, GivenUp} /\ d \notin lost
        /\ \A j \in 1 .. Len(events) : events[j].dialog # d
        /\ \A j \in 1 .. Len(queues["invite"]) : j # i => queues["invite"][j].dialog # d

\* The requests that wait for a dialog have rising CSeqs that are saved, are not
\* behind the live dialog and, in a restored one, above all that was sent.
RequestInv ==
    \A i \in 1 .. Len(queues["dialog"]) :
        LET c == queues["dialog"][i]
            d == c.dialog
        IN
        /\ saved[d] # 0
        /\ c.kind = "dialog" => d \notin lost
        /\ c.kind = "restored" =>
              d \in lost /\ saved[d] > 0 /\ c.cseq \in 1 .. MaxCSeq /\ Below(d, c.cseq)
        /\ saved[d] > 0 =>
              /\ c.cseq <= saved[d] /\ (localCSeq[d] > 0 => localCSeq[d] <= c.cseq)
              /\ \A j \in 1 .. i - 1 :
                    queues["dialog"][j].dialog = d => queues["dialog"][j].cseq < c.cseq

\* What is saved covers what was sent, and so does a snapshot that is on its way to
\* an application that has none.
SavedInv ==
    /\ \A d \in Dialogs :
          /\ saved[d] >= -1
          /\ localCSeq[d] <= MaxCSeq /\ (localCSeq[d] > 0 => Below(d, localCSeq[d]))
          /\ d \in lost => localCSeq[d] = 0
          /\ saved[d] > 0 =>
                /\ Below(d, saved[d] + 1)
                /\ localCSeq[d] > 0 => localCSeq[d] <= saved[d] + 1
    /\ \A i \in 1 .. Len(events) :
          LET e == events[i] IN
          /\ e.cseq > 0
          /\ saved[e.dialog] = 0 =>
                /\ Below(e.dialog, e.cseq + 1)
                /\ localCSeq[e.dialog] > 0 => localCSeq[e.dialog] <= e.cseq + 1

DialogInv ==
    /\ OwnerTypeOK /\ KindsInv /\ IdentityInv /\ FreshInv /\ InviteInv /\ RequestInv
    /\ SavedInv /\ DialogCSeqRises

=============================================================================
