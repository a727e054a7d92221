---------------------------- MODULE SourceGrants ----------------------------
(***************************************************************************)
(* What the source gate of the shim promises, without its list: a device   *)
(* may send from one place at a time, either until the application takes   *)
(* the grant back (a registered source) or up to a point in time and for   *)
(* MESSAGE only (a recovery source).  A recovery grant ends by itself the  *)
(* moment its time has come, and never displaces a registered one.         *)
(***************************************************************************)
EXTENDS Naturals

CONSTANTS Devices, Places, RecoveryTTLs

VARIABLES
    clock,    \* monotonic time
    grant,    \* the grant of each device
    verdict   \* the last call or request, and whether it took effect or passed

NoGrant   == [place |-> "nowhere", until |-> 0]
Forever   == 0
NoVerdict == [dev |-> "none", place |-> "nowhere", method |-> "none", passed |-> FALSE]

Init ==
    /\ clock = 0
    /\ grant = [d \in Devices |-> NoGrant]
    /\ verdict = NoVerdict

\* Time passes, and ends the recovery grants whose time has come.
Advance ==
    /\ clock' = clock + 1
    /\ grant' = [d \in Devices |->
                   IF grant[d].until = clock + 1 THEN NoGrant ELSE grant[d]]
    /\ UNCHANGED verdict

IsRegistered(d) == grant[d] # NoGrant /\ grant[d].until = Forever

Says(d, p, method, passed) ==
    verdict' = [dev |-> d, place |-> p, method |-> method, passed |-> passed]

Register(d, p) ==
    /\ Says(d, p, "register", TRUE)
    /\ grant' = [grant EXCEPT ![d] = [place |-> p, until |-> Forever]]
    /\ UNCHANGED clock

Recover(d, p, ttl) ==
    /\ Says(d, p, "recover", ~IsRegistered(d))
    /\ grant' = [grant EXCEPT ![d] =
                   IF IsRegistered(d) THEN @ ELSE [place |-> p, until |-> clock + ttl]]
    /\ UNCHANGED clock

Forget(d) ==
    /\ Says(d, "nowhere", "remove", TRUE)
    /\ grant' = [grant EXCEPT ![d] = NoGrant]
    /\ UNCHANGED clock

Passes(d, p, method) ==
    /\ grant[d] # NoGrant /\ grant[d].place = p
    /\ IsRegistered(d) \/ method = "MESSAGE"

Ask(d, p, method) ==
    /\ Says(d, p, method, Passes(d, p, method))
    /\ UNCHANGED <<clock, grant>>

Next ==
    \/ Advance
    \/ \E d \in Devices :
         \/ Forget(d)
         \/ \E p \in Places :
              \/ Register(d, p)
              \/ \E ttl \in RecoveryTTLs : Recover(d, p, ttl)
              \/ \E method \in {"MESSAGE", "OPTIONS"} : Ask(d, p, method)

Spec == Init /\ [][Next]_<<clock, grant, verdict>>

=============================================================================
