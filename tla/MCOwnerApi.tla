----------------------------- MODULE MCOwnerApi -----------------------------
EXTENDS Subscriptions, TLC

\* A request of each kind that is accepted ...
Plain == [operation |-> 1, protocol |-> "udp", association |-> 0, text |-> "plain",
          dialog |-> NoDialog, method |-> "none", body |-> "typed", port |-> 1,
          status |-> 0, expires |-> 0]

Kinded(kind) == [kind |-> kind] @@ Plain

\* ... and the variants that one check or another refuses.
MCRequests ==
    LET d == CHOOSE d \in Dialogs : TRUE IN
    {Kinded("message"), [Kinded("message") EXCEPT !.text = "long"],
     [Kinded("message") EXCEPT !.protocol = "tcp"],
     [Kinded("response") EXCEPT !.status = 486],
     [Kinded("response") EXCEPT !.status = 180],
     [Kinded("subscribe") EXCEPT !.method = "initial"],
     [Kinded("subscribe") EXCEPT !.method = "refresh", !.body = "none"],
     [Kinded("subscribe") EXCEPT !.method = "initial", !.expires = 1],
     [Kinded("subscribe") EXCEPT !.method = "initial", !.expires = 1, !.protocol = "tcp",
                                 !.association = 1],
     [Kinded("dialog") EXCEPT !.dialog = d, !.method = "INFO", !.body = "none"],
     [Kinded("invite") EXCEPT !.dialog = d, !.text = "line"],
     [Kinded("restored") EXCEPT !.dialog = d, !.method = "BYE", !.port = 0]}
    \cup {[Kinded(kind) EXCEPT !.dialog = e, !.method = method] :
            kind \in {"dialog", "restored"}, e \in Dialogs, method \in {"BYE", "INFO"}}
    \cup {[Kinded("invite") EXCEPT !.dialog = e] : e \in Dialogs}

=============================================================================
