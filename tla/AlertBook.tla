------------------------------ MODULE AlertBook ------------------------------
(***************************************************************************)
(* What the alert engine promises of every single alert, even while        *)
(* several replicas tick because a leader lost its lock: one open alert    *)
(* for a unit and kind, mailed about at most once and before it is marked  *)
(* as notified, marked without a mail only if nobody was to have one or    *)
(* something failed, and never opened again.                               *)
(***************************************************************************)
EXTENDS Naturals, Sequences

CONSTANTS
    Units, Kinds,   \* what an alert is about
    Mailable        \* whether there is anybody to mail

VARIABLES
    alerts,         \* in order of creation
    failed          \* whether a statement or a mail has failed

vars == <<alerts, failed>>

Init == alerts = <<>> /\ failed = FALSE

Open(u, k) ==
    /\ \A i \in DOMAIN alerts : alerts[i].open => <<alerts[i].unit, alerts[i].kind>> # <<u, k>>
    /\ alerts' = Append(alerts, [unit |-> u, kind |-> k, open |-> TRUE,
                                 notified |-> FALSE, mails |-> 0])
    /\ UNCHANGED failed

Resolve(i) == alerts' = [alerts EXCEPT ![i].open = FALSE] /\ UNCHANGED failed

Mail(i) ==
    /\ Mailable /\ alerts[i].mails = 0 /\ ~alerts[i].notified
    /\ alerts' = [alerts EXCEPT ![i].mails = 1]
    /\ UNCHANGED failed

Note(i) ==
    /\ ~alerts[i].notified
    /\ Mailable /\ alerts[i].mails = 0 => failed
    /\ alerts' = [alerts EXCEPT ![i].notified = TRUE]
    /\ UNCHANGED failed

Fail == failed' = TRUE /\ UNCHANGED alerts

Next ==
    \/ \E u \in Units, k \in Kinds : Open(u, k)
    \/ \E i \in DOMAIN alerts : Resolve(i) \/ Mail(i) \/ Note(i)
    \/ Fail

Spec == Init /\ [][Next]_vars
=============================================================================
