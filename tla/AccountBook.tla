----------------------------- MODULE AccountBook -----------------------------
(***************************************************************************)
(* What registration, invitations and password resets promise, each taking *)
(* effect at once: an organization is founded with its admin, an invite is *)
(* accepted by the account it makes, a reset link is used by the password  *)
(* it sets. A link is looked at before it has its effect, and both links   *)
(* are good for one effect. Accounts keeps the promise but for reset links *)
(* that several requests hold at once, which LooseSpec lets them use again.*)
(***************************************************************************)
CONSTANTS Requests, Emails, Roles

VARIABLES
    orgs,      \* organizations, named by the request that founded them
    users,     \* accounts, by the request that made them
    invites,   \* invitations, by the request that sent them
    resets,    \* reset links, by the request that asked for them
    held       \* which request found which link good

tables == <<orgs, users, invites, resets>>
vars == <<tables, held>>

Init == orgs = {} /\ users = <<>> /\ invites = <<>> /\ resets = <<>> /\ held = {}

\* f with one more entry.
With(f, x, v) == [y \in DOMAIN f \cup {x} |-> IF y = x THEN v ELSE f[y]]

Unused(e) == \A u \in DOMAIN users : users[u].email # e

\* A request finds an invite or a reset link good, which it may turn out not to be
\* any more when it is to have its effect.
LookAtInvite(r, i) ==
    /\ ~invites[i].accepted /\ ~invites[i].deleted
    /\ held' = held \cup {<<r, "join", i>>}
    /\ UNCHANGED tables

LookAtReset(r, t) ==
    /\ ~resets[t].used
    /\ held' = held \cup {<<r, "reset", t>>}
    /\ UNCHANGED tables

WithoutLinksOf(r) == {h \in held : h[1] # r}

\* The request has failed.
LetGo(r) == held' = WithoutLinksOf(r) /\ UNCHANGED tables

Found(r, e) ==
    /\ r \notin orgs /\ r \notin DOMAIN users /\ Unused(e)
    /\ orgs' = orgs \cup {r}
    /\ users' = With(users, r, [email |-> e, org |-> r, role |-> "admin", via |-> r, pass |-> r])
    /\ UNCHANGED <<invites, resets, held>>

Invite(r, o, e, role) ==
    /\ r \notin DOMAIN invites /\ o \in orgs
    /\ invites' = With(invites, r, [org |-> o, email |-> e, role |-> role,
                                    accepted |-> FALSE, deleted |-> FALSE])
    /\ UNCHANGED <<orgs, users, resets, held>>

Revoke(i) ==
    /\ invites' = [invites EXCEPT ![i].deleted = TRUE]
    /\ UNCHANGED <<orgs, users, resets, held>>

\* An invite makes one account. It may have been revoked since it was found good,
\* but not have been accepted.
Join(r, i) ==
    /\ <<r, "join", i>> \in held /\ ~invites[i].accepted
    /\ r \notin DOMAIN users /\ Unused(invites[i].email)
    /\ users' = With(users, r, [email |-> invites[i].email, org |-> invites[i].org,
                                role |-> invites[i].role, via |-> i, pass |-> r])
    /\ invites' = [invites EXCEPT ![i].accepted = ~invites[i].deleted]
    /\ held' = WithoutLinksOf(r)
    /\ UNCHANGED <<orgs, resets>>

Ask(r, u) ==
    /\ r \notin DOMAIN resets
    /\ resets' = With(resets, r, [user |-> u, used |-> FALSE])
    /\ UNCHANGED <<orgs, users, invites, held>>

SetPassword(r, t) ==
    /\ <<r, "reset", t>> \in held
    /\ users' = [users EXCEPT ![resets[t].user].pass = r]
    /\ resets' = [resets EXCEPT ![t].used = TRUE]
    /\ held' = WithoutLinksOf(r)
    /\ UNCHANGED <<orgs, invites>>

\* A reset link is good for one password.
Reset(r, t) == ~resets[t].used /\ SetPassword(r, t)

Next ==
    \E r \in Requests :
        \/ \E e \in Emails : Found(r, e)
        \/ \E o \in orgs, e \in Emails, role \in Roles : Invite(r, o, e, role)
        \/ \E i \in DOMAIN invites : LookAtInvite(r, i) \/ Revoke(i) \/ Join(r, i)
        \/ \E u \in DOMAIN users : Ask(r, u)
        \/ \E t \in DOMAIN resets : LookAtReset(r, t) \/ Reset(r, t)
        \/ LetGo(r)

Spec == Init /\ [][Next]_vars

\* A link sets another password, for a request that found it good before the first.
ResetAgain(r, t) == resets[t].used /\ SetPassword(r, t)

LooseNext == Next \/ \E r \in Requests, t \in DOMAIN resets : ResetAgain(r, t)

LooseSpec == Init /\ [][LooseNext]_vars
=============================================================================
