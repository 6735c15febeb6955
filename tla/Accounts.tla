------------------------------ MODULE Accounts ------------------------------
(***************************************************************************)
(* Registration, invitations and password resets: handlers.go, invites.go  *)
(* and their calls of store.go, run by concurrent requests at READ         *)
(* COMMITTED. An organization, an account, an invite and a reset link are  *)
(* named by the request that makes them, and a password by the one that    *)
(* sets it.                                                                *)
(***************************************************************************)
EXTENDS Integers

CONSTANTS
    Requests,   \* requests
    Emails,     \* e-mail addresses
    Roles,      \* "admin", "staff"
    Ttl,        \* how long a link is good (7 days, 1 hour)
    MaxNow      \* bound: the clock stops here

ASSUME ConstantsOK ==
    /\ "admin" \in Roles
    /\ Ttl \in Nat \ {0} /\ MaxNow \in Nat

VARIABLES
    orgs, users, invites, resets,   \* the committed tables
    now,     \* the database's clock
    pc,      \* where each request is
    req,     \* what it asks for: kind, e-mail or link
    spent    \* history: its link was of no use any more when it arrived

tables == <<orgs, users, invites, resets>>
vars == <<tables, now, pc, req, spent>>

NoRequest == [kind |-> "none"]

Init ==
    /\ orgs = {} /\ users = <<>> /\ invites = <<>> /\ resets = <<>>
    /\ now = 0
    /\ pc = [r \in Requests |-> "idle"]
    /\ req = [r \in Requests |-> NoRequest]
    /\ spent = [r \in Requests |-> FALSE]

Tick ==
    /\ now < MaxNow
    /\ now' = now + 1
    /\ UNCHANGED <<tables, pc, req, spent>>

With(f, x, v) == [y \in DOMAIN f \cup {x} |-> IF y = x THEN v ELSE f[y]]

Goto(r, where) == pc' = [pc EXCEPT ![r] = where]

-----------------------------------------------------------------------------
(* Requests of one statement. Nobody loses an account or a role, so the    *)
(* lookup before the statement cannot be out of date.                      *)

\* Who passes requireAdmin.
Admins == {u \in DOMAIN users : users[u].role = "admin"}

NewInvite(org, e, role) ==
    [org |-> org, email |-> e, role |-> role, expires |-> now + Ttl,
     accepted |-> FALSE, deleted |-> FALSE]

CreateInvite(r) ==
    /\ pc[r] = "idle"
    /\ \E u \in Admins, e \in Emails, role \in Roles :
        invites' = With(invites, r, NewInvite(users[u].org, e, role))
    /\ Goto(r, "done")
    /\ UNCHANGED <<orgs, users, resets, now, req, spent>>

\* The open transactions that have written a row of this link.
Marking(l) == {q \in Requests : pc[q] = "commit" /\ req[q].kind \in {"join", "reset"} /\ req[q].link = l}

\* DeleteInvite waits for a transaction that has marked the invite.
RevokeInvite(r) ==
    /\ pc[r] = "idle"
    /\ \E i \in DOMAIN invites :
        /\ \E u \in Admins : users[u].org = invites[i].org
        /\ Marking(i) = {}
        /\ invites' = [invites EXCEPT ![i].deleted = TRUE]
    /\ Goto(r, "done")
    /\ UNCHANGED <<orgs, users, resets, now, req, spent>>

UserByEmail(e) == {u \in DOMAIN users : users[u].email = e}

NewReset(u) == [user |-> u, expires |-> now + Ttl, used |-> FALSE]

\* handleForgotPassword: the answer is the same whether there is an account.
ForgotPassword(r) ==
    /\ pc[r] = "idle"
    /\ \E e \in Emails :
        \/ UserByEmail(e) = {} /\ UNCHANGED resets
        \/ \E u \in UserByEmail(e) : resets' = With(resets, r, NewReset(u))
    /\ Goto(r, "done")
    /\ UNCHANGED <<orgs, users, invites, now, req, spent>>

-----------------------------------------------------------------------------
(* Requests with a transaction: register inserts the account (with its     *)
(* organization) and commits; join and reset look their link up, write the *)
(* users row, mark the link and commit.                                    *)

\* Mutant: the expiry is forgotten.
InviteValidForEver(i) == i \in DOMAIN invites /\ ~invites[i].deleted /\ ~invites[i].accepted

\* InviteByTokenHash
InviteValid(i) ==
    /\ i \in DOMAIN invites /\ ~invites[i].deleted
    /\ ~invites[i].accepted /\ invites[i].expires > now

\* Mutant: a used link is found like any other.
ResetValidUsed(t) == t \in DOMAIN resets /\ resets[t].expires > now

\* PasswordResetUserByToken
ResetValid(t) == t \in DOMAIN resets /\ ~resets[t].used /\ resets[t].expires > now

Links(kind) == IF kind = "join" THEN DOMAIN invites ELSE DOMAIN resets

Register(r) ==
    /\ pc[r] = "idle"
    /\ \E e \in Emails : req' = [req EXCEPT ![r] = [kind |-> "register", email |-> e]]
    /\ Goto(r, "write")
    /\ UNCHANGED <<tables, now, spent>>

\* A request with a link; valid is history.
Follow(r, kind, link, valid) ==
    /\ pc[r] = "idle"
    /\ req' = [req EXCEPT ![r] = [kind |-> kind, link |-> link]]
    /\ spent' = [spent EXCEPT ![r] = ~valid]
    /\ Goto(r, "lookup")
    /\ UNCHANGED <<tables, now>>

AcceptInvite(r) ==
    \E i \in DOMAIN invites :
        Follow(r, "join", i, ~invites[i].deleted /\ ~invites[i].accepted /\ invites[i].expires > now)

ResetPassword(r) ==
    \E t \in DOMAIN resets : Follow(r, "reset", t, ~resets[t].used /\ resets[t].expires > now)

Lookup(r) ==
    /\ pc[r] = "lookup"
    /\ Goto(r, IF \/ req[r].kind = "join" /\ InviteValid(req[r].link)
                  \/ req[r].kind = "reset" /\ ResetValid(req[r].link)
               THEN "write" ELSE "failed")
    /\ UNCHANGED <<tables, now, req, spent>>

\* The key of the users row a transaction writes: an e-mail for an insert, an
\* account for an update.
Key(q) ==
    CASE req[q].kind = "register" -> <<"email", req[q].email>>
      [] req[q].kind = "join" -> <<"email", invites[req[q].link].email>>
      [] req[q].kind = "reset" -> <<"account", resets[req[q].link].user>>

\* Mutant: a lock outlives its transaction.
HoldsForEver(q) == pc[q] \in {"mark", "commit", "done", "failed"} /\ req[q].kind # "none"

Holds(q) == pc[q] \in {"mark", "commit"}

\* users_email_key
Taken(e) == \E u \in DOMAIN users : users[u].email = e

\* INSERT INTO users waits for an open insert of the same e-mail and fails when
\* there is a committed one; UPDATE users waits for an open update.
Write(r) ==
    /\ pc[r] = "write"
    /\ \A q \in Requests : q # r /\ Holds(q) => Key(q) # Key(r)
    /\ Goto(r, IF req[r].kind # "reset" /\ Taken(Key(r)[2]) THEN "failed"
               ELSE IF req[r].kind = "register" THEN "commit" ELSE "mark")
    /\ UNCHANGED <<tables, now, req, spent>>

\* UPDATE invites or password_resets; a row that was deleted is no error.
Mark(r) ==
    /\ pc[r] = "mark"
    /\ Marking(req[r].link) \ {r} = {}
    /\ Goto(r, "commit")
    /\ UNCHANGED <<tables, now, req, spent>>

\* Mutant: the account is put in an organization that does not exist.
JoinedNowhere(r) ==
    LET inv == invites[req[r].link]
    IN  With(users, r, [email |-> inv.email, org |-> r, role |-> inv.role,
                        via |-> req[r].link, pass |-> r])

\* What the commit of a new account makes visible.
Joined(r) ==
    LET inv == invites[req[r].link]
    IN  With(users, r, [email |-> inv.email, org |-> inv.org, role |-> inv.role,
                        via |-> req[r].link, pass |-> r])

CommitRegister(r) ==
    /\ pc[r] = "commit" /\ req[r].kind = "register"
    /\ orgs' = orgs \cup {r}
    /\ users' = With(users, r, [email |-> req[r].email, org |-> r, role |-> "admin",
                                via |-> r, pass |-> r])
    /\ Goto(r, "done")
    /\ UNCHANGED <<invites, resets, now, req, spent>>

\* Mutant: the mark is lost.
MarkedNot(i) == invites

Marked(i) == [invites EXCEPT ![i].accepted = ~invites[i].deleted]

CommitJoin(r) ==
    /\ pc[r] = "commit" /\ req[r].kind = "join"
    /\ users' = Joined(r)
    /\ invites' = Marked(req[r].link)
    /\ Goto(r, "done")
    /\ UNCHANGED <<orgs, resets, now, req, spent>>

CommitReset(r) ==
    /\ pc[r] = "commit" /\ req[r].kind = "reset"
    /\ users' = [users EXCEPT ![resets[req[r].link].user].pass = r]
    /\ resets' = [resets EXCEPT ![req[r].link].used = TRUE]
    /\ Goto(r, "done")
    /\ UNCHANGED <<orgs, invites, now, req, spent>>

Active(r) == pc[r] \in {"lookup", "write", "mark", "commit"}

RolledBack(r) == orgs' = orgs

\* An error, a cancelled request or a crash of the API.
Rollback(r) ==
    /\ Active(r)
    /\ RolledBack(r)
    /\ Goto(r, "failed")
    /\ UNCHANGED <<users, invites, resets, now, req, spent>>

Step(r) == Lookup(r) \/ Write(r) \/ Mark(r) \/ CommitRegister(r) \/ CommitJoin(r) \/ CommitReset(r)

Quiescent ==
    /\ now = MaxNow /\ \A r \in Requests : pc[r] \in {"done", "failed"}
    /\ UNCHANGED vars

Next ==
    \/ Tick
    \/ \E r \in Requests :
        \/ CreateInvite(r) \/ RevokeInvite(r) \/ ForgotPassword(r)
        \/ Register(r) \/ AcceptInvite(r) \/ ResetPassword(r)
        \/ Step(r) \/ Rollback(r)
    \/ Quiescent

Spec == Init /\ [][Next]_vars

\* A request that has begun goes on.
FairSpec == Spec /\ \A r \in Requests : WF_vars(Step(r))

-----------------------------------------------------------------------------
(* Properties.                                                             *)

Account == [email : Emails, org : Requests, role : Roles, via : Requests, pass : Requests]
Invitation == [org : Requests, email : Emails, role : Roles, expires : Nat,
               accepted : BOOLEAN, deleted : BOOLEAN]
ResetLink == [user : Requests, expires : Nat, used : BOOLEAN]

\* Types of the tables; links and organizations that are referred to exist.
TypeOK ==
    /\ orgs \subseteq Requests
    /\ DOMAIN users \subseteq Requests /\ \A u \in DOMAIN users : users[u] \in Account
    /\ DOMAIN invites \subseteq Requests /\ \A i \in DOMAIN invites : invites[i] \in Invitation
    /\ DOMAIN resets \subseteq Requests /\ \A t \in DOMAIN resets : resets[t] \in ResetLink
    /\ \A u \in DOMAIN users : users[u].org \in orgs
    /\ \A t \in DOMAIN resets : resets[t].user \in DOMAIN users
    /\ now \in Nat
    /\ pc \in [Requests -> {"idle", "lookup", "write", "mark", "commit", "done", "failed"}]
    /\ spent \in [Requests -> BOOLEAN]
    /\ \A r \in Requests : req[r].kind \in {"join", "reset"} => req[r].link \in Links(req[r].kind)

\* Whatever requests race, an e-mail address has one account and an invite makes
\* at most one, although it is looked up outside the transaction that accepts it.
OneAccount ==
    \A u, v \in DOMAIN users :
        users[u].email = users[v].email \/ users[u].via = users[v].via => u = v

\* No organization is without an admin, not even when the registration that made
\* it failed half way.
OrgHasAdmin ==
    \A o \in orgs : \E u \in DOMAIN users : users[u].org = o /\ users[u].role = "admin"

\* A link is marked if and only if it had its effect: an accepted invite has its
\* account, an account that came by an invite left it accepted (unless it was
\* revoked), and a password set by a reset left its link used.
MarkedWithEffect ==
    /\ \A i \in DOMAIN invites : invites[i].accepted => \E u \in DOMAIN users : users[u].via = i
    /\ \A u \in DOMAIN users :
        users[u].via \in DOMAIN invites =>
            invites[users[u].via].accepted \/ invites[users[u].via].deleted
    /\ \A u \in DOMAIN users : req[users[u].pass].kind = "reset" => resets[req[users[u].pass].link].used

\* No overlap and no failure of requests leaves the tables in disorder.
AccountsSound == OneAccount /\ OrgHasAdmin /\ MarkedWithEffect

\* Who arrives with a link that was used, revoked or out of date changes nothing.
SpentLinksFail ==
    \A r \in Requests : spent[r] => pc[r] \in {"lookup", "failed"}

\* Every request that begins ends: no transactions wait for one another for ever.
RequestsEnd == \A r \in Requests : Active(r) ~> ~Active(r)

\* The tables as the book knows them: links without their expiry.
Entry(v) == [org |-> v.org, email |-> v.email, role |-> v.role,
             accepted |-> v.accepted, deleted |-> v.deleted]
BookInvites == [i \in DOMAIN invites |-> Entry(invites[i])]
BookResets == [t \in DOMAIN resets |-> [user |-> resets[t].user, used |-> resets[t].used]]

\* The requests that have looked their link up and not yet ended.
Holding == {r \in Requests : pc[r] \in {"write", "mark", "commit"} /\ req[r].kind \in {"join", "reset"}}
BookHeld == {<<r, req[r].kind, req[r].link>> : r \in Holding}

Book == INSTANCE AccountBook WITH invites <- BookInvites, resets <- BookResets, held <- BookHeld

\* What the documentation says: an invite and a reset link have their effect at most
\* once, and everything takes effect at once. Violated: a reset link that two requests
\* look up before either commits sets two passwords.
ImplementsAccountBook == Book!Spec

\* That is the only way in which the book is not kept: all else takes effect at once, and
\* who joins, resets, or resets again has looked the link up while it was good.
ImplementsLooseBook == Book!LooseSpec
=============================================================================
