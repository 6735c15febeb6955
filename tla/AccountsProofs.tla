--------------------------- MODULE AccountsProofs ---------------------------
(***************************************************************************)
(* Proofs about Accounts, for any number of requests, addresses and links: *)
(* the types, that no overlap or failure of requests leaves the tables in  *)
(* disorder, that a spent link has no effect, and that each request takes  *)
(* effect at once, as in AccountBook but for reset links used again.       *)
(***************************************************************************)
EXTENDS Accounts, TLAPS

Pcs == {"idle", "lookup", "write", "mark", "commit", "done", "failed"}

Reqs ==
    {NoRequest} \cup [kind : {"register"}, email : Emails]
        \cup [kind : {"join", "reset"}, link : Requests]

\* The tables are well typed and refer to what is there.
UsersOK == /\ DOMAIN users \subseteq Requests
           /\ \A u \in DOMAIN users : users[u] \in Account /\ users[u].org \in orgs
InvitesOK == /\ DOMAIN invites \subseteq Requests
             /\ \A i \in DOMAIN invites : invites[i] \in Invitation /\ invites[i].org \in orgs
ResetsOK == /\ DOMAIN resets \subseteq Requests
            /\ \A t \in DOMAIN resets : resets[t] \in ResetLink /\ resets[t].user \in DOMAIN users
TablesOK == orgs \subseteq Requests /\ UsersOK /\ InvitesOK /\ ResetsOK

\* What a request at where asks for, and that its link is there.
Known(where, x) ==
    /\ where = "idle" => x.kind = "none"
    /\ where \in {"lookup", "mark"} => x.kind \in {"join", "reset"}
    /\ where \in {"write", "commit"} => x.kind \in {"register", "join", "reset"}
    /\ x.kind = "join" => x.link \in DOMAIN invites
    /\ x.kind = "reset" => x.link \in DOMAIN resets

\* The requests that have made something.
Made == orgs \cup DOMAIN users \cup DOMAIN invites \cup DOMAIN resets

\* Only a request that is done has made something, either an account or a link.
Making ==
    /\ \A r \in Requests : pc[r] # "done" => r \notin Made
    /\ DOMAIN users \cap DOMAIN invites = {}
    /\ \A u \in DOMAIN users : pc[users[u].pass] = "done"

Types ==
    /\ TablesOK
    /\ now \in Nat /\ pc \in [Requests -> Pcs] /\ req \in [Requests -> Reqs]
    /\ spent \in [Requests -> BOOLEAN]
    /\ \A r \in Requests : Known(pc[r], req[r])
    /\ Making

-----------------------------------------------------------------------------
(* Types.                                                                  *)

\* The fields of a request.
LEMMA RequestFields ==
  ASSUME NEW x \in Reqs
  PROVE  /\ x.kind \in {"none", "register", "join", "reset"}
         /\ x.kind = "register" => x.email \in Emails
         /\ x.kind \in {"join", "reset"} => x.link \in Requests
  BY DEF Reqs, NoRequest

\* The fields of an account, an invite and a reset link.
LEMMA RowFields ==
  ASSUME TablesOK
  PROVE  /\ \A u \in DOMAIN users :
             /\ u \in Requests /\ users[u].email \in Emails /\ users[u].org \in orgs
             /\ users[u].role \in Roles /\ users[u].via \in Requests /\ users[u].pass \in Requests
         /\ \A i \in DOMAIN invites :
             /\ i \in Requests /\ invites[i].org \in orgs /\ invites[i].email \in Emails
             /\ invites[i].role \in Roles /\ invites[i].expires \in Nat
             /\ invites[i].accepted \in BOOLEAN /\ invites[i].deleted \in BOOLEAN
         /\ \A t \in DOMAIN resets :
             /\ t \in Requests /\ resets[t].user \in DOMAIN users /\ resets[t].expires \in Nat
             /\ resets[t].used \in BOOLEAN
<1>1. \A a \in Account : a.email \in Emails /\ a.role \in Roles /\ a.via \in Requests /\ a.pass \in Requests
  BY DEF Account
<1>2. \A v \in Invitation : /\ v.email \in Emails /\ v.role \in Roles
                            /\ v.expires \in Nat /\ v.accepted \in BOOLEAN /\ v.deleted \in BOOLEAN
  BY DEF Invitation
<1>3. \A t \in ResetLink : t.expires \in Nat /\ t.used \in BOOLEAN
  BY DEF ResetLink
<1>4. \A u \in DOMAIN users : u \in Requests /\ users[u] \in Account /\ users[u].org \in orgs
  BY DEF TablesOK, UsersOK
<1>5. \A i \in DOMAIN invites : /\ i \in Requests /\ invites[i] \in Invitation
                                /\ invites[i].org \in orgs
  BY DEF TablesOK, InvitesOK
<1>6. \A t \in DOMAIN resets : t \in Requests /\ resets[t] \in ResetLink /\ resets[t].user \in DOMAIN users
  BY DEF TablesOK, ResetsOK
<1> QED
  BY <1>1, <1>2, <1>3, <1>4, <1>5, <1>6

\* A table with one more row, or with one row changed.
Added(f, g, x, v) ==
    /\ DOMAIN g = DOMAIN f \cup {x} /\ g[x] = v
    /\ \A y \in DOMAIN f : y # x => g[y] = f[y]

Changed(f, g, x, v) ==
    /\ DOMAIN g = DOMAIN f
    /\ \A y \in DOMAIN f : g[y] = IF y = x THEN v ELSE f[y]

\* What With does.
LEMMA WithAdds ==
  ASSUME NEW f, NEW x, NEW v, NEW g, g = With(f, x, v)
  PROVE  Added(f, g, x, v)
  BY DEF With, Added

\* Request r, and no other, goes on at where asking for x.
Goes(r, where, x) ==
    /\ pc' = [pc EXCEPT ![r] = where]
    /\ req' = [req EXCEPT ![r] = x]

\* What Goes does.
LEMMA Went ==
  ASSUME Types, NEW r \in Requests, NEW where, NEW x, Goes(r, where, x)
  PROVE  /\ pc'[r] = where /\ req'[r] = x
         /\ \A q \in Requests : q # r => pc'[q] = pc[q] /\ req'[q] = req[q]
  BY DEF Types, Goes

\* Who asks for the same as before.
LEMMA Stays ==
  ASSUME Types, NEW r \in Requests, NEW where, Goto(r, where), req' = req
  PROVE  Goes(r, where, req[r])
  BY DEF Types, Goto, Goes

\* A step keeps the types if what it leaves is well typed and what it makes is its own.
LEMMA GoesTyped ==
  ASSUME Types, NEW r \in Requests, NEW where \in Pcs, NEW x \in Reqs, Goes(r, where, x),
         pc[r] # "done", TablesOK', now' = now, spent' \in [Requests -> BOOLEAN],
         DOMAIN invites \subseteq DOMAIN invites', DOMAIN resets \subseteq DOMAIN resets',
         Known(where, x)',
         Made' \subseteq Made \cup {m \in {r} : where = "done"},
         DOMAIN users' \cap DOMAIN invites' = {},
         \A u \in DOMAIN users' : \/ users'[u].pass = r /\ where = "done"
                                  \/ u \in DOMAIN users /\ users'[u].pass = users[u].pass
  PROVE  Types'
<1>1. /\ pc'[r] = where /\ req'[r] = x
      /\ \A q \in Requests : q # r => pc'[q] = pc[q] /\ req'[q] = req[q]
  BY Went
<1>2. now' \in Nat /\ pc' \in [Requests -> Pcs] /\ req' \in [Requests -> Reqs]
  BY DEF Types, Goes
<1>3. \A q \in Requests : Known(pc[q], req[q])'
  <2>1. ASSUME NEW q \in Requests, q # r PROVE Known(pc[q], req[q])'
    <3>1. Known(pc[q], req[q]) /\ pc'[q] = pc[q] /\ req'[q] = req[q]
      BY <1>1, <2>1 DEF Types
    <3> QED
      BY <3>1 DEF Known
  <2>2. Known(pc[r], req[r])'
    BY <1>1 DEF Known
  <2> QED
    BY <2>1, <2>2
<1>4. Making'
  <2>1. \A q \in Requests : pc'[q] # "done" => q \notin Made'
    BY <1>1 DEF Types, Making
  <2>2. \A u \in DOMAIN users : users[u].pass \in Requests /\ pc[users[u].pass] = "done"
    BY RowFields DEF Types, Making
  <2>3. \A u \in DOMAIN users' : pc'[users'[u].pass] = "done"
    BY <1>1, <2>2
  <2> QED
    BY <2>1, <2>3 DEF Making
<1> QED
  BY <1>2, <1>3, <1>4 DEF Types

\* What the actions that write do to the tables.
LEMMA CreateInviteDoes ==
  ASSUME Types, NEW r \in Requests, CreateInvite(r)
  PROVE  \E v \in Invitation :
            /\ Added(invites, invites', r, v) /\ v.org \in orgs /\ ~v.accepted /\ ~v.deleted
            /\ \E o \in orgs, e \in Emails, role \in Roles :
                 v = NewInvite(o, e, role) /\ invites' = With(invites, r, v)
<1>1. PICK u \in Admins, e \in Emails, role \in Roles :
        invites' = With(invites, r, NewInvite(users[u].org, e, role))
  BY DEF CreateInvite
<1>2. users[u].org \in orgs /\ orgs \subseteq Requests
  BY RowFields DEF Admins, Types, TablesOK
<1> DEFINE v == NewInvite(users[u].org, e, role)
<1>3. now + Ttl \in Nat
  BY ConstantsOK DEF ConstantsOK, Types
<1>4. v \in Invitation /\ v.org \in orgs /\ ~v.accepted /\ ~v.deleted
  BY <1>2, <1>3 DEF NewInvite, Invitation
<1>5. v = NewInvite(users[u].org, e, role) /\ invites' = With(invites, r, v)
  BY <1>1
<1> HIDE DEF v
<1> QED
  BY <1>2, <1>4, <1>5, WithAdds

\* Withdrawing an invite leaves accounts and resets alone, and every other invite.
LEMMA RevokeDoes ==
  ASSUME Types, NEW r \in Requests, RevokeInvite(r)
  PROVE  \E i \in DOMAIN invites, v \in Invitation :
            /\ Changed(invites, invites', i, v) /\ v.org = invites[i].org
            /\ v.email = invites[i].email /\ v.expires = invites[i].expires
            /\ v.accepted = invites[i].accepted /\ v.deleted
            /\ v = [invites[i] EXCEPT !.deleted = TRUE] /\ invites' = [invites EXCEPT ![i] = v]
<1>1. PICK i \in DOMAIN invites : invites' = [invites EXCEPT ![i].deleted = TRUE]
  BY DEF RevokeInvite
<1>2. invites[i] \in Invitation
  BY DEF Types, TablesOK, InvitesOK
<1> DEFINE v == [invites[i] EXCEPT !.deleted = TRUE]
<1>3. /\ v \in Invitation /\ v.org = invites[i].org /\ v.email = invites[i].email
      /\ v.expires = invites[i].expires /\ v.accepted = invites[i].accepted /\ v.deleted
  BY <1>2 DEF Invitation
<1>4. invites' = [invites EXCEPT ![i] = v]
  BY <1>1
<1>5. v = [invites[i] EXCEPT !.deleted = TRUE]
  OBVIOUS
<1> HIDE DEF v
<1>6. Changed(invites, invites', i, v)
  BY <1>4 DEF Changed
<1> QED
  BY <1>3, <1>4, <1>5, <1>6

\* Asking for a reset adds one link at most, and nothing else.
LEMMA ForgotDoes ==
  ASSUME Types, NEW r \in Requests, ForgotPassword(r), resets' # resets
  PROVE  \E u \in DOMAIN users, t \in ResetLink :
            /\ Added(resets, resets', r, t) /\ t.user = u /\ ~t.used
            /\ t = NewReset(u) /\ resets' = With(resets, r, t)
<1>1. PICK u \in DOMAIN users : resets' = With(resets, r, NewReset(u))
  BY DEF ForgotPassword, UserByEmail
<1> DEFINE t == NewReset(u)
<1>2. now + Ttl \in Nat /\ u \in Requests
  BY RowFields, ConstantsOK DEF ConstantsOK, Types
<1>3. t \in ResetLink /\ t.user = u /\ ~t.used
  BY <1>2 DEF NewReset, ResetLink
<1>4. t = NewReset(u) /\ resets' = With(resets, r, t)
  BY <1>1
<1> HIDE DEF t
<1> QED
  BY <1>3, <1>4, WithAdds

\* Registration adds an account of a new organization, and nothing else.
LEMMA RegisterDoes ==
  ASSUME Types, NEW r \in Requests, CommitRegister(r)
  PROVE  \E a \in Account :
            /\ Added(users, users', r, a) /\ a.email = req[r].email /\ a.org = r
            /\ a.role = "admin" /\ a.via = r /\ a.pass = r /\ req[r].email \in Emails
            /\ a = [email |-> req[r].email, org |-> r, role |-> "admin", via |-> r, pass |-> r]
            /\ users' = With(users, r, a)
<1> DEFINE a == [email |-> req[r].email, org |-> r, role |-> "admin", via |-> r, pass |-> r]
<1>1. req[r].email \in Emails /\ "admin" \in Roles
  BY RequestFields, ConstantsOK DEF CommitRegister, Types, ConstantsOK
<1>2. /\ a \in Account /\ a.email = req[r].email /\ a.org = r /\ a.role = "admin"
      /\ a.via = r /\ a.pass = r
  BY <1>1 DEF Account
<1>3. users' = With(users, r, a)
  BY DEF CommitRegister
<1>4. a = [email |-> req[r].email, org |-> r, role |-> "admin", via |-> r, pass |-> r]
  OBVIOUS
<1> HIDE DEF a
<1> QED
  BY <1>1, <1>2, <1>3, <1>4, WithAdds

\* Joining adds an account for the invite and marks that invite, and nothing else.
LEMMA JoinDoes ==
  ASSUME Types, NEW r \in Requests, CommitJoin(r)
  PROVE  \E i \in DOMAIN invites, a \in Account, v \in Invitation :
            /\ i = req[r].link /\ Added(users, users', r, a) /\ a.email = invites[i].email
            /\ a.org = invites[i].org /\ a.org \in orgs /\ a.via = i /\ a.pass = r
            /\ Changed(invites, invites', i, v) /\ v.org = invites[i].org
            /\ v.email = invites[i].email /\ v.expires = invites[i].expires
            /\ v.accepted = (~invites[i].deleted) /\ v.deleted = invites[i].deleted
            /\ a = [email |-> invites[i].email, org |-> invites[i].org, role |-> invites[i].role,
                    via |-> i, pass |-> r]
            /\ v = [invites[i] EXCEPT !.accepted = ~invites[i].deleted]
            /\ users' = With(users, r, a) /\ invites' = [invites EXCEPT ![i] = v]
<1> DEFINE i == req[r].link
           a == [email |-> invites[i].email, org |-> invites[i].org, role |-> invites[i].role,
                 via |-> i, pass |-> r]
           v == [invites[i] EXCEPT !.accepted = ~invites[i].deleted]
<1>1. i \in DOMAIN invites
  BY DEF CommitJoin, Types, Known
<1>2. /\ i \in Requests /\ invites[i].org \in orgs /\ invites[i].email \in Emails
      /\ invites[i].org \in Requests
      /\ invites[i].role \in Roles /\ invites[i].deleted \in BOOLEAN
  BY <1>1, RowFields DEF Types, TablesOK
<1>3. /\ a \in Account /\ a.email = invites[i].email /\ a.org = invites[i].org
      /\ a.org \in orgs /\ a.via = i /\ a.pass = r
  BY <1>1, <1>2 DEF Account
<1>4. /\ v \in Invitation /\ v.org = invites[i].org /\ v.email = invites[i].email
      /\ v.expires = invites[i].expires /\ v.accepted = (~invites[i].deleted)
      /\ v.deleted = invites[i].deleted
  <2>1. invites[i] \in Invitation
    BY <1>1 DEF Types, TablesOK, InvitesOK
  <2> QED
    BY <2>1 DEF Invitation
<1>5. users' = With(users, r, a) /\ invites' = [invites EXCEPT ![i] = v]
  BY DEF CommitJoin, Joined, Marked
<1>6. /\ a = [email |-> invites[i].email, org |-> invites[i].org, role |-> invites[i].role,
              via |-> i, pass |-> r]
      /\ v = [invites[i] EXCEPT !.accepted = ~invites[i].deleted]
  OBVIOUS
<1>7. i = req[r].link
  OBVIOUS
<1> HIDE DEF a, v, i
<1>8. Changed(invites, invites', i, v) /\ Added(users, users', r, a)
  BY <1>5, WithAdds DEF Changed
<1> QED
  BY <1>1, <1>3, <1>4, <1>5, <1>6, <1>7, <1>8

\* A reset sets one password and marks one link, and nothing else.
LEMMA ResetDoes ==
  ASSUME Types, NEW r \in Requests, CommitReset(r)
  PROVE  \E t \in DOMAIN resets, l \in ResetLink : \E u \in DOMAIN users, a \in Account :
            /\ t = req[r].link /\ u = resets[t].user
            /\ Changed(users, users', u, a) /\ a.email = users[u].email /\ a.org = users[u].org
            /\ a.role = users[u].role /\ a.via = users[u].via /\ a.pass = r
            /\ Changed(resets, resets', t, l) /\ l.user = u /\ l.expires = resets[t].expires
            /\ l.used
<1> DEFINE t == req[r].link
           u == resets[t].user
           a == [users[u] EXCEPT !.pass = r]
           l == [resets[t] EXCEPT !.used = TRUE]
<1>1. t \in DOMAIN resets /\ u \in DOMAIN users
  BY RowFields DEF CommitReset, Types, Known
<1>2. /\ a \in Account /\ a.email = users[u].email /\ a.org = users[u].org
      /\ a.role = users[u].role /\ a.via = users[u].via /\ a.pass = r
  <2>1. users[u] \in Account
    BY <1>1 DEF Types, TablesOK, UsersOK
  <2> QED
    BY <2>1 DEF Account
<1>3. l \in ResetLink /\ l.user = u /\ l.expires = resets[t].expires /\ l.used
  <2>1. resets[t] \in ResetLink
    BY <1>1 DEF Types, TablesOK, ResetsOK
  <2> QED
    BY <2>1 DEF ResetLink
<1>4. users' = [users EXCEPT ![u] = a] /\ resets' = [resets EXCEPT ![t] = l]
  BY DEF CommitReset
<1>5. t = req[r].link /\ u = resets[t].user
  OBVIOUS
<1> HIDE DEF a, l, t, u
<1>6. Changed(users, users', u, a) /\ Changed(resets, resets', t, l)
  BY <1>4 DEF Changed
<1> QED
  BY <1>1, <1>2, <1>3, <1>5, <1>6

\* The empty tables are well typed.
LEMMA TypesInit == Init => Types
  BY DEF Init, Types, TablesOK, UsersOK, InvitesOK, ResetsOK, Reqs, Known, Making, Made, Pcs,
         NoRequest

\* Steps of a request that leave the tables alone keep the types.
LEMMA TypesQuiet ==
  ASSUME Types, NEW r \in Requests, UNCHANGED tables,
         Register(r) \/ AcceptInvite(r) \/ ResetPassword(r) \/ Lookup(r) \/ Write(r) \/ Mark(r)
            \/ Rollback(r) \/ ForgotPassword(r)
  PROVE  Types'
<1>0. /\ TablesOK' /\ DOMAIN invites' = DOMAIN invites /\ DOMAIN resets' = DOMAIN resets
      /\ DOMAIN users' = DOMAIN users /\ Made' = Made /\ req[r] \in Reqs
      /\ DOMAIN users \cap DOMAIN invites = {} /\ Known(pc[r], req[r])
      /\ \A u \in DOMAIN users' : u \in DOMAIN users /\ users'[u].pass = users[u].pass
  BY DEF tables, TablesOK, UsersOK, InvitesOK, ResetsOK, Made, Types, Making
<1>1. SUFFICES \E where \in Pcs, x \in Reqs :
                  /\ Goes(r, where, x) /\ pc[r] # "done" /\ now' = now
                  /\ spent' \in [Requests -> BOOLEAN] /\ Known(where, x)
  <2>1. ASSUME NEW where, NEW x, Known(where, x) PROVE Known(where, x)'
    BY <1>0, <2>1 DEF Known
  <2> QED
    BY <1>0, <2>1, GoesTyped
<1>2. CASE Register(r)
  <2>1. PICK e \in Emails : req' = [req EXCEPT ![r] = [kind |-> "register", email |-> e]]
    BY <1>2 DEF Register
  <2> DEFINE x == [kind |-> "register", email |-> e]
  <2>2. x \in Reqs /\ x.kind = "register"
    BY DEF Reqs
  <2>3. Goes(r, "write", x)
    BY <1>2, <2>1 DEF Register, Goto, Goes
  <2> HIDE DEF x
  <2> QED
    BY <1>2, <2>2, <2>3 DEF Register, Types, Pcs, Known
<1>3. CASE AcceptInvite(r) \/ ResetPassword(r)
  <2>1. PICK kind \in {"join", "reset"} : \E l \in Links(kind), v \in BOOLEAN : Follow(r, kind, l, v)
    BY <1>3 DEF AcceptInvite, ResetPassword, Links
  <2>2. PICK link \in Links(kind), valid \in BOOLEAN : Follow(r, kind, link, valid)
    BY <2>1
  <2> DEFINE x == [kind |-> kind, link |-> link]
  <2>3. link \in Requests
    BY RowFields DEF Types, Links
  <2>4. x \in Reqs /\ x.kind = kind /\ x.link = link
    BY <2>3 DEF Reqs
  <2>5. Goes(r, "lookup", x)
    BY <2>2 DEF Follow, Goto, Goes
  <2> HIDE DEF x
  <2>6. Known("lookup", x)
    BY <2>4 DEF Known, Links
  <2> QED
    BY <2>2, <2>4, <2>5, <2>6 DEF Follow, Types, Pcs
<1>4. CASE Lookup(r)
  <2>1. PICK where \in {"write", "failed"} : Goto(r, where) /\ req' = req
    BY <1>4 DEF Lookup
  <2> QED
    BY <1>0, <1>4, <2>1, Stays DEF Lookup, Types, Pcs, Known
<1>5. CASE Write(r)
  <2>1. PICK where \in {"mark", "failed", "commit"} :
            Goto(r, where) /\ req' = req /\ (where = "mark" => req[r].kind # "register")
    BY <1>5 DEF Write
  <2> QED
    BY <1>0, <1>5, <2>1, Stays DEF Write, Types, Pcs, Known
<1>6. CASE Mark(r)
  BY <1>0, <1>6, Stays DEF Mark, Types, Pcs, Known
<1>7. CASE Rollback(r) \/ ForgotPassword(r)
  <2>1. PICK where \in {"done", "failed"} : Goto(r, where) /\ req' = req
    BY <1>7 DEF Rollback, ForgotPassword
  <2> QED
    BY <1>0, <1>7, <2>1, Stays DEF Rollback, ForgotPassword, Active, Types, Pcs, Known
<1> QED
  BY <1>2, <1>3, <1>4, <1>5, <1>6, <1>7

\* Every step keeps the types.
LEMMA TypesNext == Types /\ [Next]_vars => Types'
<1> SUFFICES ASSUME Types, [Next]_vars PROVE Types'
  OBVIOUS
<1>0. /\ orgs \subseteq Requests /\ UsersOK /\ InvitesOK /\ ResetsOK
      /\ \A r \in Requests : pc[r] # "done" => r \notin Made
      /\ DOMAIN users \cap DOMAIN invites = {}
      /\ spent \in [Requests -> BOOLEAN] /\ "done" \in Pcs
  BY DEF Types, TablesOK, Making, Pcs
<1>1. ASSUME NEW r \in Requests
      PROVE  \E x \in Reqs : x = req[r]
  BY <1>1 DEF Types
<1>2. ASSUME NEW r \in Requests, NEW x, x = req[r], DOMAIN invites \subseteq DOMAIN invites',
             DOMAIN resets \subseteq DOMAIN resets'
      PROVE  Known("done", x)'
  BY <1>2 DEF Types, Known
<1>3. ASSUME NEW r \in Requests, CreateInvite(r) PROVE Types'
  <2>1. PICK v \in Invitation : Added(invites, invites', r, v) /\ v.org \in orgs
    BY <1>3, CreateInviteDoes
  <2>2. PICK x \in Reqs : x = req[r]
    BY <1>1
  <2>3. /\ Goes(r, "done", x) /\ pc[r] = "idle"
        /\ UNCHANGED <<orgs, users, resets, now, spent>>
    BY <1>3, <2>2, Stays DEF CreateInvite
  <2>4. DOMAIN invites' = DOMAIN invites \cup {r} /\ Made' = Made \cup {r} /\ r \notin Made
    BY <1>0, <2>1, <2>3 DEF Added, Made
  <2>5. TablesOK'
    BY <1>0, <2>1, <2>3 DEF TablesOK, UsersOK, InvitesOK, ResetsOK, Added
  <2>6. DOMAIN users' \cap DOMAIN invites' = {}
    BY <1>0, <2>3, <2>4 DEF Made
  <2>7. Known("done", x)'
    BY <1>2, <2>2, <2>3, <2>4
  <2> QED
    BY <1>0, <2>3, <2>4, <2>5, <2>6, <2>7, GoesTyped
<1>4. ASSUME NEW r \in Requests, RevokeInvite(r) PROVE Types'
  <2>1. PICK i \in DOMAIN invites, v \in Invitation :
            Changed(invites, invites', i, v) /\ v.org = invites[i].org
    BY <1>4, RevokeDoes
  <2>2. PICK x \in Reqs : x = req[r]
    BY <1>1
  <2>3. /\ Goes(r, "done", x) /\ pc[r] = "idle"
        /\ UNCHANGED <<orgs, users, resets, now, spent>>
    BY <1>4, <2>2, Stays DEF RevokeInvite
  <2>4. DOMAIN invites' = DOMAIN invites /\ Made' = Made
    BY <2>1, <2>3 DEF Changed, Made
  <2>5. TablesOK'
    BY <1>0, <2>1, <2>3 DEF TablesOK, UsersOK, InvitesOK, ResetsOK, Changed
  <2>6. Known("done", x)'
    BY <1>2, <2>2, <2>3, <2>4
  <2> QED
    BY <1>0, <2>3, <2>4, <2>5, <2>6, GoesTyped
<1>5. ASSUME NEW r \in Requests, ForgotPassword(r), resets' # resets PROVE Types'
  <2>1. PICK u \in DOMAIN users, t \in ResetLink : Added(resets, resets', r, t) /\ t.user = u
    BY <1>5, ForgotDoes
  <2>2. PICK x \in Reqs : x = req[r]
    BY <1>1
  <2>3. /\ Goes(r, "done", x) /\ pc[r] = "idle"
        /\ UNCHANGED <<orgs, users, invites, now, spent>>
    BY <1>5, <2>2, Stays DEF ForgotPassword
  <2>4. DOMAIN resets' = DOMAIN resets \cup {r} /\ Made' = Made \cup {r}
    BY <2>1, <2>3 DEF Added, Made
  <2>5. TablesOK'
    BY <1>0, <2>1, <2>3 DEF TablesOK, UsersOK, InvitesOK, ResetsOK, Added
  <2>6. Known("done", x)'
    BY <1>2, <2>2, <2>3, <2>4
  <2> QED
    BY <1>0, <2>3, <2>4, <2>5, <2>6, GoesTyped
<1>6. ASSUME NEW r \in Requests, CommitRegister(r) PROVE Types'
  <2>1. PICK a \in Account : Added(users, users', r, a) /\ a.org = r /\ a.pass = r
    BY <1>6, RegisterDoes
  <2>2. PICK x \in Reqs : x = req[r]
    BY <1>1
  <2>3. /\ Goes(r, "done", x) /\ pc[r] = "commit" /\ orgs' = orgs \cup {r}
        /\ UNCHANGED <<invites, resets, now, spent>>
    BY <1>6, <2>2, Stays DEF CommitRegister
  <2>4. DOMAIN users' = DOMAIN users \cup {r} /\ Made' = Made \cup {r} /\ r \notin Made
    BY <1>0, <2>1, <2>3 DEF Added, Made
  <2>5. TablesOK'
    BY <1>0, <2>1, <2>3 DEF TablesOK, UsersOK, InvitesOK, ResetsOK, Added
  <2>6. DOMAIN users' \cap DOMAIN invites' = {}
    BY <1>0, <2>3, <2>4 DEF Made
  <2>7. Known("done", x)'
    BY <1>2, <2>2, <2>3
  <2>8. \A u \in DOMAIN users' : users'[u].pass = r
                                 \/ (u \in DOMAIN users /\ users'[u].pass = users[u].pass)
    BY <2>1, <2>4 DEF Added
  <2> QED
    BY <1>0, <2>3, <2>4, <2>5, <2>6, <2>7, <2>8, GoesTyped
<1>7. ASSUME NEW r \in Requests, CommitJoin(r) PROVE Types'
  <2>1. PICK i \in DOMAIN invites, a \in Account, v \in Invitation :
            /\ Added(users, users', r, a) /\ a.org \in orgs /\ a.pass = r
            /\ Changed(invites, invites', i, v) /\ v.org = invites[i].org
    BY <1>7, JoinDoes
  <2>2. PICK x \in Reqs : x = req[r]
    BY <1>1
  <2>3. /\ Goes(r, "done", x) /\ pc[r] = "commit" /\ UNCHANGED <<orgs, resets, now, spent>>
    BY <1>7, <2>2, Stays DEF CommitJoin
  <2>4. /\ DOMAIN users' = DOMAIN users \cup {r} /\ Made' = Made \cup {r} /\ r \notin Made
        /\ DOMAIN invites' = DOMAIN invites
    BY <1>0, <2>1, <2>3 DEF Added, Changed, Made
  <2>5. TablesOK'
    BY <1>0, <2>1, <2>3 DEF TablesOK, UsersOK, InvitesOK, ResetsOK, Added, Changed
  <2>6. DOMAIN users' \cap DOMAIN invites' = {}
    BY <1>0, <2>4 DEF Made
  <2>7. Known("done", x)'
    BY <1>2, <2>2, <2>3, <2>4
  <2>8. \A u \in DOMAIN users' : users'[u].pass = r
                                 \/ (u \in DOMAIN users /\ users'[u].pass = users[u].pass)
    BY <2>1, <2>4 DEF Added
  <2> QED
    BY <1>0, <2>3, <2>4, <2>5, <2>6, <2>7, <2>8, GoesTyped
<1>8. ASSUME NEW r \in Requests, CommitReset(r) PROVE Types'
  <2>1. PICK t \in DOMAIN resets, l \in ResetLink, u \in DOMAIN users, a \in Account :
            /\ Changed(users, users', u, a) /\ a.org = users[u].org /\ a.pass = r
            /\ Changed(resets, resets', t, l) /\ l.user = u
    BY <1>8, ResetDoes
  <2>2. PICK x \in Reqs : x = req[r]
    BY <1>1
  <2>3. /\ Goes(r, "done", x) /\ pc[r] = "commit" /\ UNCHANGED <<orgs, invites, now, spent>>
    BY <1>8, <2>2, Stays DEF CommitReset
  <2>4. DOMAIN users' = DOMAIN users /\ Made' = Made /\ DOMAIN resets' = DOMAIN resets
    BY <2>1, <2>3 DEF Changed, Made
  <2>5. TablesOK'
    BY <1>0, <2>1, <2>3 DEF TablesOK, UsersOK, InvitesOK, ResetsOK, Changed
  <2>6. Known("done", x)'
    BY <1>2, <2>2, <2>3, <2>4
  <2>7. \A m \in DOMAIN users' : users'[m].pass = r
                                 \/ (m \in DOMAIN users /\ users'[m].pass = users[m].pass)
    BY <2>1 DEF Changed
  <2> QED
    BY <1>0, <2>3, <2>4, <2>5, <2>6, <2>7, GoesTyped
<1>9. ASSUME NEW r \in Requests,
             Register(r) \/ AcceptInvite(r) \/ ResetPassword(r) \/ Lookup(r) \/ Write(r) \/ Mark(r)
                \/ Rollback(r) \/ (ForgotPassword(r) /\ resets' = resets)
      PROVE  Types'
  <2>1. UNCHANGED tables
    BY <1>9 DEF tables, Register, AcceptInvite, ResetPassword, Follow, Lookup, Write, Mark,
                Rollback, RolledBack, ForgotPassword
  <2> QED
    BY <1>9, <2>1, TypesQuiet
<1>10. CASE Tick \/ Quiescent \/ UNCHANGED vars
  <2>1. UNCHANGED <<tables, pc, req, spent>> /\ now' \in Nat
    BY <1>10 DEF Tick, Quiescent, vars, Types
  <2> QED
    BY <2>1 DEF tables, Types, TablesOK, UsersOK, InvitesOK, ResetsOK, Known, Making, Made
<1> QED
  BY <1>3, <1>4, <1>5, <1>6, <1>7, <1>8, <1>9, <1>10 DEF Next, Step

\* The types hold in every state.
LEMMA TypesAlways == Spec => []Types
  BY TypesInit, TypesNext, PTL DEF Spec

\* Links, accounts and organizations that are referred to exist, whatever requests
\* overlap, fail or are cancelled.
THEOREM AccountsTypeCorrect == Spec => []TypeOK
<1>1. Types => TypeOK
  <2> SUFFICES ASSUME Types PROVE TypeOK
    OBVIOUS
  <2>1. \A i \in DOMAIN invites : invites[i] \in Invitation
    BY DEF Types, TablesOK, InvitesOK
  <2>2. \A r \in Requests : req[r].kind \in {"join", "reset"} => req[r].link \in Links(req[r].kind)
    BY DEF Types, Known, Links
  <2> QED
    BY <2>1, <2>2 DEF Types, TypeOK, TablesOK, UsersOK, InvitesOK, ResetsOK, Pcs
<1> QED
  BY <1>1, TypesAlways, PTL

-----------------------------------------------------------------------------
(* What no step undoes.                                                    *)

\* Rows stay, with what they refer to; a mark stays unless the invite was revoked.
Steady ==
    /\ orgs \subseteq orgs' /\ now <= now'
    /\ DOMAIN users \subseteq DOMAIN users'
    /\ \A u \in DOMAIN users :
        /\ users'[u].email = users[u].email /\ users'[u].via = users[u].via
        /\ users'[u].org = users[u].org /\ users'[u].role = users[u].role
    /\ DOMAIN invites \subseteq DOMAIN invites'
    /\ \A i \in DOMAIN invites :
        /\ invites'[i].email = invites[i].email /\ invites'[i].expires = invites[i].expires
        /\ invites[i].deleted => invites'[i].deleted
        /\ invites[i].accepted => invites'[i].accepted \/ invites'[i].deleted
    /\ DOMAIN resets \subseteq DOMAIN resets'
    /\ \A t \in DOMAIN resets :
        resets'[t].expires = resets[t].expires /\ (resets[t].used => resets'[t].used)

\* Nothing a request relies on after it looked is undone by a step of anybody.
LEMMA SteadyNext == Types /\ [Next]_vars => Steady
<1> SUFFICES ASSUME Types, [Next]_vars PROVE Steady
  OBVIOUS
<1>0. now <= now
  BY DEF Types
<1>1. ASSUME NEW r \in Requests, CreateInvite(r) PROVE Steady
  <2>1. PICK v \in Invitation : Added(invites, invites', r, v)
    BY <1>1, CreateInviteDoes
  <2>2. r \notin DOMAIN invites /\ UNCHANGED <<orgs, users, resets, now>>
    BY <1>1 DEF CreateInvite, Types, Making, Made
  <2> QED
    BY <1>0, <2>1, <2>2 DEF Steady, Added
<1>2. ASSUME NEW r \in Requests, RevokeInvite(r) PROVE Steady
  <2>1. PICK i \in DOMAIN invites, v \in Invitation :
            /\ Changed(invites, invites', i, v) /\ v.email = invites[i].email
            /\ v.expires = invites[i].expires /\ v.accepted = invites[i].accepted /\ v.deleted
    BY <1>2, RevokeDoes
  <2> QED
    BY <1>0, <1>2, <2>1 DEF Steady, Changed, RevokeInvite
<1>3. ASSUME NEW r \in Requests, ForgotPassword(r), resets' # resets PROVE Steady
  <2>1. PICK u \in DOMAIN users, t \in ResetLink : Added(resets, resets', r, t)
    BY <1>3, ForgotDoes
  <2>2. r \notin DOMAIN resets /\ UNCHANGED <<orgs, users, invites, now>>
    BY <1>3 DEF ForgotPassword, Types, Making, Made
  <2> QED
    BY <1>0, <2>1, <2>2 DEF Steady, Added
<1>4. ASSUME NEW r \in Requests, CommitRegister(r) PROVE Steady
  <2>1. PICK a \in Account : Added(users, users', r, a)
    BY <1>4, RegisterDoes
  <2>2. /\ r \notin DOMAIN users /\ orgs \subseteq orgs' /\ UNCHANGED <<invites, resets, now>>
    BY <1>4 DEF CommitRegister, Types, Making, Made
  <2> QED
    BY <1>0, <2>1, <2>2 DEF Steady, Added
<1>5. ASSUME NEW r \in Requests, CommitJoin(r) PROVE Steady
  <2>1. PICK i \in DOMAIN invites, a \in Account, v \in Invitation :
            /\ Added(users, users', r, a) /\ Changed(invites, invites', i, v)
            /\ v.email = invites[i].email /\ v.expires = invites[i].expires
            /\ v.accepted = (~invites[i].deleted) /\ v.deleted = invites[i].deleted
    BY <1>5, JoinDoes
  <2>2. r \notin DOMAIN users /\ UNCHANGED <<orgs, resets, now>>
    BY <1>5 DEF CommitJoin, Types, Making, Made
  <2>3. \A j \in DOMAIN invites :
            invites'[j].email = invites[j].email /\ invites'[j].expires = invites[j].expires
    BY <2>1 DEF Changed
  <2>4. \A j \in DOMAIN invites :
            /\ invites[j].deleted => invites'[j].deleted
            /\ invites[j].accepted => invites'[j].accepted \/ invites'[j].deleted
    BY <2>1 DEF Changed
  <2> QED
    BY <1>0, <2>1, <2>2, <2>3, <2>4 DEF Steady, Added, Changed
<1>6. ASSUME NEW r \in Requests, CommitReset(r) PROVE Steady
  <2>1. PICK t \in DOMAIN resets, l \in ResetLink, u \in DOMAIN users, a \in Account :
            /\ Changed(users, users', u, a) /\ a.email = users[u].email /\ a.org = users[u].org
            /\ a.role = users[u].role /\ a.via = users[u].via
            /\ Changed(resets, resets', t, l) /\ l.expires = resets[t].expires /\ l.used
    BY <1>6, ResetDoes
  <2> QED
    BY <1>0, <1>6, <2>1 DEF Steady, Changed, CommitReset
<1>7. CASE UNCHANGED tables /\ now <= now'
  BY <1>7 DEF tables, Steady
<1>8. ASSUME NEW r \in Requests,
             Register(r) \/ AcceptInvite(r) \/ ResetPassword(r) \/ Lookup(r) \/ Write(r) \/ Mark(r)
                \/ Rollback(r) \/ (ForgotPassword(r) /\ resets' = resets)
      PROVE  UNCHANGED tables /\ now' = now
  BY <1>8 DEF tables, Register, AcceptInvite, ResetPassword, Follow, Lookup, Write, Mark,
              Rollback, RolledBack, ForgotPassword
<1>9. Tick \/ Quiescent \/ UNCHANGED vars => UNCHANGED tables /\ now <= now'
  BY <1>0 DEF Tick, Quiescent, vars, Types
<1> QED
  BY <1>0, <1>1, <1>2, <1>3, <1>4, <1>5, <1>6, <1>7, <1>8, <1>9 DEF Next, Step

-----------------------------------------------------------------------------
(* One account for an e-mail and for an invite. An open insert holds its   *)
(* key from the moment it has found it free, so no two of them, and no     *)
(* account, share one.                                                     *)

Inserting(r) == Holds(r) /\ req[r].kind # "reset"

EmailOf(r) == IF req[r].kind = "register" THEN req[r].email ELSE invites[req[r].link].email

Reserved ==
    /\ \A r \in Requests : Inserting(r) => ~Taken(EmailOf(r))
    /\ \A q, r \in Requests : Inserting(q) /\ Inserting(r) /\ q # r => EmailOf(q) # EmailOf(r)

\* Who made an account: its own registration or an invite to its address.
Came ==
    \A u \in DOMAIN users :
        \/ users[u].via = u
        \/ users[u].via \in DOMAIN invites /\ users[u].email = invites[users[u].via].email

OneEmail == \A u, v \in DOMAIN users : users[u].email = users[v].email => u = v

Unique == Came /\ OneEmail /\ Reserved

\* Unique is more than OneAccount: it also speaks of inserts not committed yet.
LEMMA UniqueSound == Types /\ Unique => OneAccount
<1> SUFFICES ASSUME Types, Unique, NEW u \in DOMAIN users, NEW v \in DOMAIN users,
                    users[u].via = users[v].via
             PROVE  u = v
  BY DEF Unique, OneEmail, OneAccount
<1>1. u \notin DOMAIN invites /\ v \notin DOMAIN invites
  BY DEF Types, Making
<1> QED
  BY <1>1 DEF Unique, Came, OneEmail

\* The address an inserting request claims does not change.
LEMMA EmailKept ==
  ASSUME Types, Steady, NEW q \in Requests, Inserting(q), req'[q] = req[q]
  PROVE  EmailOf(q)' = EmailOf(q)
<1>1. req[q].kind \in {"register", "join"} /\ (req[q].kind = "join" => req[q].link \in DOMAIN invites)
  BY DEF Types, Inserting, Holds, Known
<1> QED
  BY <1>1 DEF EmailOf, Steady

\* Nothing is claimed and no account is made.
LEMMA UniqueKept ==
  ASSUME Types, Unique, Steady, DOMAIN users' = DOMAIN users,
         \A q \in Requests : Inserting(q)' => Inserting(q) /\ req'[q] = req[q]
  PROVE  Unique'
<1>1. \A u \in DOMAIN users : users'[u].email = users[u].email /\ users'[u].via = users[u].via
  BY DEF Steady
<1>2. Came'
  BY <1>1 DEF Unique, Came, Steady
<1>3. OneEmail'
  BY <1>1 DEF Unique, OneEmail
<1>4. \A e : Taken(e)' <=> Taken(e)
  BY <1>1 DEF Taken
<1>5. Reserved'
  BY <1>4, EmailKept DEF Unique, Reserved
<1> QED
  BY <1>2, <1>3, <1>5 DEF Unique

\* An account is made by a request that has claimed its address.
LEMMA UniqueAdded ==
  ASSUME Types, Unique, Steady, NEW r \in Requests, Inserting(r), NEW a,
         Added(users, users', r, a), a.email = EmailOf(r),
         a.via = r \/ (a.via \in DOMAIN invites' /\ a.email = invites'[a.via].email),
         \A q \in Requests : Inserting(q)' => q # r /\ Inserting(q) /\ req'[q] = req[q]
  PROVE  Unique'
<1>1. /\ DOMAIN users' = DOMAIN users \cup {r} /\ users'[r] = a /\ r \notin DOMAIN users
      /\ \A u \in DOMAIN users : users'[u].email = users[u].email /\ users'[u].via = users[u].via
  BY DEF Added, Steady, Types, Making, Made, Inserting, Holds
<1>2. Came'
  BY <1>1 DEF Unique, Came, Steady
<1>3. \A u \in DOMAIN users : users[u].email # a.email
  BY DEF Unique, Reserved, Taken
<1>4. OneEmail'
  BY <1>1, <1>3 DEF Unique, OneEmail
<1>5. \A e : Taken(e)' => Taken(e) \/ e = EmailOf(r)
  BY <1>1 DEF Taken
<1>6. Reserved'
  BY <1>5, EmailKept DEF Unique, Reserved
<1> QED
  BY <1>2, <1>4, <1>6 DEF Unique

\* The key a request waits for is the address it inserts.
LEMMA KeyIsEmail ==
  ASSUME NEW r, req[r].kind \in {"register", "join"}
  PROVE  Key(r) = <<"email", EmailOf(r)>> /\ Key(r)[2] = EmailOf(r)
  BY DEF Key, EmailOf

\* A write that goes through claims an address nobody has and nobody claims.
LEMMA UniqueWrite ==
  ASSUME Types, Unique, Steady, NEW r \in Requests, Write(r)
  PROVE  Unique'
<1>1. PICK where : /\ Goto(r, where) /\ where \in {"mark", "failed", "commit"}
                   /\ where # "failed" /\ req[r].kind # "reset" => ~Taken(Key(r)[2])
  BY DEF Write
<1>2. /\ Goes(r, where, req[r]) /\ UNCHANGED <<tables, req>>
  BY <1>1, Stays DEF Write
<1>3. /\ pc'[r] = where /\ req' = req
      /\ \A q \in Requests : q # r => pc'[q] = pc[q]
  BY <1>2, Went
<1>4. CASE where = "failed" \/ req[r].kind = "reset"
  <2>1. \A q \in Requests : Inserting(q)' => Inserting(q) /\ req'[q] = req[q]
    BY <1>3, <1>4 DEF Inserting, Holds
  <2> QED
    BY <1>2, <2>1, UniqueKept DEF tables
<1>5. CASE where # "failed" /\ req[r].kind # "reset"
  <2>1. req[r].kind \in {"register", "join"} /\ pc[r] = "write"
    BY <1>5 DEF Types, Known, Write
  <2>2. ~Taken(EmailOf(r))
    BY <1>1, <1>5, <2>1, KeyIsEmail
  <2>3. ASSUME NEW q \in Requests, q # r, Inserting(q) PROVE EmailOf(q) # EmailOf(r)
    <3>1. Key(q) # Key(r) /\ req[q].kind \in {"register", "join"}
      BY <2>3 DEF Write, Inserting, Types, Known, Holds
    <3> QED
      BY <2>1, <3>1, KeyIsEmail
  <2>4. \A q \in Requests : q # r => (Inserting(q)' <=> Inserting(q))
    BY <1>3 DEF Inserting, Holds
  <2>5. \A q \in Requests : EmailOf(q)' = EmailOf(q)
    BY <1>2 DEF EmailOf, tables
  <2>6. \A e : Taken(e)' <=> Taken(e)
    BY <1>2 DEF Taken, tables
  <2>7. Reserved'
    BY <2>2, <2>3, <2>4, <2>5, <2>6 DEF Unique, Reserved
  <2> QED
    BY <1>2, <2>7 DEF Unique, Came, OneEmail, tables
<1> QED
  BY <1>4, <1>5

\* A step lets no two accounts, committed or open, have one address.
LEMMA UniqueNext == Types /\ Unique /\ [Next]_vars => Unique'
<1> SUFFICES ASSUME Types, Unique, [Next]_vars PROVE Unique'
  OBVIOUS
<1>0. Steady
  BY SteadyNext
<1>1. ASSUME NEW r \in Requests, NEW where, Goto(r, where),
             where \in {"mark", "commit"} => Holds(r) /\ req' = req,
             req' = req \/ where = "lookup" \/ where = "write",
             \A q \in Requests : q # r => req'[q] = req[q],
             DOMAIN users' = DOMAIN users
      PROVE  Unique'
  <2>1. pc'[r] = where /\ \A q \in Requests : q # r => pc'[q] = pc[q]
    BY <1>1 DEF Types, Goto
  <2>2. \A q \in Requests : Inserting(q)' => Inserting(q) /\ req'[q] = req[q]
    BY <1>1, <2>1 DEF Inserting, Holds
  <2> QED
    BY <1>0, <1>1, <2>2, UniqueKept
<1>2. ASSUME NEW r \in Requests, CreateInvite(r) \/ RevokeInvite(r) \/ ForgotPassword(r) PROVE Unique'
  <2>1. Goto(r, "done") /\ req' = req /\ users' = users
    BY <1>2 DEF CreateInvite, RevokeInvite, ForgotPassword
  <2> QED
    BY <1>1, <2>1
<1>3. ASSUME NEW r \in Requests, Register(r) \/ AcceptInvite(r) \/ ResetPassword(r) PROVE Unique'
  <2>1. PICK where \in {"lookup", "write"} :
            Goto(r, where) /\ users' = users /\ \A q \in Requests : q # r => req'[q] = req[q]
    BY <1>3 DEF Register, AcceptInvite, ResetPassword, Follow, tables, Types
  <2> QED
    BY <1>1, <2>1
<1>4. ASSUME NEW r \in Requests, Lookup(r) \/ Rollback(r) PROVE Unique'
  <2>1. PICK where \in {"failed", "write"} : Goto(r, where) /\ req' = req /\ users' = users
    BY <1>4 DEF Lookup, Rollback, tables
  <2> QED
    BY <1>1, <2>1
<1>5. ASSUME NEW r \in Requests, Mark(r) PROVE Unique'
  BY <1>1, <1>5 DEF Mark, Holds, tables
<1>6. ASSUME NEW r \in Requests, CommitReset(r) PROVE Unique'
  <2>1. DOMAIN users' = DOMAIN users /\ Goto(r, "done") /\ req' = req
    BY <1>6 DEF CommitReset
  <2> QED
    BY <1>1, <2>1
<1>7. ASSUME NEW r \in Requests, CommitRegister(r) \/ CommitJoin(r) PROVE Unique'
  <2>1. Inserting(r) /\ Goto(r, "done") /\ req' = req
    BY <1>7 DEF Inserting, Holds, CommitRegister, CommitJoin
  <2>2. pc'[r] = "done" /\ \A q \in Requests : q # r => pc'[q] = pc[q]
    BY <2>1 DEF Types, Goto
  <2>3. \A q \in Requests : Inserting(q)' => q # r /\ Inserting(q) /\ req'[q] = req[q]
    BY <2>1, <2>2 DEF Inserting, Holds
  <2>4. \E a : /\ Added(users, users', r, a) /\ a.email = EmailOf(r)
               /\ a.via = r \/ (a.via \in DOMAIN invites' /\ a.email = invites'[a.via].email)
    <3>1. CASE CommitRegister(r)
      BY <3>1, RegisterDoes DEF EmailOf, CommitRegister
    <3>2. CASE CommitJoin(r)
      <4>1. PICK i \in DOMAIN invites, a \in Account :
                /\ i = req[r].link /\ Added(users, users', r, a)
                /\ a.email = invites[i].email /\ a.via = i
        BY <3>2, JoinDoes
      <4>2. EmailOf(r) = invites[i].email
        BY <3>2, <4>1 DEF EmailOf, CommitJoin
      <4>3. i \in DOMAIN invites' /\ invites'[i].email = invites[i].email
        BY <1>0 DEF Steady
      <4> QED
        BY <4>1, <4>2, <4>3
    <3> QED
      BY <1>7, <3>1, <3>2
  <2> QED
    BY <1>0, <2>1, <2>3, <2>4, UniqueAdded
<1>8. ASSUME NEW r \in Requests, Write(r) PROVE Unique'
  BY <1>0, <1>8, UniqueWrite
<1>9. CASE Tick \/ Quiescent \/ UNCHANGED vars
  <2>1. UNCHANGED <<tables, pc, req>>
    BY <1>9 DEF Tick, Quiescent, vars
  <2>2. \A q \in Requests : Inserting(q)' => Inserting(q) /\ req'[q] = req[q]
    BY <2>1 DEF Inserting, Holds
  <2> QED
    BY <1>0, <2>1, <2>2, UniqueKept DEF tables
<1> QED
  BY <1>2, <1>3, <1>4, <1>5, <1>6, <1>7, <1>8, <1>9 DEF Next, Step

\* No account, no two with one address.
LEMMA UniqueInit == Init => Unique
  BY DEF Init, Unique, Came, OneEmail, Reserved, Inserting, Holds

-----------------------------------------------------------------------------
(* Admins, marks and spent links.                                          *)

\* Who founded an organization is its admin.
Founded == \A o \in orgs : o \in DOMAIN users /\ users[o].org = o /\ users[o].role = "admin"

\* Every organization keeps the admin it was founded with.
LEMMA FoundedNext == Types /\ Founded /\ [Next]_vars => Founded'
<1> SUFFICES ASSUME Types, Founded, [Next]_vars PROVE Founded'
  OBVIOUS
<1>1. Steady
  BY SteadyNext
<1>2. CASE orgs' = orgs
  BY <1>1, <1>2 DEF Steady, Founded
<1>3. ASSUME NEW r \in Requests, CommitRegister(r) PROVE Founded'
  <2>1. PICK a \in Account : Added(users, users', r, a) /\ a.org = r /\ a.role = "admin"
    BY <1>3, RegisterDoes
  <2>2. orgs' = orgs \cup {r}
    BY <1>3 DEF CommitRegister
  <2> QED
    BY <1>1, <2>1, <2>2 DEF Steady, Founded, Added
<1>4. orgs' = orgs \/ \E r \in Requests : CommitRegister(r)
  BY DEF Next, Step, Tick, CreateInvite, RevokeInvite, ForgotPassword, Register, AcceptInvite,
         ResetPassword, Follow, Lookup, Write, Mark, CommitJoin, CommitReset, Rollback, RolledBack,
         Quiescent, vars, tables
<1> QED
  BY <1>2, <1>3, <1>4

\* The password a request set, and the mark on its link.
PasswordMarked ==
    \A u \in DOMAIN users :
        req[users[u].pass].kind = "reset" => resets[req[users[u].pass].link].used

InvitesMarked ==
    /\ \A i \in DOMAIN invites : invites[i].accepted => \E u \in DOMAIN users : users[u].via = i
    /\ \A u \in DOMAIN users :
        users[u].via \in DOMAIN invites =>
            invites[users[u].via].accepted \/ invites[users[u].via].deleted

\* A spent link stays spent.
Spent ==
    \A r \in Requests : spent[r] =>
        /\ pc[r] \in {"lookup", "failed"} /\ req[r].kind \in {"join", "reset"}
        /\ req[r].kind = "join" =>
            LET i == invites[req[r].link] IN i.deleted \/ i.accepted \/ i.expires <= now
        /\ req[r].kind = "reset" =>
            LET t == resets[req[r].link] IN t.used \/ t.expires <= now

\* At the start there is nothing to mark.
LEMMA MarksInit == Init => Founded /\ PasswordMarked /\ InvitesMarked /\ Spent
  BY DEF Init, Founded, PasswordMarked, InvitesMarked, Spent

\* An invite is accepted by the very commit that makes its account.
LEMMA InvitesMarkedNext == Types /\ Came /\ InvitesMarked /\ [Next]_vars => InvitesMarked'
<1> SUFFICES ASSUME Types, Came, InvitesMarked, [Next]_vars PROVE InvitesMarked'
  OBVIOUS
<1>0. Steady
  BY SteadyNext
<1>1. \A u \in DOMAIN users : u \in DOMAIN users' /\ users'[u].via = users[u].via
  BY <1>0 DEF Steady
<1>2. ASSUME \A i \in DOMAIN invites' :
                invites'[i].accepted => \/ i \in DOMAIN invites /\ invites[i].accepted
                                        \/ \E u \in DOMAIN users' : users'[u].via = i,
             \A u \in DOMAIN users' :
                \/ u \in DOMAIN users /\ (users[u].via \in DOMAIN invites' => users[u].via \in DOMAIN invites)
                \/ users'[u].via \in DOMAIN invites' =>
                      invites'[users'[u].via].accepted \/ invites'[users'[u].via].deleted
      PROVE  InvitesMarked'
  BY <1>0, <1>1, <1>2 DEF InvitesMarked, Steady
<1>3. ASSUME NEW r \in Requests, CreateInvite(r) PROVE InvitesMarked'
  <2>1. PICK v \in Invitation : Added(invites, invites', r, v) /\ ~v.accepted
    BY <1>3, CreateInviteDoes
  <2>2. r \notin DOMAIN invites /\ r \notin DOMAIN users /\ users' = users
    BY <1>3 DEF CreateInvite, Types, Making, Made
  <2>3. \A u \in DOMAIN users : users[u].via # r
    BY <2>2 DEF Came
  <2> QED
    BY <1>2, <2>1, <2>2, <2>3 DEF Added
<1>4. ASSUME NEW r \in Requests, RevokeInvite(r) PROVE InvitesMarked'
  <2>1. PICK i \in DOMAIN invites, v \in Invitation :
            Changed(invites, invites', i, v) /\ v.accepted = invites[i].accepted
    BY <1>4, RevokeDoes
  <2>2. users' = users
    BY <1>4 DEF RevokeInvite
  <2> QED
    BY <1>2, <2>1, <2>2 DEF Changed
<1>5. ASSUME NEW r \in Requests, CommitRegister(r) PROVE InvitesMarked'
  <2>1. PICK a \in Account : Added(users, users', r, a) /\ a.via = r
    BY <1>5, RegisterDoes
  <2>2. r \notin DOMAIN invites /\ invites' = invites
    BY <1>5 DEF CommitRegister, Types, Making, Made
  <2> QED
    BY <1>2, <2>1, <2>2 DEF Added
<1>6. ASSUME NEW r \in Requests, CommitJoin(r) PROVE InvitesMarked'
  <2>1. PICK i \in DOMAIN invites, a \in Account, v \in Invitation :
            /\ Added(users, users', r, a) /\ a.via = i /\ Changed(invites, invites', i, v)
            /\ v.accepted = (~invites[i].deleted) /\ v.deleted = invites[i].deleted
    BY <1>6, JoinDoes
  <2>2. DOMAIN invites' = DOMAIN invites /\ invites'[i] = v
    BY <2>1 DEF Changed
  <2>3. \A j \in DOMAIN invites' :
            invites'[j].accepted => \/ j \in DOMAIN invites /\ invites[j].accepted
                                    \/ \E u \in DOMAIN users' : users'[u].via = j
    BY <2>1 DEF Added, Changed
  <2>4. \A u \in DOMAIN users' :
            \/ u \in DOMAIN users /\ (users[u].via \in DOMAIN invites' => users[u].via \in DOMAIN invites)
            \/ users'[u].via \in DOMAIN invites' =>
                  invites'[users'[u].via].accepted \/ invites'[users'[u].via].deleted
    BY <2>1, <2>2 DEF Added
  <2> QED
    BY <1>2, <2>3, <2>4
<1>7. ASSUME NEW r \in Requests, CommitReset(r) PROVE InvitesMarked'
  <2>1. DOMAIN users' = DOMAIN users /\ invites' = invites
    BY <1>7 DEF CommitReset
  <2> QED
    BY <1>2, <2>1
<1>8. CASE UNCHANGED <<users, invites>>
  BY <1>2, <1>8
<1>9. ASSUME NEW r \in Requests,
             Register(r) \/ AcceptInvite(r) \/ ResetPassword(r) \/ Lookup(r) \/ Write(r) \/ Mark(r)
                \/ Rollback(r) \/ ForgotPassword(r)
      PROVE  UNCHANGED <<users, invites>>
  BY <1>9 DEF tables, Register, AcceptInvite, ResetPassword, Follow, Lookup, Write, Mark, Rollback,
              ForgotPassword
<1>10. Tick \/ Quiescent \/ UNCHANGED vars => UNCHANGED <<users, invites>>
  BY DEF Tick, Quiescent, vars, tables
<1> QED
  BY <1>3, <1>4, <1>5, <1>6, <1>7, <1>8, <1>9, <1>10 DEF Next, Step

\* Who is done asks for nothing else.
LEMMA DoneStays ==
  ASSUME Types, [Next]_vars, NEW q \in Requests, pc[q] = "done"
  PROVE  req'[q] = req[q]
<1>1. ASSUME NEW r \in Requests, Register(r) \/ AcceptInvite(r) \/ ResetPassword(r)
      PROVE  req'[q] = req[q]
  <2>1. r # q
    BY <1>1 DEF Register, AcceptInvite, ResetPassword, Follow
  <2> QED
    BY <1>1, <2>1 DEF Register, AcceptInvite, ResetPassword, Follow, Types
<1>2. req' = req \/ \E r \in Requests : Register(r) \/ AcceptInvite(r) \/ ResetPassword(r)
  BY DEF Next, Step, Tick, CreateInvite, RevokeInvite, ForgotPassword, Lookup, Write, Mark,
         CommitRegister, CommitJoin, CommitReset, Rollback, Quiescent, vars
<1> QED
  BY <1>1, <1>2

\* A password is set by the very commit that uses its link.
LEMMA PasswordMarkedNext == Types /\ PasswordMarked /\ [Next]_vars => PasswordMarked'
<1> SUFFICES ASSUME Types, PasswordMarked, [Next]_vars PROVE PasswordMarked'
  OBVIOUS
<1>0. Steady
  BY SteadyNext
<1>1. \A u \in DOMAIN users : /\ users[u].pass \in Requests /\ pc[users[u].pass] = "done"
                              /\ req'[users[u].pass] = req[users[u].pass]
  BY RowFields, DoneStays DEF Types, Making
<1>2. \A q \in Requests : req[q].kind = "reset" => req[q].link \in DOMAIN resets
  BY DEF Types, Known
<1>3. ASSUME \A u \in DOMAIN users' :
                \/ u \in DOMAIN users /\ users'[u].pass = users[u].pass
                \/ req'[users'[u].pass].kind = "reset" => resets'[req'[users'[u].pass].link].used
      PROVE  PasswordMarked'
  <2>1. ASSUME NEW u \in DOMAIN users, users'[u].pass = users[u].pass, req'[users'[u].pass].kind = "reset"
        PROVE  resets'[req'[users'[u].pass].link].used
    <3>1. req[users[u].pass].kind = "reset" /\ resets[req[users[u].pass].link].used
      BY <1>1, <2>1 DEF PasswordMarked
    <3> QED
      BY <1>0, <1>1, <1>2, <2>1, <3>1 DEF Steady
  <2> QED
    BY <1>3, <2>1 DEF PasswordMarked
<1>4. ASSUME NEW r \in Requests, CommitRegister(r) \/ CommitJoin(r) PROVE PasswordMarked'
  <2>1. PICK a \in Account : Added(users, users', r, a) /\ a.pass = r
    BY <1>4, RegisterDoes, JoinDoes
  <2>2. req'[r].kind # "reset"
    BY <1>4 DEF CommitRegister, CommitJoin
  <2> QED
    BY <1>3, <2>1, <2>2 DEF Added
<1>5. ASSUME NEW r \in Requests, CommitReset(r) PROVE PasswordMarked'
  <2>1. PICK t \in DOMAIN resets, l \in ResetLink, u \in DOMAIN users, a \in Account :
            /\ t = req[r].link /\ Changed(users, users', u, a) /\ a.pass = r
            /\ Changed(resets, resets', t, l) /\ l.used
    BY <1>5, ResetDoes
  <2>2. req' = req
    BY <1>5 DEF CommitReset
  <2>3. resets'[req'[r].link].used
    BY <2>1, <2>2 DEF Changed
  <2> QED
    BY <1>3, <2>1, <2>3 DEF Changed
<1>6. users' = users \/ \E r \in Requests : CommitRegister(r) \/ CommitJoin(r) \/ CommitReset(r)
  BY DEF Next, Step, Tick, CreateInvite, RevokeInvite, ForgotPassword, Register, AcceptInvite,
         ResetPassword, Follow, Lookup, Write, Mark, Rollback, Quiescent, vars, tables
<1> QED
  BY <1>3, <1>4, <1>5, <1>6

\* What makes a link spent cannot be undone, and the lookup sees it.
LEMMA SpentNext == Types /\ Spent /\ [Next]_vars => Spent'
<1> SUFFICES ASSUME Types, Spent, [Next]_vars PROVE Spent'
  OBVIOUS
<1>0. Steady
  BY SteadyNext
<1> DEFINE Useless(x) == /\ x.kind \in {"join", "reset"}
                         /\ x.kind = "join" =>
                                \/ invites[x.link].deleted \/ invites[x.link].accepted
                                \/ invites[x.link].expires <= now
                         /\ x.kind = "reset" => resets[x.link].used \/ resets[x.link].expires <= now
<1>1. \A q \in Requests : spent[q] => pc[q] \in {"lookup", "failed"} /\ Useless(req[q])
  BY DEF Spent
<1>2. ASSUME NEW x, x.kind = "join" => x.link \in DOMAIN invites,
             x.kind = "reset" => x.link \in DOMAIN resets, Useless(x)
      PROVE  Useless(x)'
  <2>1. /\ now \in Nat /\ now' \in Nat /\ now <= now'
        /\ \A i \in DOMAIN invites : invites[i].expires \in Nat
        /\ \A t \in DOMAIN resets : resets[t].expires \in Nat
    BY <1>0, TypesNext, RowFields DEF Types, Steady
  <2>2. x.kind = "join" => \/ invites'[x.link].deleted \/ invites'[x.link].accepted
                           \/ invites'[x.link].expires <= now'
    BY <1>0, <1>2, <2>1 DEF Steady
  <2>3. x.kind = "reset" => resets'[x.link].used \/ resets'[x.link].expires <= now'
    BY <1>0, <1>2, <2>1 DEF Steady
  <2> QED
    BY <1>2, <2>2, <2>3
<1>3. ASSUME NEW r \in Requests, NEW where, NEW x, Goes(r, where, x),
             spent'[r] => where \in {"lookup", "failed"} /\ Useless(x)',
             \A q \in Requests : q # r => spent'[q] = spent[q]
      PROVE  Spent'
  <2>1. /\ pc'[r] = where /\ req'[r] = x
        /\ \A q \in Requests : q # r => pc'[q] = pc[q] /\ req'[q] = req[q]
    BY <1>3, Went
  <2>2. ASSUME NEW q \in Requests, spent'[q]
        PROVE  \E y : y = req'[q] /\ pc'[q] \in {"lookup", "failed"} /\ Useless(y)'
    <3>1. CASE q = r
      BY <1>3, <2>1, <2>2, <3>1
    <3>2. CASE q # r
      <4>1. spent[q] /\ pc'[q] = pc[q] /\ req'[q] = req[q]
        BY <1>3, <2>1, <2>2, <3>2
      <4>2. PICK y : y = req[q]
        OBVIOUS
      <4>3. Useless(y) /\ pc[q] \in {"lookup", "failed"}
        BY <1>1, <4>1, <4>2
      <4>4. (y.kind = "join" => y.link \in DOMAIN invites) /\ (y.kind = "reset" => y.link \in DOMAIN resets)
        BY <4>2 DEF Types, Known
      <4> QED
        BY <1>2, <4>1, <4>2, <4>3, <4>4
    <3> QED
      BY <3>1, <3>2
  <2> QED
    BY <2>2 DEF Spent
<1>4. ASSUME NEW r \in Requests, NEW where, Goto(r, where), req' = req, spent' = spent,
             spent[r] => where = "failed"
      PROVE  Spent'
  <2>1. PICK x : x = req[r]
    OBVIOUS
  <2>2. Goes(r, where, x)
    BY <1>4, <2>1, Stays
  <2>3. spent'[r] => Useless(x)'
    <3>1. (x.kind = "join" => x.link \in DOMAIN invites) /\ (x.kind = "reset" => x.link \in DOMAIN resets)
      BY <2>1 DEF Types, Known
    <3>2. spent[r] => Useless(x)
      BY <1>1, <2>1
    <3> QED
      BY <1>2, <1>4, <3>1, <3>2
  <2> QED
    BY <1>3, <1>4, <2>2, <2>3
<1>5. ASSUME NEW r \in Requests, Lookup(r) PROVE Spent'
  <2>1. PICK where : /\ Goto(r, where) /\ where \in {"write", "failed"}
                     /\ where = "write" => \/ req[r].kind = "join" /\ InviteValid(req[r].link)
                                           \/ req[r].kind = "reset" /\ ResetValid(req[r].link)
    BY <1>5 DEF Lookup
  <2>2. spent[r] => where = "failed"
    <3> SUFFICES ASSUME spent[r], where = "write" PROVE FALSE
      BY <2>1
    <3>1. Useless(req[r])
      BY <1>1
    <3>2. CASE req[r].kind = "join" /\ InviteValid(req[r].link)
      <4>1. invites[req[r].link].expires \in Nat /\ now \in Nat
        BY <3>2, RowFields DEF Types, InviteValid
      <4> QED
        BY <3>1, <3>2, <4>1 DEF InviteValid
    <3>3. CASE req[r].kind = "reset" /\ ResetValid(req[r].link)
      <4>1. resets[req[r].link].expires \in Nat /\ now \in Nat
        BY <3>3, RowFields DEF Types, ResetValid
      <4> QED
        BY <3>1, <3>3, <4>1 DEF ResetValid
    <3> QED
      BY <2>1, <3>2, <3>3
  <2> QED
    BY <1>4, <1>5, <2>1, <2>2 DEF Lookup
<1>6. ASSUME NEW r \in Requests, AcceptInvite(r) \/ ResetPassword(r) PROVE Spent'
  <2>1. PICK x : /\ Goes(r, "lookup", x) /\ UNCHANGED <<tables, now>>
                 /\ \A q \in Requests : q # r => spent'[q] = spent[q]
                 /\ spent'[r] => Useless(x)
    <3>1. CASE AcceptInvite(r)
      <4>1. PICK i \in DOMAIN invites :
              Follow(r, "join", i, ~invites[i].deleted /\ ~invites[i].accepted /\ invites[i].expires > now)
        BY <3>1 DEF AcceptInvite
      <4>2. PICK x : x = [kind |-> "join", link |-> i]
        OBVIOUS
      <4>3. x.kind = "join" /\ x.link = i /\ invites[i].expires \in Nat /\ now \in Nat
        BY <4>2, RowFields DEF Types
      <4>4. /\ Goes(r, "lookup", x) /\ UNCHANGED <<tables, now>>
            /\ \A q \in Requests : q # r => spent'[q] = spent[q]
            /\ spent'[r] => \/ invites[i].deleted \/ invites[i].accepted
                            \/ ~(invites[i].expires > now)
        BY <4>1, <4>2 DEF Follow, Goes, Goto, Types
      <4>5. spent'[r] => Useless(x)
        BY <4>3, <4>4
      <4> HIDE DEF Useless
      <4> QED
        BY <4>4, <4>5
    <3>2. CASE ResetPassword(r)
      <4>1. PICK t \in DOMAIN resets : Follow(r, "reset", t, ~resets[t].used /\ resets[t].expires > now)
        BY <3>2 DEF ResetPassword
      <4>2. PICK x : x = [kind |-> "reset", link |-> t]
        OBVIOUS
      <4>3. x.kind = "reset" /\ x.link = t /\ resets[t].expires \in Nat /\ now \in Nat
        BY <4>2, RowFields DEF Types
      <4>4. /\ Goes(r, "lookup", x) /\ UNCHANGED <<tables, now>>
            /\ \A q \in Requests : q # r => spent'[q] = spent[q]
            /\ spent'[r] => resets[t].used \/ ~(resets[t].expires > now)
        BY <4>1, <4>2 DEF Follow, Goes, Goto, Types
      <4>5. spent'[r] => Useless(x)
        BY <4>3, <4>4
      <4> HIDE DEF Useless
      <4> QED
        BY <4>4, <4>5
    <3> QED
      BY <1>6, <3>1, <3>2
  <2>2. spent'[r] => Useless(x)'
    BY <2>1 DEF tables
  <2> QED
    BY <1>3, <2>1, <2>2
<1>7. ASSUME NEW r \in Requests, Register(r) PROVE Spent'
  <2>1. PICK x : Goes(r, "write", x)
    BY <1>7 DEF Register, Goes, Goto
  <2>2. spent' = spent /\ ~spent[r]
    BY <1>1, <1>7 DEF Register
  <2> QED
    BY <1>3, <2>1, <2>2
<1>8. ASSUME NEW r \in Requests,
             CreateInvite(r) \/ RevokeInvite(r) \/ ForgotPassword(r) \/ Write(r) \/ Mark(r)
                \/ CommitRegister(r) \/ CommitJoin(r) \/ CommitReset(r)
      PROVE  Spent'
  <2>1. PICK where : Goto(r, where)
    BY <1>8 DEF CreateInvite, RevokeInvite, ForgotPassword, Write, Mark, CommitRegister,
                CommitJoin, CommitReset
  <2>2. req' = req /\ spent' = spent /\ pc[r] \in {"idle", "write", "mark", "commit"}
    BY <1>8 DEF CreateInvite, RevokeInvite, ForgotPassword, Write, Mark, CommitRegister,
                CommitJoin, CommitReset
  <2>3. ~spent[r]
    BY <1>1, <2>2
  <2> QED
    BY <1>4, <2>1, <2>2, <2>3
<1>9. ASSUME NEW r \in Requests, Rollback(r) PROVE Spent'
  BY <1>4, <1>9 DEF Rollback
<1>10. CASE Tick \/ Quiescent \/ UNCHANGED vars
  <2>1. UNCHANGED <<tables, pc, req, spent>> /\ now <= now' /\ now \in Nat /\ now' \in Nat
    BY <1>0, <1>10, TypesNext DEF Tick, Quiescent, vars, Steady, Types
  <2>2. ASSUME NEW q \in Requests, spent'[q]
        PROVE  \E y : y = req'[q] /\ pc'[q] \in {"lookup", "failed"} /\ Useless(y)'
    <3>1. PICK y : y = req[q]
      OBVIOUS
    <3>2. Useless(y) /\ pc[q] \in {"lookup", "failed"}
      BY <1>1, <2>1, <2>2, <3>1
    <3>3. (y.kind = "join" => y.link \in DOMAIN invites) /\ (y.kind = "reset" => y.link \in DOMAIN resets)
      BY <3>1 DEF Types, Known
    <3> QED
      BY <1>2, <2>1, <3>1, <3>2, <3>3
  <2> QED
    BY <2>2 DEF Spent
<1> QED
  BY <1>5, <1>6, <1>7, <1>8, <1>9, <1>10 DEF Next, Step

-----------------------------------------------------------------------------
(* What the runs check, for every instance.                                *)

\* The inductive invariant.
Orderly == Types /\ Unique /\ Founded /\ InvitesMarked /\ PasswordMarked /\ Spent

\* The inductive invariant holds.
LEMMA OrderlyAlways == Spec => []Orderly
<1>1. Init => Orderly
  BY TypesInit, UniqueInit, MarksInit DEF Orderly
<1>2. Orderly /\ [Next]_vars => Orderly'
  BY TypesNext, UniqueNext, FoundedNext, InvitesMarkedNext, PasswordMarkedNext, SpentNext
  DEF Orderly, Unique
<1> QED
  BY <1>1, <1>2, PTL DEF Spec

\* Whatever requests overlap, fail or are cancelled, an e-mail and an invite have at
\* most one account, every organization has an admin, and a link is marked if and
\* only if it had its effect.
THEOREM NoDisorder == Spec => []AccountsSound
<1>1. Orderly => OneAccount
  BY UniqueSound DEF Orderly
<1>2. Orderly => OrgHasAdmin
  BY DEF Orderly, Founded, OrgHasAdmin
<1>3. Orderly => MarkedWithEffect
  BY DEF Orderly, InvitesMarked, PasswordMarked, MarkedWithEffect
<1> QED
  BY <1>1, <1>2, <1>3, OrderlyAlways, PTL DEF AccountsSound

\* Nobody gets anywhere with a link that was used, revoked or out of date on arrival.
THEOREM LateLinksFail == Spec => []SpentLinksFail
<1>1. Orderly => SpentLinksFail
  BY DEF Orderly, Spent, SpentLinksFail
<1> QED
  BY <1>1, OrderlyAlways, PTL

-----------------------------------------------------------------------------
(* Each request takes effect at once: Accounts implements AccountBook.     *)

\* An accepted invite has an account, so a request that has claimed its address has
\* an invite that is not accepted.
LEMMA ClaimedNotAccepted ==
  ASSUME Orderly, NEW r \in Requests, pc[r] = "commit", req[r].kind = "join"
  PROVE  ~invites[req[r].link].accepted
<1> SUFFICES ASSUME invites[req[r].link].accepted PROVE FALSE
  OBVIOUS
<1>1. PICK i \in DOMAIN invites : i = req[r].link
  BY DEF Orderly, Types, Known
<1>2. ~Taken(invites[i].email)
  BY <1>1 DEF Orderly, Unique, Reserved, Inserting, Holds, EmailOf
<1>3. PICK u \in DOMAIN users : users[u].via = i
  BY <1>1 DEF Orderly, InvitesMarked
<1>4. users[u].email = invites[i].email
  <2>1. u # i
    BY <1>1, <1>3 DEF Orderly, Types, Making
  <2> QED
    BY <1>1, <1>3, <2>1 DEF Orderly, Unique, Came
<1> QED
  BY <1>2, <1>4 DEF Taken

\* The links the book knows to be held, after a step of one request.
HeldAfter(r, where, x) ==
    {h \in BookHeld : h[1] # r} \cup
        IF where \in {"write", "mark", "commit"} /\ x.kind \in {"join", "reset"}
        THEN {<<r, x.kind, x.link>>} ELSE {}

LEMMA HeldMoves ==
  ASSUME Types, NEW r \in Requests, NEW where, pc' = [pc EXCEPT ![r] = where],
         \A q \in Requests : q # r => req'[q] = req[q]
  PROVE  BookHeld' = HeldAfter(r, where, req'[r])
<1>1. /\ pc'[r] = where
      /\ \A q \in Requests : q # r => pc'[q] = pc[q]
  BY DEF Types
<1>2. ASSUME NEW h \in BookHeld' PROVE h \in HeldAfter(r, where, req'[r])
  BY <1>1, <1>2 DEF BookHeld, Holding, HeldAfter
<1>3. ASSUME NEW h \in BookHeld, h[1] # r PROVE h \in BookHeld'
  BY <1>1, <1>3 DEF BookHeld, Holding
<1>4. ASSUME where \in {"write", "mark", "commit"}, req'[r].kind \in {"join", "reset"}
      PROVE  <<r, req'[r].kind, req'[r].link>> \in BookHeld'
  BY <1>1, <1>4 DEF BookHeld, Holding
<1> QED
  BY <1>2, <1>3, <1>4 DEF HeldAfter

\* A request that held no link, and holds none, changes nothing for the book.
LEMMA HeldByNone ==
  ASSUME Types, NEW r \in Requests, r \notin Holding, NEW where, pc' = [pc EXCEPT ![r] = where],
         \A q \in Requests : q # r => req'[q] = req[q],
         where \in {"lookup", "done", "failed"} \/ req'[r].kind \notin {"join", "reset"}
  PROVE  BookHeld' = BookHeld
<1>1. {h \in BookHeld : h[1] # r} = BookHeld
  BY DEF BookHeld
<1> QED
  BY <1>1, HeldMoves DEF HeldAfter

\* A request that is through, or has failed, holds nothing.
LEMMA HeldNoMore ==
  ASSUME Types, NEW r \in Requests, NEW where \in {"done", "failed"},
         pc' = [pc EXCEPT ![r] = where], req' = req
  PROVE  BookHeld' = Book!WithoutLinksOf(r)
  BY HeldMoves DEF HeldAfter, Book!WithoutLinksOf

\* What an added or a changed invite is in the book.
LEMMA BookInviteAdded ==
  ASSUME NEW r, NEW v, invites' = With(invites, r, v)
  PROVE  BookInvites' = Book!With(BookInvites, r, Entry(v))
  BY DEF BookInvites, With, Book!With

\* A change to one invite is a change to one entry of the book.
LEMMA BookInviteChanged ==
  ASSUME NEW i \in DOMAIN invites, NEW v, invites' = [invites EXCEPT ![i] = v]
  PROVE  BookInvites' = [BookInvites EXCEPT ![i] = Entry(v)]
  BY DEF BookInvites

\* A field of a record that changes.
LEMMA FieldChanged ==
  ASSUME NEW o, NEW e, NEW ro, NEW acc, NEW del, NEW x
  PROVE  /\ [[org |-> o, email |-> e, role |-> ro, accepted |-> acc, deleted |-> del]
                EXCEPT !.accepted = x]
              = [org |-> o, email |-> e, role |-> ro, accepted |-> x, deleted |-> del]
         /\ [[org |-> o, email |-> e, role |-> ro, accepted |-> acc, deleted |-> del]
                EXCEPT !.deleted = x]
              = [org |-> o, email |-> e, role |-> ro, accepted |-> acc, deleted |-> x]
  OBVIOUS

\* A mark in the book.
LEMMA EntryMarked ==
  ASSUME NEW w, NEW v, NEW x, v.org = w.org, v.email = w.email, v.role = w.role
  PROVE  /\ v.accepted = w.accepted /\ v.deleted = x => Entry(v) = [Entry(w) EXCEPT !.deleted = x]
         /\ v.accepted = x /\ v.deleted = w.deleted => Entry(v) = [Entry(w) EXCEPT !.accepted = x]
<1>1. PICK o, e, ro, acc, del :
        /\ o = w.org /\ e = w.email /\ ro = w.role /\ acc = w.accepted /\ del = w.deleted
        /\ Entry(w) = [org |-> o, email |-> e, role |-> ro, accepted |-> acc, deleted |-> del]
  BY DEF Entry
<1>2. v.accepted = acc /\ v.deleted = x =>
        Entry(v) = [org |-> o, email |-> e, role |-> ro, accepted |-> acc, deleted |-> x]
  BY <1>1 DEF Entry
<1>3. v.accepted = x /\ v.deleted = del =>
        Entry(v) = [org |-> o, email |-> e, role |-> ro, accepted |-> x, deleted |-> del]
  BY <1>1 DEF Entry
<1> QED
  BY <1>1, <1>2, <1>3, FieldChanged

\* Registration founds an organization with its admin.
LEMMA RegisterFounds ==
  ASSUME Orderly, NEW r \in Requests, CommitRegister(r)
  PROVE  Book!Next
<1>1. PICK a : /\ req[r].email \in Emails /\ users' = With(users, r, a)
               /\ a = [email |-> req[r].email, org |-> r, role |-> "admin", via |-> r, pass |-> r]
  BY RegisterDoes DEF Orderly
<1>2. r \notin orgs /\ r \notin DOMAIN users
  BY DEF Orderly, Types, Making, Made, CommitRegister
<1>3. ~Taken(req[r].email)
  BY DEF Orderly, Unique, Reserved, Inserting, Holds, EmailOf, CommitRegister
<1>0. BookHeld' = BookHeld
  BY HeldByNone DEF Orderly, CommitRegister, Goto, Holding
<1>4. Book!Found(r, req[r].email)
  BY <1>1, <1>2, <1>3, <1>0
  DEF Book!Found, Book!Unused, Taken, CommitRegister, With, Book!With, BookInvites, BookResets
<1> QED
  BY <1>1, <1>4 DEF Book!Next

\* An invitation is sent by an organization that is there.
LEMMA CreateInvites ==
  ASSUME Orderly, NEW r \in Requests, CreateInvite(r)
  PROVE  Book!Next
<1>1. PICK o \in orgs, e \in Emails, role \in Roles :
            invites' = With(invites, r, NewInvite(o, e, role))
  BY CreateInviteDoes DEF Orderly
<1>2. r \notin DOMAIN BookInvites
  BY DEF Orderly, Types, Making, Made, CreateInvite, BookInvites
<1>3. Entry(NewInvite(o, e, role)) =
        [org |-> o, email |-> e, role |-> role, accepted |-> FALSE, deleted |-> FALSE]
  BY DEF Entry, NewInvite
<1>4. BookInvites' = Book!With(BookInvites, r,
            [org |-> o, email |-> e, role |-> role, accepted |-> FALSE, deleted |-> FALSE])
  BY <1>1, <1>3, BookInviteAdded
<1>0. BookHeld' = BookHeld
  BY HeldByNone DEF Orderly, CreateInvite, Goto, Holding
<1>5. Book!Invite(r, o, e, role)
  BY <1>1, <1>2, <1>4, <1>0 DEF Book!Invite, CreateInvite, BookResets
<1> QED
  BY <1>1, <1>5 DEF Book!Next

\* An invitation is withdrawn.
LEMMA RevokeRevokes ==
  ASSUME Orderly, NEW r \in Requests, RevokeInvite(r)
  PROVE  Book!Next
<1>1. PICK i \in DOMAIN invites, v \in Invitation :
            v = [invites[i] EXCEPT !.deleted = TRUE] /\ invites' = [invites EXCEPT ![i] = v]
  BY RevokeDoes DEF Orderly
<1>2. invites[i] \in Invitation
  BY DEF Orderly, Types, TablesOK, InvitesOK
<1>3. Entry(v) = [Entry(invites[i]) EXCEPT !.deleted = TRUE]
  <2>1. /\ v.org = invites[i].org /\ v.email = invites[i].email /\ v.role = invites[i].role
        /\ v.accepted = invites[i].accepted /\ v.deleted = TRUE
    BY <1>1, <1>2 DEF Invitation
  <2> QED
    BY <2>1, EntryMarked
<1>4. BookInvites[i] = Entry(invites[i]) /\ i \in DOMAIN BookInvites
  BY DEF BookInvites
<1>5. BookInvites' = [BookInvites EXCEPT ![i].deleted = TRUE]
  <2>1. BookInvites' = [BookInvites EXCEPT ![i] = Entry(v)]
    BY <1>1, BookInviteChanged
  <2>2. Entry(v) = [BookInvites[i] EXCEPT !.deleted = TRUE]
    BY <1>3, <1>4, Zenon
  <2> QED
    BY <2>1, <2>2, Zenon
<1>0. BookHeld' = BookHeld
  BY HeldByNone DEF Orderly, RevokeInvite, Goto, Holding
<1>6. Book!Revoke(i)
  BY <1>5, <1>0 DEF Book!Revoke, RevokeInvite, BookResets
<1> QED
  BY <1>4, <1>6 DEF Book!Next

\* Who joins uses up an invite that was not used before.
LEMMA JoinJoins ==
  ASSUME Orderly, NEW r \in Requests, CommitJoin(r)
  PROVE  Book!Next
<1>1. PICK i \in DOMAIN invites, a \in Account, v \in Invitation :
            /\ i = req[r].link
            /\ a = [email |-> invites[i].email, org |-> invites[i].org, role |-> invites[i].role,
                    via |-> i, pass |-> r]
            /\ v = [invites[i] EXCEPT !.accepted = ~invites[i].deleted]
            /\ users' = With(users, r, a) /\ invites' = [invites EXCEPT ![i] = v]
  BY JoinDoes DEF Orderly
<1>2. invites[i] \in Invitation
  BY DEF Orderly, Types, TablesOK, InvitesOK
<1>3. Entry(v) = [Entry(invites[i]) EXCEPT !.accepted = ~invites[i].deleted]
  <2>1. /\ v.org = invites[i].org /\ v.email = invites[i].email /\ v.role = invites[i].role
        /\ v.accepted = (~invites[i].deleted) /\ v.deleted = invites[i].deleted
    BY <1>1, <1>2 DEF Invitation
  <2> QED
    BY <2>1, EntryMarked
<1>4. /\ BookInvites[i] = Entry(invites[i]) /\ i \in DOMAIN BookInvites
      /\ BookInvites[i].email = invites[i].email /\ BookInvites[i].org = invites[i].org
      /\ BookInvites[i].role = invites[i].role /\ BookInvites[i].deleted = invites[i].deleted
      /\ BookInvites[i].accepted = invites[i].accepted
  BY DEF BookInvites, Entry
<1>5. BookInvites' = [BookInvites EXCEPT ![i].accepted = ~BookInvites[i].deleted]
  <2>1. BookInvites' = [BookInvites EXCEPT ![i] = Entry(v)]
    BY <1>1, BookInviteChanged
  <2>2. Entry(v) = [BookInvites[i] EXCEPT !.accepted = ~BookInvites[i].deleted]
    BY <1>3, <1>4, Zenon
  <2> QED
    BY <2>1, <2>2, Zenon
<1>6. ~BookInvites[i].accepted
  BY <1>1, <1>4, ClaimedNotAccepted DEF CommitJoin
<1>7. ~Taken(invites[i].email) /\ r \notin DOMAIN users
  BY <1>1
  DEF Orderly, Types, Making, Made, Unique, Reserved, Inserting, Holds, EmailOf, CommitJoin
<1>8. users' = Book!With(users, r, [email |-> BookInvites[i].email, org |-> BookInvites[i].org,
                                role |-> BookInvites[i].role, via |-> i, pass |-> r])
  BY <1>1, <1>4 DEF With, Book!With
<1>0. <<r, "join", i>> \in BookHeld /\ BookHeld' = Book!WithoutLinksOf(r)
  BY <1>1, HeldNoMore DEF Orderly, CommitJoin, Goto, BookHeld, Holding
<1>9. Book!Join(r, i)
  BY <1>4, <1>5, <1>6, <1>7, <1>8, <1>0 DEF Book!Join, Book!Unused, Taken, CommitJoin, BookResets
<1> QED
  BY <1>4, <1>9 DEF Book!Next

\* A reset link is asked for by an account that is there.
LEMMA ForgotAsks ==
  ASSUME Orderly, NEW r \in Requests, ForgotPassword(r), resets' # resets
  PROVE  Book!Next
<1>1. PICK u \in DOMAIN users : resets' = With(resets, r, NewReset(u))
  BY ForgotDoes DEF Orderly
<1>2. r \notin DOMAIN BookResets
  BY DEF Orderly, Types, Making, Made, ForgotPassword, BookResets
<1>3. BookResets' = Book!With(BookResets, r, [user |-> u, used |-> FALSE])
  BY <1>1 DEF BookResets, With, Book!With, NewReset
<1>0. BookHeld' = BookHeld
  BY HeldByNone DEF Orderly, ForgotPassword, Goto, Holding
<1>4. Book!Ask(r, u)
  BY <1>2, <1>3, <1>0 DEF Book!Ask, ForgotPassword, BookInvites
<1> QED
  BY <1>4 DEF Book!Next

\* The other fields of a link stay when it is used.
LEMMA UsedChanged ==
  ASSUME NEW u, NEW b, NEW x
  PROVE  [[user |-> u, used |-> b] EXCEPT !.used = x] = [user |-> u, used |-> x]
  OBVIOUS

\* A password is set by a link that is used, and may have been used before.
LEMMA ResetResets ==
  ASSUME Orderly, NEW r \in Requests, CommitReset(r)
  PROVE  Book!LooseNext
<1>1. PICK t \in DOMAIN resets : /\ t = req[r].link
                                 /\ users' = [users EXCEPT ![resets[t].user].pass = r]
                                 /\ resets' = [resets EXCEPT ![t].used = TRUE]
  BY DEF CommitReset, Orderly, Types, Known
<1>2. resets[t] \in ResetLink
  BY DEF Orderly, Types, TablesOK, ResetsOK
<1>3. resets'[t].user = resets[t].user /\ resets'[t].used = TRUE
  BY <1>1, <1>2 DEF ResetLink
<1>4. BookResets[t].user = resets[t].user /\ t \in DOMAIN BookResets
  BY DEF BookResets
<1>5. [BookResets[t] EXCEPT !.used = TRUE] = [user |-> resets[t].user, used |-> TRUE]
  BY UsedChanged, Zenon DEF BookResets
<1>6. BookResets' = [BookResets EXCEPT ![t] = [user |-> resets[t].user, used |-> TRUE]]
  BY <1>1, <1>3 DEF BookResets
<1>7. BookResets' = [BookResets EXCEPT ![t].used = TRUE]
  BY <1>5, <1>6, Zenon
<1>8. <<r, "reset", t>> \in BookHeld /\ BookHeld' = Book!WithoutLinksOf(r)
  BY <1>1, HeldNoMore DEF Orderly, CommitReset, Goto, BookHeld, Holding
<1>9. Book!SetPassword(r, t)
  BY <1>1, <1>4, <1>7, <1>8 DEF Book!SetPassword, CommitReset, BookInvites
<1> QED
  BY <1>4, <1>9 DEF Book!Reset, Book!ResetAgain, Book!Next, Book!LooseNext

\* Who is let past the lookup has a link that is good at that moment.
LEMMA LookupLooks ==
  ASSUME Orderly, NEW r \in Requests, Lookup(r)
  PROVE  Book!Next \/ UNCHANGED Book!vars
<1>1. PICK where \in {"write", "failed"} :
            /\ pc' = [pc EXCEPT ![r] = where] /\ req' = req /\ UNCHANGED tables
            /\ where = "write" => \/ req[r].kind = "join" /\ InviteValid(req[r].link)
                                  \/ req[r].kind = "reset" /\ ResetValid(req[r].link)
  BY DEF Lookup, Goto
<1>2. r \notin Holding /\ UNCHANGED Book!tables
  BY <1>1 DEF Lookup, Holding, Book!tables, tables, BookInvites, BookResets
<1>3. CASE where = "failed"
  BY <1>1, <1>2, <1>3, HeldByNone DEF Orderly, Book!vars
<1>4. CASE where = "write"
  <2> DEFINE kind == req[r].kind
             l == req[r].link
  <2>1. kind \in {"join", "reset"} /\ BookHeld' = BookHeld \cup {<<r, kind, l>>}
    <3>1. {h \in BookHeld : h[1] # r} = BookHeld
      BY <1>2 DEF BookHeld
    <3> QED
      BY <1>1, <1>4, <3>1, HeldMoves DEF Orderly, HeldAfter
  <2>2. ASSUME kind = "join" PROVE Book!LookAtInvite(r, l) /\ l \in DOMAIN BookInvites
    BY <1>1, <1>2, <1>4, <2>1, <2>2 DEF InviteValid, Book!LookAtInvite, BookInvites, Entry
  <2>3. ASSUME kind = "reset" PROVE Book!LookAtReset(r, l) /\ l \in DOMAIN BookResets
    BY <1>1, <1>2, <1>4, <2>1, <2>3 DEF ResetValid, Book!LookAtReset, BookResets
  <2> QED
    BY <2>1, <2>2, <2>3 DEF Book!Next
<1> QED
  BY <1>3, <1>4

\* Between lookup and commit a request keeps the link it holds, or lets go of it.
LEMMA OthersHold ==
  ASSUME Orderly, NEW r \in Requests,
         Register(r) \/ AcceptInvite(r) \/ ResetPassword(r) \/ Write(r) \/ Mark(r)
            \/ Rollback(r) \/ (ForgotPassword(r) /\ resets' = resets)
  PROVE  Book!Next \/ UNCHANGED Book!vars
<1>1. UNCHANGED Book!tables
  BY DEF tables, Register, AcceptInvite, ResetPassword, Follow, Write, Mark, Rollback,
         RolledBack, ForgotPassword, Book!tables, BookInvites, BookResets
<1>2. ASSUME BookHeld' = Book!WithoutLinksOf(r) PROVE Book!Next
  BY <1>1, <1>2 DEF Book!LetGo, Book!Next, Book!tables
<1>3. ASSUME BookHeld' = BookHeld PROVE UNCHANGED Book!vars
  BY <1>1, <1>3 DEF Book!vars
<1>4. ASSUME NEW where, NEW x, where = "lookup" \/ x.kind = "register", pc[r] = "idle",
             pc' = [pc EXCEPT ![r] = where], req' = [req EXCEPT ![r] = x]
      PROVE  BookHeld' = BookHeld
  <2>1. req'[r] = x /\ \A q \in Requests : q # r => req'[q] = req[q]
    BY <1>4 DEF Orderly, Types
  <2> QED
    BY <2>1, <1>4, HeldByNone DEF Orderly, Holding
<1>8. CASE Register(r)
  <2>1. PICK e : req' = [req EXCEPT ![r] = [kind |-> "register", email |-> e]]
    BY <1>8 DEF Register
  <2> QED
    BY <2>1, <1>3, <1>4, <1>8 DEF Register, Goto
<1>9. CASE AcceptInvite(r) \/ ResetPassword(r)
  <2>1. PICK x : req' = [req EXCEPT ![r] = x] /\ pc[r] = "idle" /\ pc' = [pc EXCEPT ![r] = "lookup"]
    BY <1>9 DEF AcceptInvite, ResetPassword, Follow, Goto
  <2> QED
    BY <2>1, <1>3, <1>4
<1>5. CASE ForgotPassword(r)
  BY <1>3, <1>5, HeldByNone DEF ForgotPassword, Goto, Orderly, Holding
<1>6. CASE Rollback(r)
  BY <1>2, <1>6, HeldNoMore DEF Rollback, Goto, Orderly
<1>7. CASE Write(r) \/ Mark(r)
  <2>1. PICK where \in {"failed", "mark", "commit"} :
            pc' = [pc EXCEPT ![r] = where] /\ req' = req /\ pc[r] \in {"write", "mark"}
    BY <1>7 DEF Write, Mark, Goto
  <2>2. CASE where = "failed"
    BY <2>1, <2>2, <1>2, HeldNoMore DEF Orderly
  <2>3. CASE where # "failed"
    <3>1. BookHeld' = HeldAfter(r, where, req[r])
      BY <2>1, HeldMoves DEF Orderly
    <3>2. {h \in BookHeld : h[1] = r} = IF req[r].kind \in {"join", "reset"}
                                        THEN {<<r, req[r].kind, req[r].link>>} ELSE {}
      BY <2>1 DEF BookHeld, Holding
    <3> QED
      BY <2>1, <2>3, <3>1, <3>2, <1>3 DEF HeldAfter
  <2> QED
    BY <2>2, <2>3
<1> QED
  BY <1>5, <1>6, <1>7, <1>8, <1>9

\* Every step is one of the book's or leaves it alone.
LEMMA BookStep == Orderly /\ [Next]_vars => [Book!LooseNext]_Book!vars
<1> SUFFICES ASSUME Orderly, [Next]_vars PROVE [Book!LooseNext]_Book!vars
  OBVIOUS
<1>1. ASSUME Tick \/ Quiescent \/ UNCHANGED vars PROVE UNCHANGED Book!vars
  BY <1>1 DEF Tick, Quiescent, vars, tables, Book!vars, Book!tables, BookInvites, BookResets,
              BookHeld, Holding
<1>2. Book!Next => Book!LooseNext
  BY DEF Book!LooseNext
<1> QED
  BY <1>1, <1>2, CreateInvites, RevokeRevokes, ForgotAsks, RegisterFounds, JoinJoins, ResetResets,
     LookupLooks, OthersHold
  DEF Next, Step

\* Requests that overlap commit as if each had taken effect at once: an organization is
\* founded with its admin, an invite is used up by the account it makes and was not
\* before, a reset link is used by the password it sets. Who joins or resets looked
\* the link up while it was good; that a reset link has been used since is the one
\* way in which a request may depart from the documented book.
THEOREM RequestsKeepLooseBook == Spec => ImplementsLooseBook
<1>1. Init => Book!Init
  BY DEF Init, Book!Init, BookInvites, BookResets, BookHeld, Holding
<1> QED
  BY <1>1, OrderlyAlways, BookStep, PTL DEF Spec, ImplementsLooseBook, Book!LooseSpec
=============================================================================
