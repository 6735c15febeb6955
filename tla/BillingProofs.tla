--------------------------- MODULE BillingProofs ---------------------------
(***************************************************************************)
(* Proofs about Billing, for any number of requests, events and faults.    *)
(***************************************************************************)
EXTENDS Billing, SequenceTheorems, TLAPS

Pcs == {"idle", "ensure", "store", "count", "session", "insert", "sync",
        "sync_count", "sync_set", "done"}

Locals == [kind : {"location", "checkout", "portal"}, cust : Nat, sub : Nat, qty : Nat]
Sessions == [by : Requests, cust : Nat, qty : Nat]
Subscriptions == [cust : Nat, qty : Nat, status : Statuses]
EventTypes == {"created", "updated", "deleted"}
Events == [type : EventTypes, cust : Nat, sub : Nat,
           status : Statuses \cup {"unknown"}]

Types ==
    /\ org \in [cust : Nat, sub : Nat, status : Statuses \cup {"trialing"}]
    /\ trialOver \in BOOLEAN /\ locations \in Nat
    /\ pc \in [Requests -> Pcs] /\ local \in [Requests -> Locals]
    /\ customers \in Nat /\ sessions \subseteq Sessions
    /\ subs \in Seq(Subscriptions) /\ log \in Seq(Events)
    /\ pending \subseteq DOMAIN log /\ applied \in 0..Len(log)
    /\ faults \in 0..MaxFaults
    /\ late \in BOOLEAN /\ raced \in BOOLEAN /\ excused \in BOOLEAN

\* What is referred to is there.
OrgRefers == org.cust <= customers /\ org.sub <= Len(subs)
SessionsRefer == \A c \in sessions : c.cust \in 1..customers
LogRefers ==
    \A e \in DOMAIN log :
        /\ log[e].sub \in 1..Len(subs)
        /\ log[e].type # "deleted" => log[e].status \in Statuses
RequestsRefer ==
    \A r \in Requests :
        /\ local[r].cust <= customers
        /\ pc[r] \in {"store", "count", "session"} => local[r].cust # None
        /\ local[r].sub <= Len(subs)
        /\ pc[r] \in {"sync_count", "sync_set"} => local[r].sub # None
References == OrgRefers /\ SessionsRefer /\ LogRefers /\ RequestsRefer

\* No count, no open checkout and no subscription is of more locations than there are.
RequestsCount == \A r \in Requests : local[r].qty <= locations
SessionsCount == \A c \in sessions : c.qty \in 1..Billed(locations)
SubsCount == \A s \in DOMAIN subs : subs[s].qty \in 1..Billed(locations)
Quantities == RequestsCount /\ SessionsCount /\ SubsCount

\* Without races and faults there is one customer from CreateCustomer on, and the
\* request that makes it stores it.
OneCustomer ==
    ~raced /\ faults = 0 =>
        /\ customers <= 1
        /\ \A q, r \in Requests : Ensuring(q) /\ Ensuring(r) => q = r
        /\ \A r \in Requests : Ensuring(r) => org.cust = None
        /\ \A r \in Requests : pc[r] = "ensure" => customers = 0
        /\ (\A r \in Requests : pc[r] # "store") /\ org.cust = None => customers = 0

\* Request q will bring subscription s to the number of locations.
WillSet(q, s) ==
    \/ pc[q] = "sync"
    \/ pc[q] = "sync_count" /\ local[q].sub = s

\* Without an excuse, a live subscription bills what it should or a sync will set
\* it, and no sync with an older count comes last.
Tracked ==
    ~excused =>
        /\ \A q, r \in Requests : pc[q] = "sync_set" /\ pc[r] = "sync_set" => q = r
        /\ \A r \in Requests : pc[r] = "sync_set" /\ Live(local[r].sub) =>
            local[r].qty = locations \/ \E q \in Requests : WillSet(q, local[r].sub)
        /\ \A s \in DOMAIN subs : Live(s) =>
            \/ subs[s].qty = Billed(locations)
            \/ \E q \in Requests : WillSet(q, s) \/ (pc[q] = "sync_set" /\ local[q].sub = s)

Inv == Types /\ References /\ Quantities

-----------------------------------------------------------------------------
(* Types, references and quantities.                                       *)

\* Request r, and no other, has gone on with its variables as l.
Moved(r, where, l) ==
    /\ pc' \in [Requests -> Pcs] /\ pc'[r] = where
    /\ local' \in [Requests -> Locals]
    /\ local'[r] = (IF where = "done" THEN Fresh ELSE l)
    /\ \A q \in Requests : q # r => pc'[q] = pc[q] /\ local'[q] = local[q]

\* What GotoWith does.
LEMMA Moves ==
  ASSUME Types, NEW r \in Requests, NEW where \in Pcs, NEW l \in Locals, GotoWith(r, where, l)
  PROVE  Moved(r, where, l)
<1>1. Fresh \in Locals
  BY DEF Fresh, Locals, None
<1> QED
  BY <1>1 DEF GotoWith, Goto, Moved, Types

\* Stripe has told of subscription s.
Told(s) ==
    /\ log' \in Seq(Events) /\ Len(log') = Len(log) + 1
    /\ DOMAIN log' = DOMAIN log \cup {Len(log) + 1}
    /\ \A e \in DOMAIN log : log'[e] = log[e]
    /\ log'[Len(log) + 1].sub = s
    /\ log'[Len(log) + 1].type # "deleted" => log'[Len(log) + 1].status \in Statuses
    /\ pending' \subseteq DOMAIN log'

\* What Emit does to log and pending.
LEMMA Emitted ==
  ASSUME log \in Seq(Events), pending \subseteq DOMAIN log,
         NEW s \in Nat, NEW sub \in Subscriptions, NEW type \in EventTypes, Emit(s, sub, type)
  PROVE  Told(s)
<1> DEFINE new == [type |-> type, cust |-> sub.cust, sub |-> s,
                   status |-> IF type = "deleted" THEN "unknown" ELSE sub.status]
<1>1. /\ new \in Events /\ new.sub = s
      /\ new.type # "deleted" => new.status \in Statuses
  BY DEF Events, EventTypes, Subscriptions
<1>2. log' = Append(log, new) /\ pending' = pending \cup {Len(log) + 1}
  BY DEF Emit
<1> HIDE DEF new
<1>3. /\ log' \in Seq(Events) /\ Len(log') = Len(log) + 1
      /\ \A e \in 1..Len(log) : log'[e] = log[e]
      /\ log'[Len(log) + 1] = new
  BY <1>1, <1>2, AppendProperties
<1>4. DOMAIN log = 1..Len(log) /\ DOMAIN log' = 1..Len(log') /\ Len(log) \in Nat
  BY <1>3, LenProperties
<1> QED
  BY <1>1, <1>2, <1>3, <1>4 DEF Told

\* Subscription s, and no other, has become u.
SubChanged(s, u) ==
    /\ subs' \in Seq(Subscriptions) /\ Len(subs') = Len(subs)
    /\ DOMAIN subs' = DOMAIN subs
    /\ \A t \in DOMAIN subs : subs'[t] = IF t = s THEN u ELSE subs[t]

\* An update of one subscription at Stripe.
LEMMA Updated ==
  ASSUME subs \in Seq(Subscriptions), NEW s \in DOMAIN subs, NEW u \in Subscriptions,
         subs' = [subs EXCEPT ![s] = u]
  PROVE  SubChanged(s, u)
  BY ExceptSeq, LenProperties DEF SubChanged

\* A local variable is assigned.
LEMMA Assign ==
  ASSUME NEW l \in Locals, NEW n \in Nat
  PROVE  /\ [l EXCEPT !.cust = n] \in Locals /\ [l EXCEPT !.cust = n].cust = n
         /\ [l EXCEPT !.cust = n].sub = l.sub /\ [l EXCEPT !.cust = n].qty = l.qty
         /\ [l EXCEPT !.sub = n] \in Locals /\ [l EXCEPT !.sub = n].sub = n
         /\ [l EXCEPT !.sub = n].cust = l.cust /\ [l EXCEPT !.sub = n].qty = l.qty
         /\ [l EXCEPT !.qty = n] \in Locals /\ [l EXCEPT !.qty = n].qty = n
         /\ [l EXCEPT !.qty = n].cust = l.cust /\ [l EXCEPT !.qty = n].sub = l.sub
<1>1. /\ [l EXCEPT !.cust = n] \in Locals /\ [l EXCEPT !.cust = n].cust = n
      /\ [l EXCEPT !.cust = n].sub = l.sub /\ [l EXCEPT !.cust = n].qty = l.qty
  BY DEF Locals
<1>2. /\ [l EXCEPT !.sub = n] \in Locals /\ [l EXCEPT !.sub = n].sub = n
      /\ [l EXCEPT !.sub = n].cust = l.cust /\ [l EXCEPT !.sub = n].qty = l.qty
  BY DEF Locals
<1>3. /\ [l EXCEPT !.qty = n] \in Locals /\ [l EXCEPT !.qty = n].qty = n
      /\ [l EXCEPT !.qty = n].cust = l.cust /\ [l EXCEPT !.qty = n].sub = l.sub
  BY DEF Locals
<1> QED
  BY <1>1, <1>2, <1>3

\* Fields are numbers.
LEMMA Numbers ==
  ASSUME Types
  PROVE  /\ org.cust \in Nat /\ org.sub \in Nat /\ customers \in Nat /\ locations \in Nat
         /\ \A r \in Requests : /\ local[r] \in Locals /\ local[r].cust \in Nat
                                /\ local[r].sub \in Nat /\ local[r].qty \in Nat
         /\ \A c \in sessions : c.cust \in Nat /\ c.qty \in Nat
         /\ Len(subs) \in Nat /\ DOMAIN subs = 1..Len(subs)
         /\ \A s \in DOMAIN subs : subs[s] \in Subscriptions /\ subs[s].qty \in Nat
         /\ Len(log) \in Nat /\ DOMAIN log = 1..Len(log)
         /\ \A e \in DOMAIN log : log[e] \in Events /\ log[e].sub \in Nat
<1>1. org.cust \in Nat /\ org.sub \in Nat /\ customers \in Nat /\ locations \in Nat
  BY DEF Types
<1>2. \A r \in Requests : /\ local[r] \in Locals /\ local[r].cust \in Nat
                          /\ local[r].sub \in Nat /\ local[r].qty \in Nat
  BY DEF Types, Locals
<1>3. \A c \in sessions : c.cust \in Nat /\ c.qty \in Nat
  BY DEF Types, Sessions
<1>4. /\ Len(subs) \in Nat /\ DOMAIN subs = 1..Len(subs)
      /\ \A s \in DOMAIN subs : subs[s] \in Subscriptions
  BY LenProperties, ElementOfSeq DEF Types
<1>5. \A s \in DOMAIN subs : subs[s].qty \in Nat
  BY <1>4 DEF Subscriptions
<1>6. /\ Len(log) \in Nat /\ DOMAIN log = 1..Len(log)
      /\ \A e \in DOMAIN log : log[e] \in Events
  BY LenProperties, ElementOfSeq DEF Types
<1>7. \A e \in DOMAIN log : log[e].sub \in Nat
  BY <1>6 DEF Events
<1> QED
  BY <1>1, <1>2, <1>3, <1>4, <1>5, <1>6, <1>7

\* The invariant holds of a new organization.
LEMMA InitInv == Init => Inv
<1> SUFFICES ASSUME Init PROVE Inv
  OBVIOUS
<1>1. /\ org \in [cust : Nat, sub : Nat, status : Statuses \cup {"trialing"}]
      /\ pc \in [Requests -> Pcs] /\ local \in [Requests -> Locals]
  BY DEF Init, Fresh, None, Statuses, Pcs, Locals
<1>2. /\ subs \in Seq(Subscriptions) /\ log \in Seq(Events)
      /\ DOMAIN subs = {} /\ DOMAIN log = {} /\ Len(subs) = 0 /\ Len(log) = 0
  BY DEF Init
<1>3. /\ trialOver \in BOOLEAN /\ locations \in Nat /\ customers \in Nat
      /\ sessions \subseteq Sessions /\ pending \subseteq DOMAIN log
      /\ late \in BOOLEAN /\ raced \in BOOLEAN /\ excused \in BOOLEAN
  BY DEF Init
<1>4. applied \in 0..Len(log) /\ faults \in 0..MaxFaults
  BY <1>2, ConstantsOK DEF Init, ConstantsOK
<1>5. Types
  BY <1>1, <1>2, <1>3, <1>4 DEF Types
<1>6. References
  BY <1>2 DEF References, OrgRefers, SessionsRefer, LogRefers, RequestsRefer, Init, Fresh, None
<1>7. Quantities
  BY <1>2 DEF Quantities, RequestsCount, SessionsCount, SubsCount, Init, Fresh
<1> QED
  BY <1>5, <1>6, <1>7 DEF Inv

\* If what the request that goes on refers to is there, so is what any refers to.
LEMMA RefersMoved ==
  ASSUME Types, RequestsRefer, NEW r \in Requests, NEW where \in Pcs, NEW l \in Locals,
         Moved(r, where, l), customers' \in Nat, customers <= customers',
         Len(subs') = Len(subs),
         where # "done" =>
            /\ l.cust <= customers' /\ l.sub <= Len(subs)
            /\ where \in {"store", "count", "session"} => l.cust # None
            /\ where \in {"sync_count", "sync_set"} => l.sub # None
  PROVE  RequestsRefer'
<1> SUFFICES ASSUME NEW q \in Requests
             PROVE  /\ local'[q].cust <= customers' /\ local'[q].sub <= Len(subs')
                    /\ pc'[q] \in {"store", "count", "session"} => local'[q].cust # None
                    /\ pc'[q] \in {"sync_count", "sync_set"} => local'[q].sub # None
  BY DEF RequestsRefer, None
<1>1. CASE q # r
  <2>1. pc'[q] = pc[q] /\ local'[q] = local[q]
    BY <1>1 DEF Moved
  <2>2. local[q].cust \in Nat /\ customers \in Nat
    BY Numbers
  <2> QED
    BY <2>1, <2>2 DEF RequestsRefer
<1>2. CASE q = r /\ where = "done"
  <2>1. pc'[q] = "done" /\ local'[q].cust = 0 /\ local'[q].sub = 0
    BY <1>2 DEF Moved, Fresh, None
  <2> QED
    BY <2>1, Numbers
<1>3. CASE q = r /\ where # "done"
  BY <1>3 DEF Moved
<1> QED
  BY <1>1, <1>2, <1>3

\* If the count of the request that goes on is not too large, none is.
LEMMA CountsMoved ==
  ASSUME Types, RequestsCount, NEW r \in Requests, NEW where \in Pcs, NEW l \in Locals,
         Moved(r, where, l), locations' = locations, where # "done" => l.qty <= locations
  PROVE  RequestsCount'
<1> SUFFICES ASSUME NEW q \in Requests PROVE local'[q].qty <= locations
  BY DEF RequestsCount
<1>1. CASE q # r
  BY <1>1 DEF Moved, RequestsCount
<1>2. CASE q = r /\ where = "done"
  BY <1>2, Numbers DEF Moved, Fresh
<1>3. CASE q = r /\ where # "done"
  BY <1>3 DEF Moved
<1> QED
  BY <1>1, <1>2, <1>3

\* Every step keeps types, references and quantities.
LEMMA NextInv == Inv /\ [Next]_vars => Inv'
<1> SUFFICES ASSUME Inv, [Next]_vars PROVE Inv'
  OBVIOUS
<1> USE DEF Inv
<1>1. ASSUME NEW r \in Requests, NEW kind \in {"checkout", "portal"}, ReadOrg(r, kind) PROVE Inv'
  <2> DEFINE l == [[local[r] EXCEPT !.kind = kind] EXCEPT !.cust = org.cust]
  <2> DEFINE where == IF org.cust # None THEN AfterCustomer(kind) ELSE "ensure"
  <2>1. l \in Locals /\ l.cust = org.cust /\ l.sub = local[r].sub /\ l.qty = local[r].qty
    <3>1. local[r] \in Locals
      BY Numbers
    <3>2. [local[r] EXCEPT !.kind = kind] \in Locals
      BY <3>1 DEF Locals
    <3> QED
      BY <3>1, <3>2, Numbers, Assign DEF Locals
  <2>2. where \in Pcs /\ (where \in {"store", "count", "session"} => org.cust # None) /\ where
     \notin {"sync_count", "sync_set"}
    BY DEF Pcs, AfterCustomer
  <2>3. Moved(r, where, l)
    <3> GotoWith(r, where, l)
      BY <1>1 DEF ReadOrg, Customer
    <3> QED
      BY <2>1, <2>2, Moves
  <2> HIDE DEF l, where
  <2>4. Types'
    BY <1>1, <2>1, <2>2, <2>3, ConstantsOK DEF Moved, Types, ReadOrg, database, stripe
  <2>5. OrgRefers'
    BY <1>1, Numbers DEF References, Quantities, OrgRefers, Billed, ReadOrg, database, stripe
  <2>6. SessionsRefer'
    BY <1>1, Numbers DEF References, Quantities, SessionsRefer, Billed, ReadOrg, database,
       stripe
  <2>7. LogRefers'
    BY <1>1, Numbers DEF References, Quantities, LogRefers, Billed, ReadOrg, database, stripe
  <2>8. RequestsRefer'
    <3>1. customers' \in Nat /\ customers <= customers' /\ Len(subs') = Len(subs)
      BY <1>1, Numbers DEF ReadOrg, database, stripe
    <3>2. /\ local[r].cust <= customers /\ local[r].sub <= Len(subs)
          /\ pc[r] \in {"store", "count", "session"} => local[r].cust # None
          /\ pc[r] \in {"sync_count", "sync_set"} => local[r].sub # None
          /\ org.cust <= customers /\ org.sub <= Len(subs)
      BY DEF References, RequestsRefer, OrgRefers
    <3>3. where # "done" =>
            /\ l.cust <= customers' /\ l.sub <= Len(subs)
            /\ where \in {"store", "count", "session"} => l.cust # None
            /\ where \in {"sync_count", "sync_set"} => l.sub # None
      BY <1>1, <2>1, <2>2, <2>3, <3>1, <3>2, Numbers DEF None, ReadOrg, database, stripe
    <3> QED
      BY <2>1, <2>2, <2>3, <3>1, <3>3, RefersMoved DEF References
  <2>9. RequestsCount'
    <3>1. locations' = locations /\ local[r].qty <= locations
      BY <1>1 DEF Quantities, RequestsCount, ReadOrg, database, stripe
    <3>2. where # "done" => l.qty <= locations
      BY <2>1, <2>2, <2>3, <3>1, Numbers DEF Fresh
    <3> QED
      BY <2>1, <2>2, <2>3, <3>1, <3>2, CountsMoved DEF Quantities
  <2>10. SessionsCount'
    BY <1>1, Numbers DEF References, Quantities, SessionsCount, Billed, ReadOrg, database,
       stripe
  <2>11. SubsCount'
    BY <1>1, Numbers DEF References, Quantities, SubsCount, Billed, ReadOrg, database, stripe
  <2> QED
    BY <2>4, <2>5, <2>6, <2>7, <2>8, <2>9, <2>10, <2>11 DEF References, Quantities
<1>2. ASSUME NEW r \in Requests, CreateCustomer(r) PROVE Inv'
  <2> DEFINE l == [local[r] EXCEPT !.cust = customers + 1]
  <2> DEFINE where == "store"
  <2>1. l \in Locals /\ l.cust = customers + 1 /\ l.sub = local[r].sub /\ l.qty = local[r].qty
    <3>1. local[r] \in Locals /\ customers + 1 \in Nat
      BY Numbers
    <3> QED
      BY <3>1, Assign
  <2>2. where \in Pcs /\ where = "store"
    BY DEF Pcs
  <2>3. Moved(r, where, l)
    <3> GotoWith(r, where, l)
      BY <1>2 DEF CreateCustomer
    <3> QED
      BY <2>1, <2>2, Moves
  <2> HIDE DEF l, where
  <2>4. Types'
    BY <1>2, <2>1, <2>2, <2>3, ConstantsOK DEF Moved, Types, CreateCustomer, database, history
  <2>5. OrgRefers'
    BY <1>2, Numbers DEF References, Quantities, OrgRefers, Billed, CreateCustomer, database,
       history
  <2>6. SessionsRefer'
    BY <1>2, Numbers DEF References, Quantities, SessionsRefer, Billed, CreateCustomer,
       database, history
  <2>7. LogRefers'
    BY <1>2, Numbers DEF References, Quantities, LogRefers, Billed, CreateCustomer, database,
       history
  <2>8. RequestsRefer'
    <3>1. customers' \in Nat /\ customers <= customers' /\ Len(subs') = Len(subs)
      BY <1>2, Numbers DEF CreateCustomer, database, history
    <3>2. /\ local[r].cust <= customers /\ local[r].sub <= Len(subs)
          /\ pc[r] \in {"store", "count", "session"} => local[r].cust # None
          /\ pc[r] \in {"sync_count", "sync_set"} => local[r].sub # None
          /\ org.cust <= customers /\ org.sub <= Len(subs)
      BY DEF References, RequestsRefer, OrgRefers
    <3>3. where # "done" =>
            /\ l.cust <= customers' /\ l.sub <= Len(subs)
            /\ where \in {"store", "count", "session"} => l.cust # None
            /\ where \in {"sync_count", "sync_set"} => l.sub # None
      BY <1>2, <2>1, <2>2, <2>3, <3>1, <3>2, Numbers DEF None, CreateCustomer, database, history
    <3> QED
      BY <2>1, <2>2, <2>3, <3>1, <3>3, RefersMoved DEF References
  <2>9. RequestsCount'
    <3>1. locations' = locations /\ local[r].qty <= locations
      BY <1>2 DEF Quantities, RequestsCount, CreateCustomer, database, history
    <3>2. where # "done" => l.qty <= locations
      BY <2>1, <2>2, <2>3, <3>1, Numbers DEF Fresh
    <3> QED
      BY <2>1, <2>2, <2>3, <3>1, <3>2, CountsMoved DEF Quantities
  <2>10. SessionsCount'
    BY <1>2, Numbers DEF References, Quantities, SessionsCount, Billed, CreateCustomer,
       database, history
  <2>11. SubsCount'
    BY <1>2, Numbers DEF References, Quantities, SubsCount, Billed, CreateCustomer, database,
       history
  <2> QED
    BY <2>4, <2>5, <2>6, <2>7, <2>8, <2>9, <2>10, <2>11 DEF References, Quantities
<1>3. ASSUME NEW r \in Requests, SetOrgStripeCustomer(r) PROVE Inv'
  <2>1. pc[r] = "store"
    BY <1>3 DEF SetOrgStripeCustomer
  <2> DEFINE l == local[r]
  <2> DEFINE where == AfterCustomer(local[r].kind)
  <2>2. l \in Locals /\ l = local[r]
    BY Numbers
  <2>3. where \in Pcs /\ where \in {"count", "done"}
    BY DEF Pcs, AfterCustomer
  <2>4. Moved(r, where, l)
    <3> GotoWith(r, where, l)
      BY <1>3 DEF SetOrgStripeCustomer
    <3> QED
      BY <2>2, <2>3, Moves
  <2> HIDE DEF l, where
  <2>5. Types'
    BY <1>3, <2>1, <2>2, <2>3, <2>4, Numbers DEF Moved, Types, SetOrgStripeCustomer, stripe,
       history
  <2>6. OrgRefers'
    BY <1>3, <2>1, <2>2, <2>3, <2>4, Numbers DEF References, OrgRefers, RequestsRefer,
       SetOrgStripeCustomer, stripe, history, Types
  <2>7. SessionsRefer'
    BY <1>3, Numbers DEF References, Quantities, SessionsRefer, Billed, SetOrgStripeCustomer,
       stripe, history
  <2>8. LogRefers'
    BY <1>3, Numbers DEF References, Quantities, LogRefers, Billed, SetOrgStripeCustomer,
       stripe, history
  <2>9. RequestsRefer'
    <3>1. customers' \in Nat /\ customers <= customers' /\ Len(subs') = Len(subs)
      BY <1>3, Numbers DEF SetOrgStripeCustomer, stripe, history
    <3>2. /\ local[r].cust <= customers /\ local[r].sub <= Len(subs)
          /\ pc[r] \in {"store", "count", "session"} => local[r].cust # None
          /\ pc[r] \in {"sync_count", "sync_set"} => local[r].sub # None
          /\ org.cust <= customers /\ org.sub <= Len(subs)
      BY DEF References, RequestsRefer, OrgRefers
    <3>3. where # "done" =>
            /\ l.cust <= customers' /\ l.sub <= Len(subs)
            /\ where \in {"store", "count", "session"} => l.cust # None
            /\ where \in {"sync_count", "sync_set"} => l.sub # None
      BY <1>3, <2>1, <2>2, <2>3, <2>4, <3>1, <3>2, Numbers DEF None, SetOrgStripeCustomer, stripe, history
    <3> QED
      BY <2>1, <2>2, <2>3, <2>4, <3>1, <3>3, RefersMoved DEF References
  <2>10. RequestsCount'
    <3>1. locations' = locations /\ local[r].qty <= locations
      BY <1>3 DEF Quantities, RequestsCount, SetOrgStripeCustomer, stripe, history
    <3>2. where # "done" => l.qty <= locations
      BY <2>1, <2>2, <2>3, <2>4, <3>1, Numbers DEF Fresh
    <3> QED
      BY <2>1, <2>2, <2>3, <2>4, <3>1, <3>2, CountsMoved DEF Quantities
  <2>11. SessionsCount'
    BY <1>3, Numbers DEF References, Quantities, SessionsCount, Billed, SetOrgStripeCustomer,
       stripe, history
  <2>12. SubsCount'
    BY <1>3, Numbers DEF References, Quantities, SubsCount, Billed, SetOrgStripeCustomer,
       stripe, history
  <2> QED
    BY <2>5, <2>6, <2>7, <2>8, <2>9, <2>10, <2>11, <2>12 DEF References, Quantities
<1>4. ASSUME NEW r \in Requests, CountForCheckout(r) PROVE Inv'
  <2>1. pc[r] = "count"
    BY <1>4 DEF CountForCheckout
  <2>2. PICK n \in {0, locations} : GotoWith(r, "session", [local[r] EXCEPT !.qty = n])
    BY <1>4 DEF CountForCheckout, CountLocations
  <2>3. n \in Nat /\ n <= locations
    BY Numbers
  <2> DEFINE l == [local[r] EXCEPT !.qty = n]
  <2> DEFINE where == "session"
  <2>4. l \in Locals /\ l.cust = local[r].cust /\ l.sub = local[r].sub /\ l.qty = n
    <3>1. local[r] \in Locals
      BY Numbers
    <3> QED
      BY <2>3, <3>1, Assign
  <2>5. where \in Pcs /\ where = "session"
    BY DEF Pcs
  <2>6. Moved(r, where, l)
    BY <2>2, <2>4, <2>5, Moves
  <2> HIDE DEF l, where
  <2>7. Types'
    BY <1>4, <2>1, <2>3, <2>4, <2>5, <2>6, ConstantsOK DEF Moved, Types, CountForCheckout,
       Fault, database, stripe, history
  <2>8. OrgRefers'
    BY <1>4, Numbers DEF References, Quantities, OrgRefers, Billed, CountForCheckout, Fault,
       database, stripe, history
  <2>9. SessionsRefer'
    BY <1>4, Numbers DEF References, Quantities, SessionsRefer, Billed, CountForCheckout,
       Fault, database, stripe, history
  <2>10. LogRefers'
    BY <1>4, Numbers DEF References, Quantities, LogRefers, Billed, CountForCheckout, Fault,
       database, stripe, history
  <2>11. RequestsRefer'
    <3>1. customers' \in Nat /\ customers <= customers' /\ Len(subs') = Len(subs)
      BY <1>4, Numbers DEF CountForCheckout, Fault, database, stripe, history
    <3>2. /\ local[r].cust <= customers /\ local[r].sub <= Len(subs)
          /\ pc[r] \in {"store", "count", "session"} => local[r].cust # None
          /\ pc[r] \in {"sync_count", "sync_set"} => local[r].sub # None
          /\ org.cust <= customers /\ org.sub <= Len(subs)
      BY DEF References, RequestsRefer, OrgRefers
    <3>3. where # "done" =>
            /\ l.cust <= customers' /\ l.sub <= Len(subs)
            /\ where \in {"store", "count", "session"} => l.cust # None
            /\ where \in {"sync_count", "sync_set"} => l.sub # None
      BY <1>4, <2>1, <2>3, <2>4, <2>5, <2>6, <3>1, <3>2, Numbers DEF None, CountForCheckout, Fault, database, stripe, history
    <3> QED
      BY <2>1, <2>3, <2>4, <2>5, <2>6, <3>1, <3>3, RefersMoved DEF References
  <2>12. RequestsCount'
    <3>1. locations' = locations /\ local[r].qty <= locations
      BY <1>4 DEF Quantities, RequestsCount, CountForCheckout, Fault, database, stripe, history
    <3>2. where # "done" => l.qty <= locations
      BY <2>1, <2>3, <2>4, <2>5, <2>6, <3>1, Numbers DEF Fresh
    <3> QED
      BY <2>1, <2>3, <2>4, <2>5, <2>6, <3>1, <3>2, CountsMoved DEF Quantities
  <2>13. SessionsCount'
    BY <1>4, Numbers DEF References, Quantities, SessionsCount, Billed, CountForCheckout,
       Fault, database, stripe, history
  <2>14. SubsCount'
    BY <1>4, Numbers DEF References, Quantities, SubsCount, Billed, CountForCheckout, Fault,
       database, stripe, history
  <2> QED
    BY <2>7, <2>8, <2>9, <2>10, <2>11, <2>12, <2>13, <2>14 DEF References, Quantities
<1>5. ASSUME NEW r \in Requests, CheckoutURL(r) PROVE Inv'
  <2>1. pc[r] = "session"
    BY <1>5 DEF CheckoutURL
  <2> DEFINE l == Fresh
  <2> DEFINE where == "done"
  <2>2. l \in Locals /\ l = Fresh
    BY DEF Locals, Fresh, None
  <2>3. where \in Pcs /\ where = "done"
    BY DEF Pcs
  <2>4. Moved(r, where, l)
    <3> GotoWith(r, where, l)
      BY <1>5 DEF CheckoutURL, End
    <3> QED
      BY <2>2, <2>3, Moves
  <2> HIDE DEF l, where
  <2>5. Types'
    BY <1>5, <2>1, <2>2, <2>3, <2>4, Numbers DEF Moved, Types, Sessions, Billed, CheckoutURL,
       database, history
  <2>6. OrgRefers'
    BY <1>5, Numbers DEF References, Quantities, OrgRefers, Billed, CheckoutURL, database,
       history
  <2>7. SessionsRefer'
    BY <1>5, <2>1, <2>2, <2>3, <2>4, Numbers DEF References, SessionsRefer, RequestsRefer,
       None, CheckoutURL, database, history
  <2>8. LogRefers'
    BY <1>5, Numbers DEF References, Quantities, LogRefers, Billed, CheckoutURL, database,
       history
  <2>9. RequestsRefer'
    <3>1. customers' \in Nat /\ customers <= customers' /\ Len(subs') = Len(subs)
      BY <1>5, Numbers DEF CheckoutURL, database, history
    <3>2. /\ local[r].cust <= customers /\ local[r].sub <= Len(subs)
          /\ pc[r] \in {"store", "count", "session"} => local[r].cust # None
          /\ pc[r] \in {"sync_count", "sync_set"} => local[r].sub # None
          /\ org.cust <= customers /\ org.sub <= Len(subs)
      BY DEF References, RequestsRefer, OrgRefers
    <3>3. where # "done" =>
            /\ l.cust <= customers' /\ l.sub <= Len(subs)
            /\ where \in {"store", "count", "session"} => l.cust # None
            /\ where \in {"sync_count", "sync_set"} => l.sub # None
      BY <1>5, <2>1, <2>2, <2>3, <2>4, <3>1, <3>2, Numbers DEF None, CheckoutURL, database, history
    <3> QED
      BY <2>1, <2>2, <2>3, <2>4, <3>1, <3>3, RefersMoved DEF References
  <2>10. RequestsCount'
    <3>1. locations' = locations /\ local[r].qty <= locations
      BY <1>5 DEF Quantities, RequestsCount, CheckoutURL, database, history
    <3>2. where # "done" => l.qty <= locations
      BY <2>1, <2>2, <2>3, <2>4, <3>1, Numbers DEF Fresh
    <3> QED
      BY <2>1, <2>2, <2>3, <2>4, <3>1, <3>2, CountsMoved DEF Quantities
  <2>11. SessionsCount'
    BY <1>5, <2>1, <2>2, <2>3, <2>4, Numbers DEF Quantities, SessionsCount, RequestsCount,
       Billed, CheckoutURL, database, history
  <2>12. SubsCount'
    BY <1>5, Numbers DEF References, Quantities, SubsCount, Billed, CheckoutURL, database,
       history
  <2> QED
    BY <2>5, <2>6, <2>7, <2>8, <2>9, <2>10, <2>11, <2>12 DEF References, Quantities
<1>6. ASSUME NEW r \in Requests, SyncReadOrg(r) PROVE Inv'
  <2> DEFINE l == [local[r] EXCEPT !.sub = org.sub]
  <2> DEFINE where == IF org.sub = None \/ org.status \notin Synced THEN "done" ELSE "sync_count"
  <2>1. l \in Locals /\ l.sub = org.sub /\ l.cust = local[r].cust /\ l.qty = local[r].qty
    <3>1. local[r] \in Locals /\ org.sub \in Nat
      BY Numbers
    <3> QED
      BY <3>1, Assign
  <2>2. where \in Pcs /\ (where = "done" \/ (where = "sync_count" /\ org.sub # None))
    BY DEF Pcs
  <2>3. Moved(r, where, l)
    <3> GotoWith(r, where, l)
      BY <1>6 DEF SyncReadOrg
    <3> QED
      BY <2>1, <2>2, Moves
  <2> HIDE DEF l, where
  <2>4. Types'
    BY <1>6, <2>1, <2>2, <2>3, ConstantsOK DEF Moved, Types, SyncReadOrg, database, stripe
  <2>5. OrgRefers'
    BY <1>6, Numbers DEF References, Quantities, OrgRefers, Billed, SyncReadOrg, database,
       stripe
  <2>6. SessionsRefer'
    BY <1>6, Numbers DEF References, Quantities, SessionsRefer, Billed, SyncReadOrg, database,
       stripe
  <2>7. LogRefers'
    BY <1>6, Numbers DEF References, Quantities, LogRefers, Billed, SyncReadOrg, database,
       stripe
  <2>8. RequestsRefer'
    <3>1. customers' \in Nat /\ customers <= customers' /\ Len(subs') = Len(subs)
      BY <1>6, Numbers DEF SyncReadOrg, database, stripe
    <3>2. /\ local[r].cust <= customers /\ local[r].sub <= Len(subs)
          /\ pc[r] \in {"store", "count", "session"} => local[r].cust # None
          /\ pc[r] \in {"sync_count", "sync_set"} => local[r].sub # None
          /\ org.cust <= customers /\ org.sub <= Len(subs)
      BY DEF References, RequestsRefer, OrgRefers
    <3>3. where # "done" =>
            /\ l.cust <= customers' /\ l.sub <= Len(subs)
            /\ where \in {"store", "count", "session"} => l.cust # None
            /\ where \in {"sync_count", "sync_set"} => l.sub # None
      BY <1>6, <2>1, <2>2, <2>3, <3>1, <3>2, Numbers DEF None, SyncReadOrg, database, stripe
    <3> QED
      BY <2>1, <2>2, <2>3, <3>1, <3>3, RefersMoved DEF References
  <2>9. RequestsCount'
    <3>1. locations' = locations /\ local[r].qty <= locations
      BY <1>6 DEF Quantities, RequestsCount, SyncReadOrg, database, stripe
    <3>2. where # "done" => l.qty <= locations
      BY <2>1, <2>2, <2>3, <3>1, Numbers DEF Fresh
    <3> QED
      BY <2>1, <2>2, <2>3, <3>1, <3>2, CountsMoved DEF Quantities
  <2>10. SessionsCount'
    BY <1>6, Numbers DEF References, Quantities, SessionsCount, Billed, SyncReadOrg, database,
       stripe
  <2>11. SubsCount'
    BY <1>6, Numbers DEF References, Quantities, SubsCount, Billed, SyncReadOrg, database,
       stripe
  <2> QED
    BY <2>4, <2>5, <2>6, <2>7, <2>8, <2>9, <2>10, <2>11 DEF References, Quantities
<1>7. ASSUME NEW r \in Requests, SyncCount(r) PROVE Inv'
  <2>1. pc[r] = "sync_count"
    BY <1>7 DEF SyncCount
  <2> DEFINE l == [local[r] EXCEPT !.qty = locations]
  <2> DEFINE where == "sync_set"
  <2>2. l \in Locals /\ l.sub = local[r].sub /\ l.cust = local[r].cust /\ l.qty = locations
    <3>1. local[r] \in Locals /\ locations \in Nat
      BY Numbers
    <3> QED
      BY <3>1, Assign
  <2>3. where \in Pcs /\ where = "sync_set"
    BY DEF Pcs
  <2>4. Moved(r, where, l)
    <3> GotoWith(r, where, l)
      BY <1>7 DEF SyncCount, CountLocations
    <3> QED
      BY <2>2, <2>3, Moves
  <2> HIDE DEF l, where
  <2>5. Types'
    BY <1>7, <2>1, <2>2, <2>3, <2>4, ConstantsOK DEF Moved, Types, SyncCount, database, stripe
  <2>6. OrgRefers'
    BY <1>7, Numbers DEF References, Quantities, OrgRefers, Billed, SyncCount, database,
       stripe
  <2>7. SessionsRefer'
    BY <1>7, Numbers DEF References, Quantities, SessionsRefer, Billed, SyncCount, database,
       stripe
  <2>8. LogRefers'
    BY <1>7, Numbers DEF References, Quantities, LogRefers, Billed, SyncCount, database,
       stripe
  <2>9. RequestsRefer'
    <3>1. customers' \in Nat /\ customers <= customers' /\ Len(subs') = Len(subs)
      BY <1>7, Numbers DEF SyncCount, database, stripe
    <3>2. /\ local[r].cust <= customers /\ local[r].sub <= Len(subs)
          /\ pc[r] \in {"store", "count", "session"} => local[r].cust # None
          /\ pc[r] \in {"sync_count", "sync_set"} => local[r].sub # None
          /\ org.cust <= customers /\ org.sub <= Len(subs)
      BY DEF References, RequestsRefer, OrgRefers
    <3>3. where # "done" =>
            /\ l.cust <= customers' /\ l.sub <= Len(subs)
            /\ where \in {"store", "count", "session"} => l.cust # None
            /\ where \in {"sync_count", "sync_set"} => l.sub # None
      BY <1>7, <2>1, <2>2, <2>3, <2>4, <3>1, <3>2, Numbers DEF None, SyncCount, database, stripe
    <3> QED
      BY <2>1, <2>2, <2>3, <2>4, <3>1, <3>3, RefersMoved DEF References
  <2>10. RequestsCount'
    <3>1. locations' = locations /\ local[r].qty <= locations
      BY <1>7 DEF Quantities, RequestsCount, SyncCount, database, stripe
    <3>2. where # "done" => l.qty <= locations
      BY <2>1, <2>2, <2>3, <2>4, <3>1, Numbers DEF Fresh
    <3> QED
      BY <2>1, <2>2, <2>3, <2>4, <3>1, <3>2, CountsMoved DEF Quantities
  <2>11. SessionsCount'
    BY <1>7, Numbers DEF References, Quantities, SessionsCount, Billed, SyncCount, database,
       stripe
  <2>12. SubsCount'
    BY <1>7, Numbers DEF References, Quantities, SubsCount, Billed, SyncCount, database,
       stripe
  <2> QED
    BY <2>5, <2>6, <2>7, <2>8, <2>9, <2>10, <2>11, <2>12 DEF References, Quantities
<1>8. ASSUME NEW r \in Requests, RequireEntitled(r) PROVE Inv'
  <2>1. Types'
    BY <1>8, Numbers, ConstantsOK DEF Types, Pcs, RequireEntitled, Goto, database, stripe,
       history
  <2>2. References'
    BY <1>8, Numbers DEF References, OrgRefers, SessionsRefer, LogRefers, RequestsRefer,
       RequireEntitled, Goto, database, stripe, history
  <2>3. Quantities'
    BY <1>8, Numbers DEF Quantities, RequestsCount, SessionsCount, SubsCount, Billed,
       RequireEntitled, Goto, database, stripe, history
  <2> QED
    BY <2>1, <2>2, <2>3
<1>9. ASSUME NEW r \in Requests, CreateLocation(r) PROVE Inv'
  <2>1. Types'
    BY <1>9, Numbers, ConstantsOK DEF Types, Pcs, CreateLocation, Goto, stripe, history
  <2>2. References'
    BY <1>9, Numbers DEF Types, Pcs, References, OrgRefers, SessionsRefer, LogRefers, RequestsRefer,
       CreateLocation, Goto, stripe, history
  <2>3. Quantities'
    BY <1>9, Numbers DEF Quantities, RequestsCount, SessionsCount, SubsCount, Billed,
       CreateLocation, Goto, stripe, history
  <2> QED
    BY <2>1, <2>2, <2>3
<1>10. ASSUME NEW r \in Requests, Fail(r) PROVE Inv'
  <2>1. Types'
    BY <1>10, Numbers, ConstantsOK DEF Types, Pcs, Locals, Fail, Fault, End, GotoWith, Goto,
       Fresh, None, database
  <2>2. References'
    BY <1>10, Numbers DEF Types, References, OrgRefers, SessionsRefer, LogRefers, RequestsRefer,
       Fail, Fault, End, GotoWith, Goto, Fresh, None, database
  <2>3. Quantities'
    BY <1>10, Numbers DEF Types, Quantities, RequestsCount, SessionsCount, SubsCount, Billed, Fail,
       Fault, End, GotoWith, Goto, Fresh, None, database
  <2> QED
    BY <2>1, <2>2, <2>3
<1>11. ASSUME NEW e \in pending, WebhookFails(e) PROVE Inv'
  <2>1. Types'
    BY <1>11, Numbers, ConstantsOK DEF Types, WebhookFails, KeptOnError, Fault, database,
       history
  <2>2. References'
    BY <1>11, Numbers DEF References, OrgRefers, SessionsRefer, LogRefers, RequestsRefer,
       WebhookFails, KeptOnError, Fault, database, history
  <2>3. Quantities'
    BY <1>11, Numbers DEF Quantities, RequestsCount, SessionsCount, SubsCount, Billed,
       WebhookFails, KeptOnError, Fault, database, history
  <2> QED
    BY <2>1, <2>2, <2>3
<1>12. CASE TrialEnds
  <2>1. Types'
    BY <1>12, Numbers, ConstantsOK DEF Types, TrialEnds, stripe, history
  <2>2. References'
    BY <1>12, Numbers DEF References, OrgRefers, SessionsRefer, LogRefers, RequestsRefer,
       TrialEnds, stripe, history
  <2>3. Quantities'
    BY <1>12, Numbers DEF Quantities, RequestsCount, SessionsCount, SubsCount, Billed,
       TrialEnds, stripe, history
  <2> QED
    BY <2>1, <2>2, <2>3
<1>13. CASE UNCHANGED vars
  <2>1. Types'
    BY <1>13, Numbers, ConstantsOK DEF Types, vars, database, stripe, history
  <2>2. References'
    BY <1>13, Numbers DEF References, OrgRefers, SessionsRefer, LogRefers, RequestsRefer,
       vars, database, stripe, history
  <2>3. Quantities'
    BY <1>13, Numbers DEF Quantities, RequestsCount, SessionsCount, SubsCount, Billed, vars,
       database, stripe, history
  <2> QED
    BY <2>1, <2>2, <2>3
<1>14. ASSUME NEW r \in Requests, SetQuantity(r) PROVE Inv'
  <2> DEFINE s == local[r].sub
  <2> DEFINE u == [subs[s] EXCEPT !.qty = Billed(local[r].qty)]
  <2>1. pc[r] = "sync_set" /\ GotoWith(r, "done", Fresh)
    BY <1>14 DEF SetQuantity, End
  <2>2. Moved(r, "done", Fresh)
    <3>1. Fresh \in Locals /\ "done" \in Pcs
      BY DEF Fresh, Locals, None, Pcs
    <3> QED
      BY <2>1, <3>1, Moves
  <2>3. s \in DOMAIN subs /\ s \in Nat /\ local[r].qty \in Nat /\ local[r].qty <= locations
    BY <2>1, Numbers DEF References, RequestsRefer, Quantities, RequestsCount, None
  <2>4. u \in Subscriptions /\ u.qty = Billed(local[r].qty)
    <3>1. subs[s] \in Subscriptions /\ Billed(local[r].qty) \in Nat
      BY <2>3, Numbers DEF Billed
    <3> QED
      BY <3>1 DEF Subscriptions
  <2>5. CASE Live(s)
    <3>1. subs' = [subs EXCEPT ![s] = u] /\ Emit(s, u, "updated")
      BY <1>14, <2>5 DEF SetQuantity, NewQuantity
    <3> HIDE DEF u
    <3>2. SubChanged(s, u)
      BY <2>3, <2>4, <3>1, Updated DEF Types
    <3>3. Told(s)
      BY <2>3, <2>4, <3>1, Emitted DEF Types, EventTypes
    <3> HIDE DEF s
    <3>4. Types'
      BY <1>14, <2>2, <3>2, <3>3, Numbers, ConstantsOK
         DEF Types, Moved, SubChanged, Told, SetQuantity, database, history
    <3>5. References'
      <4>1. OrgRefers' /\ SessionsRefer'
        BY <1>14, <3>2 DEF References, OrgRefers, SessionsRefer, SubChanged, SetQuantity, database
      <4>2. LogRefers'
        BY <2>3, <3>2, <3>3, Numbers DEF References, LogRefers, SubChanged, Told
      <4>3. RequestsRefer'
        <5>1. customers' = customers /\ Len(subs') = Len(subs) /\ customers \in Nat
          BY <1>14, <3>2, Numbers DEF SubChanged, SetQuantity
        <5> QED
          BY <2>2, <5>1, RefersMoved DEF References, Fresh, Locals, None, Pcs
      <4> QED
        BY <4>1, <4>2, <4>3 DEF References
    <3>6. Quantities'
      <4>1. RequestsCount'
        <5>1. locations' = locations
          BY <1>14 DEF SetQuantity, database
        <5> QED
          BY <2>2, <5>1, CountsMoved DEF Quantities, Fresh, Locals, None, Pcs
      <4>2. SessionsCount'
        BY <1>14 DEF Quantities, SessionsCount, Billed, SetQuantity, database
      <4>3. SubsCount'
        BY <1>14, <2>3, <2>4, <3>2, Numbers
           DEF Quantities, SubsCount, Billed, SubChanged, SetQuantity, database
      <4> QED
        BY <4>1, <4>2, <4>3 DEF Quantities
    <3> QED
      BY <3>4, <3>5, <3>6
  <2>6. CASE ~Live(s)
    <3>1. UNCHANGED <<subs, log, pending, sessions, customers, org, trialOver, locations, faults,
                      history>>
      BY <1>14, <2>6 DEF SetQuantity, database
    <3>2. Types'
      BY <2>2, <3>1 DEF Types, Moved, history
    <3>3. References'
      <4>1. OrgRefers' /\ SessionsRefer' /\ LogRefers'
        BY <3>1 DEF References, OrgRefers, SessionsRefer, LogRefers
      <4>2. RequestsRefer'
        BY <2>2, <3>1, Numbers, RefersMoved DEF References, Fresh, Locals, None, Pcs
      <4> QED
        BY <4>1, <4>2 DEF References
    <3>4. Quantities'
      <4>1. SessionsCount' /\ SubsCount'
        BY <3>1 DEF Quantities, SessionsCount, SubsCount, Billed
      <4>2. RequestsCount'
        BY <2>2, <3>1, CountsMoved DEF Quantities, Fresh, Locals, None, Pcs
      <4> QED
        BY <4>1, <4>2 DEF Quantities
    <3> QED
      BY <3>2, <3>3, <3>4
  <2> QED
    BY <2>5, <2>6
<1>15. ASSUME NEW c \in sessions, NEW status \in {"active", "incomplete"}, Pay(c, status)
       PROVE  Inv'
  <2> DEFINE sub == [cust |-> c.cust, qty |-> c.qty, status |-> status]
  <2>1. subs' = Append(subs, sub) /\ Emit(Len(subs) + 1, sub, "created")
    BY <1>15 DEF Pay
  <2>2. sub \in Subscriptions /\ sub.qty = c.qty /\ Len(subs) + 1 \in Nat
    BY Numbers DEF Subscriptions, Statuses
  <2> HIDE DEF sub
  <2>3. /\ subs' \in Seq(Subscriptions) /\ Len(subs') = Len(subs) + 1
        /\ DOMAIN subs' = 1..(Len(subs) + 1)
        /\ \A s \in DOMAIN subs : subs'[s] = subs[s]
        /\ subs'[Len(subs) + 1] = sub
    <3>1. subs \in Seq(Subscriptions) /\ DOMAIN subs = 1..Len(subs)
      BY Numbers DEF Types
    <3>2. /\ subs' \in Seq(Subscriptions) /\ Len(subs') = Len(subs) + 1
          /\ \A s \in 1..Len(subs) : subs'[s] = subs[s]
          /\ subs'[Len(subs) + 1] = sub
      BY <2>1, <2>2, <3>1, AppendProperties
    <3> QED
      BY <3>1, <3>2, LenProperties
  <2>4. Told(Len(subs) + 1)
    BY <2>1, <2>2, Emitted DEF Types, EventTypes
  <2>5. Types'
    BY <1>15, <2>3, <2>4, Numbers DEF Types, Told, Pay, database
  <2>6. References'
    <3>1. OrgRefers' /\ SessionsRefer' /\ RequestsRefer'
      BY <1>15, <2>3, Numbers
         DEF References, OrgRefers, SessionsRefer, RequestsRefer, Pay, database
    <3>2. LogRefers'
      BY <2>3, <2>4, Numbers DEF References, LogRefers, Told
    <3> QED
      BY <3>1, <3>2 DEF References
  <2>7. Quantities'
    <3>1. RequestsCount' /\ SessionsCount'
      BY <1>15 DEF Quantities, RequestsCount, SessionsCount, Billed, Pay, database
    <3>2. SubsCount'
      BY <1>15, <2>2, <2>3, Numbers DEF Quantities, SessionsCount, SubsCount, Billed, Pay, database
    <3> QED
      BY <3>1, <3>2 DEF Quantities
  <2> QED
    BY <2>5, <2>6, <2>7
<1>16. ASSUME NEW s \in DOMAIN subs, NEW status \in Statuses \ {"incomplete"},
              Change(s, status)
       PROVE  Inv'
  <2> DEFINE u == [subs[s] EXCEPT !.status = status]
  <2> DEFINE type == IF status = "canceled" THEN "deleted" ELSE "updated"
  <2>1. subs' = [subs EXCEPT ![s] = u] /\ Emit(s, u, type)
    BY <1>16 DEF Change
  <2>2. u \in Subscriptions /\ u.qty = subs[s].qty /\ s \in Nat /\ type \in EventTypes
    BY Numbers DEF Subscriptions, Statuses, EventTypes
  <2> HIDE DEF u, type
  <2>3. SubChanged(s, u)
    BY <2>1, <2>2, Updated DEF Types
  <2>4. Told(s)
    BY <2>1, <2>2, Emitted DEF Types
  <2>5. Types'
    BY <1>16, <2>3, <2>4, Numbers DEF Types, SubChanged, Told, Change, database, history
  <2>6. References'
    <3>1. OrgRefers' /\ SessionsRefer' /\ RequestsRefer'
      BY <1>16, <2>3
         DEF References, OrgRefers, SessionsRefer, RequestsRefer, SubChanged, Change, database
    <3>2. LogRefers'
      BY <2>3, <2>4, Numbers DEF References, LogRefers, SubChanged, Told
    <3> QED
      BY <3>1, <3>2 DEF References
  <2>7. Quantities'
    <3>1. RequestsCount' /\ SessionsCount'
      BY <1>16 DEF Quantities, RequestsCount, SessionsCount, Billed, Change, database
    <3>2. SubsCount'
      BY <1>16, <2>2, <2>3 DEF Quantities, SubsCount, SubChanged, Billed, Change, database
    <3> QED
      BY <3>1, <3>2 DEF Quantities
  <2> QED
    BY <2>5, <2>6, <2>7
<1>17. ASSUME NEW e \in pending, Webhook(e) PROVE Inv'
  <2>1. e \in DOMAIN log /\ log[e] \in Events /\ log[e].sub \in 1..Len(subs)
    BY Numbers DEF Types, References, LogRefers
  <2> DEFINE upd == ParseSubscriptionEvent(e)
  <2>2. upd.sub = log[e].sub /\ upd.status \in Statuses
    BY <2>1 DEF ParseSubscriptionEvent, Events, References, LogRefers, Statuses
  <2> HIDE DEF upd
  <2>3. org' = org \/ org' = [org EXCEPT !.sub = upd.sub, !.status = upd.status]
    BY <1>17 DEF Webhook, UpdateOrgSubscription, upd
  <2>4. /\ org' \in [cust : Nat, sub : Nat, status : Statuses \cup {"trialing"}]
        /\ org'.cust = org.cust /\ org'.sub <= Len(subs)
    <3>1. /\ org \in [cust : Nat, sub : Nat, status : Statuses \cup {"trialing"}]
          /\ org.sub <= Len(subs)
      BY DEF Types, References, OrgRefers
    <3>2. upd.sub \in Nat /\ upd.sub <= Len(subs)
      BY <2>1, <2>2, Numbers
    <3> QED
      BY <2>2, <2>3, <3>1, <3>2
  <2>5. Types'
    <3>1. /\ pending' \subseteq DOMAIN log /\ applied' \in 0..Len(log) /\ faults' \in 0..MaxFaults
          /\ late' \in BOOLEAN
      BY <1>17, <2>1, Numbers, ConstantsOK DEF Webhook, Fault, Types, ConstantsOK
    <3> QED
      BY <1>17, <2>4, <3>1 DEF Types, Webhook
  <2>6. References'
    BY <1>17, <2>4
       DEF References, OrgRefers, SessionsRefer, LogRefers, RequestsRefer, Webhook
  <2>7. Quantities'
    BY <1>17 DEF Quantities, RequestsCount, SessionsCount, SubsCount, Billed, Webhook
  <2> QED
    BY <2>5, <2>6, <2>7
<1> QED
  BY <1>1, <1>2, <1>3, <1>4, <1>5, <1>6, <1>7, <1>8, <1>9, <1>10, <1>11, <1>12, <1>13, <1>14,
     <1>15, <1>16, <1>17 DEF Next, Start, Step, Subscriber, AtRest

\* Types, references and quantities always hold.
THEOREM InvAlways == Spec => []Inv
<1>1. Init => Inv
  BY InitInv
<1>2. Inv /\ [Next]_vars => Inv'
  BY NextInv
<1> QED
  BY <1>1, <1>2, PTL DEF Spec

\* TypeOK, the types and references of billing.go's row, requests and Stripe's objects.
THEOREM BillingTypeCorrect == Spec => []TypeOK
<1>1. Inv => TypeOK
  <2> SUFFICES ASSUME Inv PROVE TypeOK
    OBVIOUS
  <2> USE DEF Inv
  <2>1. org \in [cust : 0..customers, sub : 0..Len(subs), status : Statuses \cup {"trialing"}]
    BY Numbers DEF Types, References, OrgRefers
  <2>2. \A c \in sessions : c.cust \in 1..customers /\ c.qty \in Nat \ {0}
    BY Numbers DEF References, SessionsRefer, Quantities, SessionsCount
  <2>3. \A s \in DOMAIN subs : subs[s].status \in Statuses /\ subs[s].qty \in Nat \ {0}
    BY Numbers DEF Subscriptions, Quantities, SubsCount
  <2> QED
    BY <2>1, <2>2, <2>3 DEF TypeOK, Types, Pcs
<1> QED
  BY <1>1, InvAlways, PTL

\* No subscription is ever billed for more locations than there are, whatever overlaps
\* or fails between CountLocations and the quantity set at Stripe.
THEOREM NeverBilledTooMuch == Spec => []NeverOverbilled
<1>1. Inv => NeverOverbilled
  BY Numbers DEF Inv, Quantities, SubsCount, NeverOverbilled, Billed
<1> QED
  BY <1>1, InvAlways, PTL

-----------------------------------------------------------------------------
(* One customer.                                                           *)

\* A new organization has no customer.
LEMMA OneCustomerInit == Init => OneCustomer
  BY DEF Init, OneCustomer, Ensuring

\* Without races and faults no step makes a second customer.
LEMMA OneCustomerNext == Inv /\ OneCustomer /\ [Next]_vars => OneCustomer'
<1> SUFFICES ASSUME Inv, OneCustomer, [Next]_vars, ~raced', faults' = 0
             PROVE  OneCustomer'
  BY DEF OneCustomer
<1>0. /\ customers \in Nat /\ org.cust \in Nat /\ org.cust <= customers
      /\ pc \in [Requests -> Pcs]
  BY Numbers DEF Inv, References, OrgRefers, Types
<1>1. ASSUME NEW r \in Requests, NEW kind \in {"checkout", "portal"}, ReadOrg(r, kind)
      PROVE  OneCustomer'
  BY <1>0, <1>1 DEF OneCustomer, Ensuring, ReadOrg, GotoWith, Goto, AfterCustomer, Customer, None,
     Pcs, database, stripe
<1>2. ASSUME NEW r \in Requests, RequireEntitled(r) PROVE OneCustomer'
  BY <1>0, <1>2 DEF OneCustomer, Ensuring, RequireEntitled, Goto, database, stripe, history
<1>3. ASSUME NEW r \in Requests, CreateCustomer(r) PROVE OneCustomer'
  BY <1>0, <1>3 DEF OneCustomer, Ensuring, CreateCustomer, GotoWith, Goto, None, database, history
<1>4. ASSUME NEW r \in Requests, SetOrgStripeCustomer(r) PROVE OneCustomer'
  <2>1. local[r].cust # None /\ org'.cust = local[r].cust
    BY <1>4 DEF Inv, Types, References, RequestsRefer, SetOrgStripeCustomer
  <2> QED
    BY <1>0, <1>4, <2>1 DEF OneCustomer, Ensuring, SetOrgStripeCustomer, GotoWith, Goto,
       AfterCustomer, None, stripe, history
<1>5. ASSUME NEW r \in Requests,
             CountForCheckout(r) \/ CheckoutURL(r) \/ CreateLocation(r) \/ SyncReadOrg(r)
             \/ SyncCount(r) \/ SetQuantity(r)
      PROVE  OneCustomer'
  <2> DEFINE P == /\ UNCHANGED <<customers, org>> /\ ~raced /\ faults = 0
                  /\ pc[r] \notin {"ensure", "store"}
                  /\ \E where \in Pcs \ {"ensure", "store"} : pc' = [pc EXCEPT ![r] = where]
  <2>0. faults \in Nat
    BY ConstantsOK DEF Inv, Types, ConstantsOK
  <2>1. P
    <3>1. CASE CountForCheckout(r)
      BY <2>0, <3>1 DEF CountForCheckout, Fault, GotoWith, Goto, Pcs, database, stripe, history
    <3>2. CASE CheckoutURL(r)
      BY <3>2 DEF CheckoutURL, End, GotoWith, Goto, Pcs, database, history
    <3>3. CASE CreateLocation(r)
      BY <3>3 DEF CreateLocation, Goto, Pcs, stripe, history
    <3>4. CASE SyncReadOrg(r)
      <4>1. GotoWith(r, "done", [local[r] EXCEPT !.sub = org.sub])
            \/ GotoWith(r, "sync_count", [local[r] EXCEPT !.sub = org.sub])
        BY <3>4 DEF SyncReadOrg
      <4> QED
        BY <3>4, <4>1 DEF SyncReadOrg, GotoWith, Goto, Pcs, database, stripe
    <3>5. CASE SyncCount(r)
      BY <3>5 DEF SyncCount, GotoWith, Goto, Pcs, database, stripe
    <3>6. CASE SetQuantity(r)
      BY <3>6 DEF SetQuantity, End, GotoWith, Goto, Pcs, database, history
    <3> QED
      BY <1>5, <3>1, <3>2, <3>3, <3>4, <3>5, <3>6
  <2> QED
    BY <1>0, <2>1 DEF OneCustomer, Ensuring
<1>6. ASSUME NEW r \in Requests, Fail(r) PROVE OneCustomer'
  <2>1. faults \in Nat /\ faults' = faults + 1
    BY <1>6, ConstantsOK DEF Fail, Fault, Inv, Types, ConstantsOK
  <2> QED
    BY <2>1
<1>7. ASSUME UNCHANGED <<pc, customers, org, raced, faults>> PROVE OneCustomer'
  BY <1>7 DEF OneCustomer, Ensuring
<1>8. ASSUME NEW e \in pending, Webhook(e) PROVE OneCustomer'
  <2>1. org'.cust = org.cust
    BY <1>8 DEF Webhook, UpdateOrgSubscription, Inv, Types
  <2>2. faults \in Nat /\ faults = 0
    BY <1>8, ConstantsOK DEF Webhook, Fault, Inv, Types, ConstantsOK
  <2> QED
    BY <1>8, <2>1, <2>2 DEF OneCustomer, Ensuring, Webhook
<1>9. ASSUME NEW e \in pending, WebhookFails(e) PROVE OneCustomer'
  <2>1. faults \in Nat /\ faults' = faults + 1
    BY <1>9, ConstantsOK DEF WebhookFails, Fault, Inv, Types, ConstantsOK
  <2> QED
    BY <2>1
<1>10. ASSUME Subscriber \/ TrialEnds \/ UNCHANGED vars PROVE OneCustomer'
  BY <1>7, <1>10 DEF Subscriber, Pay, Change, Emit, TrialEnds, vars, database, stripe, history
<1> QED
  BY <1>1, <1>2, <1>3, <1>4, <1>5, <1>6, <1>8, <1>9, <1>10 DEF Next, Start, Step, AtRest

\* A second customer at Stripe needs two requests that found none at once, or a failure
\* between CreateCustomer and SetOrgStripeCustomer.
THEOREM SecondCustomerNeedsRace == Spec => []ExtraCustomerNeedsRace
<1>1. Inv /\ OneCustomer => ExtraCustomerNeedsRace
  BY Numbers, ConstantsOK DEF Inv, Types, OneCustomer, ExtraCustomerNeedsRace, ConstantsOK
<1> QED
  BY <1>1, InvAlways, OneCustomerInit, OneCustomerNext, PTL DEF Spec

-----------------------------------------------------------------------------
(* Quantities follow the locations.                                        *)

SyncPcs == {"sync", "sync_count", "sync_set"}

\* Requests that sync are where they were, and no quantity has changed.
Undisturbed ==
    /\ locations' = locations /\ (excused => excused')
    /\ DOMAIN subs' = DOMAIN subs
    /\ \A s \in DOMAIN subs : /\ subs'[s].qty = subs[s].qty
                              /\ subs'[s].status \notin Over => subs[s].status \notin Over
    /\ \A q \in Requests : pc[q] \in SyncPcs \/ pc'[q] \in SyncPcs =>
            /\ pc'[q] = pc[q]
            /\ local'[q].sub = local[q].sub /\ local'[q].qty = local[q].qty

\* A request that has counted names a subscription.
LEMMA SubOf ==
  ASSUME Inv, NEW r \in Requests, pc[r] \in {"sync_count", "sync_set"}
  PROVE  local[r].sub \in DOMAIN subs
  BY Numbers DEF Inv, References, RequestsRefer, None

\* A step that disturbs no sync keeps Tracked.
LEMMA TrackedUndisturbed ==
  ASSUME Inv, Tracked, Undisturbed
  PROVE  Tracked'
<1> SUFFICES ASSUME ~excused'
             PROVE  /\ \A q, r \in Requests : pc'[q] = "sync_set" /\ pc'[r] = "sync_set" => q = r
                    /\ \A r \in Requests :
                        pc'[r] = "sync_set" /\ subs'[local'[r].sub].status \notin Over =>
                            \/ local'[r].qty = locations'
                            \/ \E q \in Requests : WillSet(q, local[r].sub)'
                    /\ \A s \in DOMAIN subs' : subs'[s].status \notin Over =>
                        \/ subs'[s].qty = Billed(locations)'
                        \/ \E q \in Requests :
                            WillSet(q, s)' \/ (pc'[q] = "sync_set" /\ local'[q].sub = s)
  BY DEF Tracked, Live, WillSet, Undisturbed, SyncPcs
<1>1. ~excused
  BY DEF Undisturbed
<1>2. \A q, r \in Requests : pc'[q] = "sync_set" /\ pc'[r] = "sync_set" => q = r
  BY <1>1 DEF Tracked, Undisturbed, SyncPcs
<1>3. ASSUME NEW r \in Requests, pc'[r] = "sync_set", subs'[local'[r].sub].status \notin Over
      PROVE  local'[r].qty = locations' \/ \E q \in Requests : WillSet(q, local[r].sub)'
  <2>1. pc[r] = "sync_set" /\ local'[r].sub = local[r].sub /\ local'[r].qty = local[r].qty
    BY <1>3 DEF Undisturbed, SyncPcs
  <2>2. Live(local[r].sub)
    BY <1>3, <2>1, SubOf DEF Undisturbed, Live
  <2> QED
    BY <1>1, <2>1, <2>2 DEF Tracked, Undisturbed, WillSet, SyncPcs
<1>4. ASSUME NEW s \in DOMAIN subs', subs'[s].status \notin Over
      PROVE  \/ subs'[s].qty = Billed(locations)'
             \/ \E q \in Requests : WillSet(q, s)' \/ (pc'[q] = "sync_set" /\ local'[q].sub = s)
  <2>1. s \in DOMAIN subs /\ Live(s) /\ subs'[s].qty = subs[s].qty
    BY <1>4 DEF Undisturbed, Live
  <2> QED
    BY <1>1, <2>1 DEF Tracked, Undisturbed, WillSet, SyncPcs, Billed
<1> QED
  BY <1>2, <1>3, <1>4

\* Nothing is billed at first.
LEMMA TrackedInit == Init => Tracked
  BY DEF Init, Tracked

\* Every step keeps Tracked, or excuses the quantities.
LEMMA TrackedNext == Inv /\ Tracked /\ [Next]_vars => Tracked'
<1> SUFFICES ASSUME Inv, Tracked, [Next]_vars, ~excused' PROVE Tracked'
  BY DEF Tracked
<1>0. pc \in [Requests -> Pcs] /\ local \in [Requests -> Locals]
  BY DEF Inv, Types
<1>1. ASSUME NEW r \in Requests, NEW kind \in {"checkout", "portal"}, ReadOrg(r, kind)
      PROVE  Tracked'
  <2>1. Undisturbed
    <3>1. \E where \in Pcs \ SyncPcs : \E l : GotoWith(r, where, l)
      BY <1>1 DEF ReadOrg, AfterCustomer, Pcs, SyncPcs
    <3> QED
      BY <1>0, <1>1, <3>1 DEF Undisturbed, ReadOrg, GotoWith, Goto, SyncPcs, database, stripe
  <2> QED
    BY <2>1, TrackedUndisturbed
<1>2. ASSUME NEW r \in Requests, RequireEntitled(r) PROVE Tracked'
  <2>1. Undisturbed
    BY <1>0, <1>2 DEF Undisturbed, RequireEntitled, Goto, SyncPcs, database, stripe, history
  <2> QED
    BY <2>1, TrackedUndisturbed
<1>3. ASSUME NEW r \in Requests, CreateCustomer(r) PROVE Tracked'
  <2>1. Undisturbed
    BY <1>0, <1>3 DEF Undisturbed, CreateCustomer, GotoWith, Goto, SyncPcs, database, history
  <2> QED
    BY <2>1, TrackedUndisturbed
<1>4. ASSUME NEW r \in Requests, SetOrgStripeCustomer(r) PROVE Tracked'
  <2>1. Undisturbed
    BY <1>0, <1>4 DEF Undisturbed, SetOrgStripeCustomer, GotoWith, Goto, AfterCustomer, SyncPcs,
       stripe, history
  <2> QED
    BY <2>1, TrackedUndisturbed
<1>5. ASSUME NEW r \in Requests, CountForCheckout(r) PROVE Tracked'
  <2>1. Undisturbed
    <3>1. \E l : GotoWith(r, "session", l)
      BY <1>5 DEF CountForCheckout
    <3> QED
      BY <1>0, <1>5, <3>1 DEF Undisturbed, CountForCheckout, GotoWith, Goto, SyncPcs, database,
         stripe, history
  <2> QED
    BY <2>1, TrackedUndisturbed
<1>6. ASSUME NEW r \in Requests, CheckoutURL(r) PROVE Tracked'
  <2>1. Undisturbed
    BY <1>0, <1>6 DEF Undisturbed, CheckoutURL, End, GotoWith, Goto, SyncPcs, database, history
  <2> QED
    BY <2>1, TrackedUndisturbed
<1>7. ASSUME NEW r \in Requests, CreateLocation(r) PROVE Tracked'
  <2>1. /\ pc[r] = "insert" /\ pc'[r] = "sync" /\ local' = local /\ subs' = subs
        /\ \A q \in Requests : q # r => pc'[q] = pc[q]
    BY <1>0, <1>7 DEF CreateLocation, Goto, stripe
  <2>2. \A s : WillSet(r, s)'
    BY <2>1 DEF WillSet
  <2>3. ~excused
    BY <1>7 DEF CreateLocation, history
  <2> QED
    BY <2>1, <2>2, <2>3 DEF Tracked
<1>8. ASSUME NEW r \in Requests, SyncReadOrg(r) PROVE Tracked'
  <2> DEFINE where == IF org.sub = None \/ org.status \notin Synced THEN "done" ELSE "sync_count"
  <2>1. /\ ~excused /\ UNCHANGED <<locations, subs>>
        /\ \A s \in DOMAIN subs : Live(s) =>
              org.sub = s /\ org.status = subs[s].status /\ subs[s].status \notin Lapsed
    BY <1>8 DEF SyncReadOrg, database, stripe
  <2>2. /\ pc[r] = "sync" /\ pc'[r] = where
        /\ where = "sync_count" => local'[r].sub = org.sub
        /\ \A q \in Requests : q # r => pc'[q] = pc[q] /\ local'[q] = local[q]
    <3>1. local[r] \in Locals
      BY <1>0
    <3>2. [local[r] EXCEPT !.sub = org.sub].sub = org.sub
      BY <3>1 DEF Locals
    <3> QED
      BY <1>0, <1>8, <3>2 DEF SyncReadOrg, GotoWith, Goto
  <2>3. \A s \in DOMAIN subs : Live(s) => where = "sync_count" /\ s = org.sub
    <3>1. ASSUME NEW s \in DOMAIN subs, Live(s) PROVE where = "sync_count" /\ s = org.sub
      <4>1. s = org.sub /\ org.status = subs[s].status /\ subs[s].status \notin Lapsed /\ s # None
        BY <2>1, <3>1, Numbers DEF Inv, None
      <4>2. subs[s].status \in Statuses \ (Over \cup Lapsed)
        BY <3>1, <4>1, Numbers DEF Inv, Subscriptions, Live
      <4> QED
        BY <4>1, <4>2 DEF Synced, Statuses, Over, Lapsed
    <3> QED
      BY <3>1
  <2> HIDE DEF where
  <2>4. \A s \in DOMAIN subs : Live(s) => WillSet(r, s)'
    BY <2>2, <2>3 DEF WillSet
  <2>5. \A q \in Requests : pc'[q] = "sync_set" => q # r /\ pc[q] = "sync_set"
    BY <2>2 DEF where
  <2>6. \A q, p \in Requests : pc'[q] = "sync_set" /\ pc'[p] = "sync_set" => q = p
    BY <2>1, <2>5 DEF Tracked
  <2>7. \A q \in Requests : pc'[q] = "sync_set" => local'[q].sub \in DOMAIN subs
    BY <2>2, <2>5, SubOf
  <2> QED
    BY <2>1, <2>4, <2>6, <2>7 DEF Tracked, Live
<1>9. ASSUME NEW r \in Requests, SyncCount(r) PROVE Tracked'
  <2>1. /\ ~excused /\ UNCHANGED <<locations, subs>>
        /\ \A q \in Requests : pc[q] # "sync_set"
    BY <1>9 DEF SyncCount, database, stripe
  <2>2. /\ pc[r] = "sync_count" /\ pc'[r] = "sync_set"
        /\ local'[r].sub = local[r].sub /\ local'[r].qty = locations
        /\ \A q \in Requests : q # r => pc'[q] = pc[q] /\ local'[q] = local[q]
    <3>1. local[r] \in Locals
      BY <1>0
    <3>2. LET l == [local[r] EXCEPT !.qty = locations] IN l.sub = local[r].sub /\ l.qty = locations
      BY <3>1 DEF Locals
    <3> QED
      BY <1>0, <1>9, <3>2 DEF SyncCount, CountLocations, GotoWith, Goto
  <2>3. \A q \in Requests : pc'[q] = "sync_set" => q = r
    BY <2>1, <2>2
  <2>4. ASSUME NEW s \in DOMAIN subs, Live(s)
        PROVE  \/ subs[s].qty = Billed(locations)
               \/ \E q \in Requests : WillSet(q, s)' \/ (pc'[q] = "sync_set" /\ local'[q].sub = s)
    <3>1. CASE subs[s].qty = Billed(locations)
      BY <3>1
    <3>2. CASE \E q \in Requests : WillSet(q, s)
      BY <2>2, <3>2 DEF WillSet
    <3> QED
      BY <2>1, <2>4, <3>1, <3>2 DEF Tracked
  <2> QED
    BY <2>1, <2>2, <2>3, <2>4 DEF Tracked, Live, Billed
<1>10. ASSUME NEW r \in Requests, SetQuantity(r) PROVE Tracked'
  <2> DEFINE t == local[r].sub
  <2>1. /\ ~excused /\ UNCHANGED locations /\ t \in DOMAIN subs
        /\ \A q \in Requests : pc[q] = "sync_set" => q = r
    <3>1. ~excused /\ UNCHANGED locations /\ pc[r] = "sync_set"
      BY <1>10 DEF SetQuantity, database, history
    <3> QED
      BY <3>1, SubOf DEF Tracked
  <2>2. /\ pc[r] = "sync_set" /\ pc'[r] = "done"
        /\ \A q \in Requests : q # r => pc'[q] = pc[q] /\ local'[q] = local[q]
    BY <1>0, <1>10 DEF SetQuantity, End, GotoWith, Goto
  <2>3. \A q \in Requests : pc'[q] # "sync_set"
    BY <2>1, <2>2
  <2>4. /\ DOMAIN subs' = DOMAIN subs
        /\ \A s \in DOMAIN subs : s # t => subs'[s] = subs[s]
        /\ ~Live(t) => subs' = subs
        /\ Live(t) => subs'[t].qty = Billed(local[r].qty)
    <3>1. subs[t] \in Subscriptions /\ subs \in Seq(Subscriptions)
      BY <2>1, Numbers DEF Inv, Types
    <3>2. [subs[t] EXCEPT !.qty = Billed(local[r].qty)].qty = Billed(local[r].qty)
      BY <3>1 DEF Subscriptions
    <3> QED
      BY <1>10, <2>1, <3>1, <3>2 DEF SetQuantity, NewQuantity
  <2>5. ASSUME NEW s \in DOMAIN subs, subs'[s].status \notin Over
        PROVE  subs'[s].qty = Billed(locations) \/ \E q \in Requests : WillSet(q, s)'
    <3>1. Live(s)
      BY <1>10, <2>1, <2>4, <2>5 DEF Live
    <3>2. (\E q \in Requests : WillSet(q, s)) => \E q \in Requests : WillSet(q, s)'
      BY <2>2 DEF WillSet
    <3>3. CASE s = t
      BY <2>1, <2>2, <2>4, <3>1, <3>2, <3>3 DEF Tracked
    <3>4. CASE s # t
      BY <2>1, <2>4, <3>1, <3>2, <3>4 DEF Tracked
    <3> QED
      BY <3>3, <3>4
  <2> QED
    BY <2>1, <2>3, <2>4, <2>5 DEF Tracked, Live, Billed
<1>11. ASSUME NEW r \in Requests, Fail(r) PROVE Tracked'
  <2>1. Undisturbed
    BY <1>0, <1>11 DEF Undisturbed, Fail, End, GotoWith, Goto, SyncPcs, database
  <2> QED
    BY <2>1, TrackedUndisturbed
<1>12. ASSUME NEW c \in sessions, NEW status \in {"active", "incomplete"}, Pay(c, status)
       PROVE  Tracked'
  <2>1. /\ ~excused /\ UNCHANGED <<pc, local, locations>> /\ c.qty = Billed(locations)
    BY <1>12 DEF Pay, database
  <2>2. /\ DOMAIN subs' = DOMAIN subs \cup {Len(subs) + 1}
        /\ \A s \in DOMAIN subs : subs'[s] = subs[s]
        /\ subs'[Len(subs) + 1].qty = c.qty
    <3> DEFINE sub == [cust |-> c.cust, qty |-> c.qty, status |-> status]
    <3>1. sub \in Subscriptions /\ sub.qty = c.qty
      BY Numbers DEF Inv, Subscriptions, Statuses
    <3>2. subs' = Append(subs, sub)
      BY <1>12 DEF Pay
    <3> HIDE DEF sub
    <3>3. subs \in Seq(Subscriptions) /\ DOMAIN subs = 1..Len(subs) /\ Len(subs) \in Nat
      BY Numbers DEF Inv, Types
    <3>4. /\ subs' \in Seq(Subscriptions) /\ Len(subs') = Len(subs) + 1
          /\ \A s \in 1..Len(subs) : subs'[s] = subs[s]
          /\ subs'[Len(subs) + 1] = sub
      BY <3>1, <3>2, <3>3, AppendProperties
    <3>5. DOMAIN subs' = 1..Len(subs')
      BY <3>4, LenProperties
    <3> QED
      BY <3>1, <3>3, <3>4, <3>5
  <2>3. \A r \in Requests : pc[r] = "sync_set" => local[r].sub \in DOMAIN subs
    BY SubOf
  <2> QED
    BY <2>1, <2>2, <2>3 DEF Tracked, Live, WillSet, Billed
<1>13. ASSUME NEW s \in DOMAIN subs, NEW status \in Statuses \ {"incomplete"},
              Change(s, status)
       PROVE  Tracked'
  <2>1. Undisturbed
    <3> DEFINE u == [subs[s] EXCEPT !.status = status]
    <3>1. subs' = [subs EXCEPT ![s] = u] /\ Live(s)
      BY <1>13 DEF Change
    <3>2. u \in Subscriptions /\ u.qty = subs[s].qty
      BY Numbers DEF Inv, Subscriptions, Statuses
    <3> HIDE DEF u
    <3>3. SubChanged(s, u)
      BY <3>1, <3>2, Updated DEF Inv, Types
    <3> QED
      BY <1>13, <3>1, <3>2, <3>3 DEF Undisturbed, SubChanged, Live, Change, database, history
  <2> QED
    BY <2>1, TrackedUndisturbed
<1>14. ASSUME NEW e \in pending, Webhook(e) \/ WebhookFails(e) PROVE Tracked'
  <2>1. Undisturbed
    BY <1>14 DEF Undisturbed, Webhook, WebhookFails, database, history
  <2> QED
    BY <2>1, TrackedUndisturbed
<1>15. ASSUME TrialEnds \/ UNCHANGED vars PROVE Tracked'
  <2>1. Undisturbed
    BY <1>15 DEF Undisturbed, TrialEnds, vars, database, stripe, history
  <2> QED
    BY <2>1, TrackedUndisturbed
<1> QED
  BY <1>1, <1>2, <1>3, <1>4, <1>5, <1>6, <1>7, <1>8, <1>9, <1>10, <1>11, <1>12, <1>13, <1>14,
     <1>15 DEF Next, Start, Step, Subscriber, AtRest

\* Once no sync is under way, and but for the reasons that excuse it, every live
\* subscription bills the locations there are, whatever else happened in between.
THEOREM QuantitiesTrack == Spec => []QuantityTracks
<1>1. Inv /\ Tracked => QuantityTracks
  BY DEF Tracked, QuantityTracks, WillSet
<1> QED
  BY <1>1, InvAlways, TrackedInit, TrackedNext, PTL DEF Spec

-----------------------------------------------------------------------------
(* The row follows Stripe.                                                 *)

\* The status event e brings to the row.
Parsed(e) == IF log[e].type = "deleted" THEN "canceled" ELSE log[e].status

\* Before the row has a customer nothing is asked of Stripe, and what is there is of
\* customers Stripe has.
HasCustomer ==
    /\ \A r \in Requests : pc[r] \in {"count", "session"} => org.cust # None
    /\ sessions # {} \/ Len(subs) # 0 \/ Len(log) # 0 => org.cust # None
CustomersKnown ==
    /\ \A s \in DOMAIN subs : subs[s].cust \in 1..customers
    /\ \A e \in DOMAIN log : log[e].cust \in 1..customers

\* No event is forgotten, the newest one applied is what the row shows, and the newest
\* one of all tells how its subscription is.
Handled == \A e \in DOMAIN log : e \in pending \/ e <= applied
Shown ==
    applied # 0 /\ ~late /\ customers = 1 =>
        org.sub = log[applied].sub /\ org.status = Parsed(applied)
LastTold == Len(log) # 0 => subs[log[Len(log)].sub].status = Parsed(Len(log))

Follows == HasCustomer /\ CustomersKnown /\ Handled /\ Shown /\ LastTold

\* There is nothing to follow at first.
LEMMA FollowsInit == Init => Follows
<1> SUFFICES ASSUME Init PROVE Follows
  OBVIOUS
<1>1. Len(subs) = 0 /\ Len(log) = 0 /\ DOMAIN subs = {} /\ DOMAIN log = {} /\ sessions = {}
  BY DEF Init
<1> QED
  BY <1>1 DEF Init, Follows, HasCustomer, CustomersKnown, Handled, Shown, LastTold

\* A step without an event keeps Follows, unless it takes the row's customer away.
LEMMA FollowsFrame ==
  ASSUME Inv, Follows,
         UNCHANGED <<subs, log, applied, late>>, pending \subseteq pending',
         org'.sub = org.sub, org'.status = org.status, org.cust # None => org'.cust # None,
         customers' \in Nat, customers <= customers',
         \A r \in Requests : pc'[r] \in {"count", "session"} => org'.cust # None,
         sessions' # {} => org'.cust # None
  PROVE  Follows'
<1>1. HasCustomer'
  BY DEF Follows, HasCustomer, None
<1>2. CustomersKnown'
  BY Numbers DEF Follows, CustomersKnown, Inv
<1>3. Handled'
  BY DEF Follows, Handled
<1>4. applied # 0 /\ customers' = 1 => customers = 1
  <2>1. applied \in 0..Len(log) /\ Len(log) \in Nat /\ DOMAIN log = 1..Len(log)
    BY Numbers DEF Inv, Types
  <2>2. applied # 0 => log[applied].cust \in 1..customers
    BY <2>1 DEF Follows, CustomersKnown
  <2> QED
    BY <2>2, Numbers DEF Inv
<1>5. Shown'
  BY <1>4 DEF Follows, Shown, Parsed
<1>6. LastTold'
  BY DEF Follows, LastTold, Parsed
<1> QED
  BY <1>1, <1>2, <1>3, <1>5, <1>6 DEF Follows

\* So does one that tells of a subscription as it then is.
LEMMA FollowsEmit ==
  ASSUME Inv, Follows, NEW s \in Nat, NEW sub \in Subscriptions, NEW type \in EventTypes,
         Emit(s, sub, type), sub.cust \in 1..customers,
         subs'[s].status = IF type = "deleted" THEN "canceled" ELSE sub.status,
         \A t \in DOMAIN subs' : subs'[t].cust \in 1..customers,
         UNCHANGED <<org, customers, applied, late>>, org.cust # None
  PROVE  Follows'
<1> DEFINE new == [type |-> type, cust |-> sub.cust, sub |-> s,
                   status |-> IF type = "deleted" THEN "unknown" ELSE sub.status]
<1>1. /\ new \in Events /\ new.sub = s /\ new.cust = sub.cust /\ new.type = type
      /\ new.type # "deleted" => new.status = sub.status
  BY DEF Events, EventTypes, Subscriptions
<1>2. log' = Append(log, new) /\ pending' = pending \cup {Len(log) + 1}
  BY DEF Emit
<1> HIDE DEF new
<1>3. /\ log \in Seq(Events) /\ Len(log) \in Nat /\ DOMAIN log = 1..Len(log)
      /\ applied \in 0..Len(log)
  BY Numbers DEF Inv, Types
<1>4. /\ log' \in Seq(Events) /\ Len(log') = Len(log) + 1
      /\ \A e \in 1..Len(log) : log'[e] = log[e]
      /\ log'[Len(log) + 1] = new
  BY <1>1, <1>2, <1>3, AppendProperties
<1>5. DOMAIN log' = DOMAIN log \cup {Len(log) + 1}
  BY <1>3, <1>4, LenProperties
<1>6. HasCustomer'
  BY DEF HasCustomer, None
<1>7. CustomersKnown'
  BY <1>1, <1>3, <1>4, <1>5 DEF Follows, CustomersKnown
<1>8. Handled'
  BY <1>2, <1>5 DEF Follows, Handled
<1>9. Shown'
  <2>1. applied # 0 => applied \in 1..Len(log)
    BY <1>3
  <2>2. applied # 0 => log'[applied] = log[applied]
    BY <1>4, <2>1
  <2> QED
    BY <2>2 DEF Follows, Shown, Parsed
<1>10. LastTold'
  BY <1>1, <1>3, <1>4 DEF LastTold, Parsed
<1> QED
  BY <1>6, <1>7, <1>8, <1>9, <1>10 DEF Follows

\* A webhook brings the event to the row: there is one customer, and it is the row's.
LEMMA FollowsWebhook ==
  ASSUME Inv, Follows, NEW e \in pending, Webhook(e)
  PROVE  Follows'
<1>1. /\ UNCHANGED <<pc, customers, sessions, subs, log>>
      /\ pending \ {e} \subseteq pending'
      /\ late' = (late \/ e < applied) /\ applied' = (IF e > applied THEN e ELSE applied)
      /\ org' = UpdateOrgSubscription(ParseSubscriptionEvent(e))
  BY DEF Webhook
<1>2. /\ e \in DOMAIN log /\ e \in Nat /\ e # 0 /\ applied \in Nat /\ Len(log) # 0
      /\ DOMAIN log \subseteq Nat /\ log[e] \in Events
      /\ org \in [cust : Nat, sub : Nat, status : Statuses \cup {"trialing"}]
      /\ customers \in Nat
  BY Numbers DEF Inv, Types
<1> DEFINE upd == ParseSubscriptionEvent(e)
<1>3. upd.cust = log[e].cust /\ upd.sub = log[e].sub /\ upd.status = Parsed(e)
  BY <1>2 DEF ParseSubscriptionEvent, Parsed, Events
<1> HIDE DEF upd
<1>4. /\ org'.cust = org.cust
      /\ org.cust = upd.cust => org'.sub = upd.sub /\ org'.status = upd.status
  BY <1>1, <1>2 DEF UpdateOrgSubscription, upd
<1>5. org.cust # None /\ log[e].cust \in 1..customers /\ org.cust <= customers
  BY <1>2 DEF Follows, HasCustomer, CustomersKnown, Inv, References, OrgRefers
<1>6. customers = 1 => org.cust = upd.cust
  BY <1>2, <1>3, <1>5 DEF None
<1>7. HasCustomer'
  BY <1>4, <1>5 DEF HasCustomer, None
<1>8. CustomersKnown'
  BY <1>1 DEF Follows, CustomersKnown
<1>9. Handled'
  BY <1>1, <1>2 DEF Follows, Handled
<1>10. Shown'
  <2> SUFFICES ASSUME ~late', customers' = 1
               PROVE  org'.sub = log'[applied'].sub /\ org'.status = Parsed(applied)'
    BY DEF Shown
  <2>1. ~(e < applied)
    BY <1>1, Zenon
  <2>2. applied' = e
    BY <1>1, <1>2, <2>1
  <2> QED
    BY <1>1, <1>3, <1>4, <1>6, <2>2 DEF Parsed
<1>11. LastTold'
  BY <1>1 DEF Follows, LastTold, Parsed
<1> QED
  BY <1>7, <1>8, <1>9, <1>10, <1>11 DEF Follows

\* Every step keeps Follows.
LEMMA FollowsNext == Inv /\ Follows /\ [Next]_vars => Follows'
<1> SUFFICES ASSUME Inv, Follows, [Next]_vars PROVE Follows'
  OBVIOUS
<1>0. /\ pc \in [Requests -> Pcs] /\ local \in [Requests -> Locals]
      /\ org \in [cust : Nat, sub : Nat, status : Statuses \cup {"trialing"}]
      /\ customers \in Nat
  BY DEF Inv, Types
<1>1. /\ \A r \in Requests : pc[r] \in {"count", "session"} => org.cust # None
      /\ sessions # {} \/ Len(subs) # 0 \/ Len(log) # 0 => org.cust # None
  BY DEF Follows, HasCustomer
<1>2. ASSUME NEW r \in Requests, NEW kind \in {"checkout", "portal"}, ReadOrg(r, kind)
      PROVE  Follows'
  <2>1. \A q \in Requests : pc'[q] = pc[q] \/ org.cust # None \/ pc'[q] = "ensure"
    BY <1>0, <1>2 DEF ReadOrg, GotoWith, Goto, Customer
  <2> QED
    BY <1>0, <1>1, <1>2, <2>1, FollowsFrame DEF ReadOrg, database, stripe
<1>3. ASSUME NEW r \in Requests, CreateCustomer(r) PROVE Follows'
  <2>1. \A q \in Requests : pc'[q] = pc[q] \/ pc'[q] = "store"
    BY <1>0, <1>3 DEF CreateCustomer, GotoWith, Goto
  <2> QED
    BY <1>0, <1>1, <1>3, <2>1, FollowsFrame DEF CreateCustomer, database, history
<1>4. ASSUME NEW r \in Requests, SetOrgStripeCustomer(r) PROVE Follows'
  <2>1. /\ org'.cust = local[r].cust /\ org'.sub = org.sub /\ org'.status = org.status
        /\ local[r].cust # None
    BY <1>0, <1>4 DEF SetOrgStripeCustomer, Inv, References, RequestsRefer
  <2> QED
    BY <1>0, <1>4, <2>1, FollowsFrame DEF SetOrgStripeCustomer, stripe, history
<1>5. ASSUME NEW r \in Requests, CountForCheckout(r) PROVE Follows'
  <2>1. org.cust # None
    BY <1>1, <1>5 DEF CountForCheckout
  <2> QED
    BY <1>0, <1>5, <2>1, FollowsFrame DEF CountForCheckout, database, stripe, history
<1>6. ASSUME NEW r \in Requests, CheckoutURL(r) PROVE Follows'
  <2>1. org.cust # None
    BY <1>1, <1>6 DEF CheckoutURL
  <2> QED
    BY <1>0, <1>6, <2>1, FollowsFrame DEF CheckoutURL, database, history
<1>7. ASSUME NEW r \in Requests, \/ RequireEntitled(r) \/ CreateLocation(r)
                                 \/ SyncReadOrg(r) \/ SyncCount(r)
      PROVE  Follows'
  <2>1. \A q \in Requests :
            pc'[q] = pc[q] \/ pc'[q] \in {"insert", "done", "sync", "sync_count", "sync_set"}
    BY <1>0, <1>7 DEF RequireEntitled, CreateLocation, SyncReadOrg, SyncCount, GotoWith, Goto
  <2>2. UNCHANGED <<org, stripe, applied, late>>
    BY <1>7 DEF RequireEntitled, CreateLocation, SyncReadOrg, SyncCount, database, stripe, history
  <2> QED
    BY <1>0, <1>1, <2>1, <2>2, FollowsFrame DEF stripe
<1>8. ASSUME NEW r \in Requests, SetQuantity(r) PROVE Follows'
  <2> DEFINE s == local[r].sub
             u == [subs[s] EXCEPT !.qty = Billed(local[r].qty)]
  <2>1. /\ \A q \in Requests : pc'[q] = pc[q] \/ pc'[q] = "done"
        /\ UNCHANGED <<org, customers, sessions, applied, late>>
    BY <1>0, <1>8 DEF SetQuantity, End, GotoWith, Goto, database, history
  <2>2. CASE ~Live(s)
    <3>1. UNCHANGED <<subs, log, pending>>
      BY <1>8, <2>2 DEF SetQuantity
    <3> QED
      BY <1>0, <1>1, <2>1, <3>1, FollowsFrame
  <2>3. CASE Live(s)
    <3>1. subs' = [subs EXCEPT ![s] = u] /\ Emit(s, u, "updated")
      BY <1>8, <2>3 DEF SetQuantity, NewQuantity
    <3>2. s \in DOMAIN subs /\ s \in Nat /\ subs[s] \in Subscriptions /\ Len(subs) # 0
      BY <1>8, SubOf, Numbers DEF SetQuantity, Inv
    <3>3. u \in Subscriptions /\ u.status = subs[s].status /\ u.cust = subs[s].cust
      <4>1. Billed(local[r].qty) \in Nat
        BY Numbers DEF Inv, Billed
      <4> QED
        BY <3>2, <4>1 DEF Subscriptions
    <3> HIDE DEF u
    <3>4. SubChanged(s, u)
      BY <3>1, <3>2, <3>3, Updated DEF Inv, Types
    <3>5. /\ subs'[s].status = u.status
          /\ \A t \in DOMAIN subs' : subs'[t].cust \in 1..customers
      BY <3>2, <3>3, <3>4 DEF SubChanged, Follows, CustomersKnown
    <3>6. u.cust \in 1..customers /\ org.cust # None
      BY <1>1, <3>2, <3>3 DEF Follows, CustomersKnown
    <3> QED
      BY <2>1, <3>1, <3>2, <3>3, <3>5, <3>6, FollowsEmit DEF EventTypes
  <2> QED
    BY <2>2, <2>3
<1>9. ASSUME NEW r \in Requests, Fail(r) PROVE Follows'
  <2>1. \A q \in Requests : pc'[q] = pc[q] \/ pc'[q] = "done"
    BY <1>0, <1>9 DEF Fail, End, GotoWith, Goto
  <2> QED
    BY <1>0, <1>1, <1>9, <2>1, FollowsFrame DEF Fail, database
<1>10. ASSUME NEW c \in sessions, NEW status \in {"active", "incomplete"}, Pay(c, status)
       PROVE  Follows'
  <2> DEFINE sub == [cust |-> c.cust, qty |-> c.qty, status |-> status]
  <2>1. sub \in Subscriptions /\ sub.status = status /\ sub.cust = c.cust
    BY Numbers DEF Inv, Subscriptions, Statuses
  <2>2. /\ subs' = Append(subs, sub) /\ Emit(Len(subs) + 1, sub, "created")
        /\ UNCHANGED <<org, customers, applied, late>>
    BY <1>10 DEF Pay, database
  <2> HIDE DEF sub
  <2>3. subs \in Seq(Subscriptions) /\ Len(subs) \in Nat /\ DOMAIN subs = 1..Len(subs)
    BY Numbers DEF Inv, Types
  <2>4. /\ subs' \in Seq(Subscriptions) /\ Len(subs') = Len(subs) + 1
        /\ \A s \in 1..Len(subs) : subs'[s] = subs[s]
        /\ subs'[Len(subs) + 1] = sub
    BY <2>1, <2>2, <2>3, AppendProperties
  <2>5. DOMAIN subs' = DOMAIN subs \cup {Len(subs) + 1}
    BY <2>3, <2>4, LenProperties
  <2>6. c.cust \in 1..customers /\ org.cust # None
    BY <1>1 DEF Inv, References, SessionsRefer
  <2>7. \A t \in DOMAIN subs' : subs'[t].cust \in 1..customers
    BY <2>1, <2>3, <2>4, <2>5, <2>6 DEF Follows, CustomersKnown
  <2> QED
    BY <2>1, <2>2, <2>3, <2>4, <2>6, <2>7, FollowsEmit DEF EventTypes
<1>11. ASSUME NEW s \in DOMAIN subs, NEW status \in Statuses \ {"incomplete"},
              Change(s, status)
       PROVE  Follows'
  <2> DEFINE u == [subs[s] EXCEPT !.status = status]
             type == IF status = "canceled" THEN "deleted" ELSE "updated"
  <2>1. /\ subs' = [subs EXCEPT ![s] = u] /\ Emit(s, u, type)
        /\ UNCHANGED <<org, customers, applied, late>>
    BY <1>11 DEF Change, database, history
  <2>2. s \in Nat /\ subs[s] \in Subscriptions /\ Len(subs) # 0
    BY Numbers DEF Inv
  <2>3. u \in Subscriptions /\ u.status = status /\ u.cust = subs[s].cust
    BY <2>2 DEF Subscriptions, Statuses
  <2>4. type \in EventTypes /\ status = IF type = "deleted" THEN "canceled" ELSE status
    BY DEF EventTypes
  <2> HIDE DEF u, type
  <2>5. SubChanged(s, u)
    BY <2>1, <2>3, Updated DEF Inv, Types
  <2>6. /\ subs'[s].status = status
        /\ \A t \in DOMAIN subs' : subs'[t].cust \in 1..customers
    BY <2>3, <2>5 DEF SubChanged, Follows, CustomersKnown
  <2>7. u.cust \in 1..customers /\ org.cust # None
    BY <1>1, <2>2, <2>3 DEF Follows, CustomersKnown
  <2> QED
    BY <2>1, <2>2, <2>3, <2>4, <2>6, <2>7, FollowsEmit
<1>12. ASSUME NEW e \in pending, WebhookFails(e) PROVE Follows'
  BY <1>0, <1>1, <1>12, FollowsFrame DEF WebhookFails, KeptOnError, database, history
<1>13. ASSUME TrialEnds \/ UNCHANGED vars PROVE Follows'
  BY <1>0, <1>1, <1>13, FollowsFrame DEF TrialEnds, vars, database, stripe, history
<1> QED
  BY <1>2, <1>3, <1>4, <1>5, <1>6, <1>7, <1>8, <1>9, <1>10, <1>11, <1>12, <1>13, FollowsWebhook
     DEF Next, Start, Step, Subscriber, AtRest

\* With every event delivered, none after a newer one, the row shows the last change
\* Stripe told of, whatever deliveries failed or came twice.
THEOREM RowShowsLastEvent == Spec => []RowFollowsStripe
<1>1. Inv /\ Follows => RowFollowsStripe
  <2> SUFFICES ASSUME Inv, Follows, pending = {}, ~late, customers = 1, log # <<>>
               PROVE  /\ org.sub = log[Len(log)].sub
                      /\ org.status = subs[log[Len(log)].sub].status
    BY DEF RowFollowsStripe
  <2>1. Len(log) \in Nat /\ DOMAIN log = 1..Len(log) /\ Len(log) # 0 /\ applied \in 0..Len(log)
    BY Numbers, EmptySeq DEF Inv, Types
  <2>2. Len(log) \in DOMAIN log
    BY <2>1
  <2>3. Len(log) <= applied
    BY <2>2 DEF Follows, Handled
  <2>4. applied = Len(log)
    <3>1. \A n \in Nat : \A a \in 0..n : n <= a => a = n
      OBVIOUS
    <3> QED
      BY <2>1, <2>3, <3>1, Zenon
  <2> QED
    BY <2>1, <2>4 DEF Follows, Shown, LastTold
<1> QED
  BY <1>1, InvAlways, FollowsInit, FollowsNext, PTL DEF Spec

=============================================================================
