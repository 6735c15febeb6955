------------------------------ MODULE Billing ------------------------------
(***************************************************************************)
(* Billing of one organization: billing.go and billing/client.go between   *)
(* the organization's row, which requests read and write without locks,    *)
(* and Stripe, which is called in the middle of them and answers later by  *)
(* webhook. Stripe itself is external: what it does is taken from what the *)
(* code expects of it.                                                     *)
(***************************************************************************)
EXTENDS Integers, Sequences

CONSTANTS
    Requests,    \* requests, each a checkout, a visit to the portal or a new location
    MaxEvents,   \* bound: Stripe's subscriptions change that often
    MaxFaults    \* bound: failing calls, crashes and repeated deliveries

ASSUME ConstantsOK == MaxEvents \in Nat /\ MaxFaults \in Nat

None == 0

VARIABLES
    org,         \* the row: Stripe customer, Stripe subscription, status
    trialOver,   \* trial_end has passed
    locations,   \* number of rows in locations
    pc, local,   \* of each request: where it is, and its local variables
    customers,   \* Stripe: customers made, 1 .. customers
    sessions,    \* Stripe: open checkouts
    subs,        \* Stripe: subscriptions, by number
    log,         \* Stripe: the events of its subscriptions, in order
    pending,     \* Stripe: indices of the events to be delivered
    faults,      \* faults so far
    applied,     \* history: the newest event applied
    late,        \* history: an older event was applied after it
    raced,       \* history: two requests looked for the customer at once
    excused      \* history: a reason for a wrong quantity, see QuantityTracks

database == <<org, trialOver, locations>>
stripe == <<customers, sessions, subs, log, pending>>
history == <<applied, late, raced, excused>>
vars == <<database, pc, local, stripe, faults, history>>

Fresh == [kind |-> "location", cust |-> None, sub |-> None, qty |-> 0]

Init ==
    /\ org = [cust |-> None, sub |-> None, status |-> "trialing"]
    /\ trialOver = FALSE /\ locations = 0
    /\ pc = [r \in Requests |-> "idle"]
    /\ local = [r \in Requests |-> Fresh]
    /\ customers = 0 /\ sessions = {} /\ subs = <<>> /\ log = <<>> /\ pending = {}
    /\ faults = 0
    /\ applied = 0 /\ late = FALSE /\ raced = FALSE /\ excused = FALSE

Goto(r, where) == pc' = [pc EXCEPT ![r] = where]

\* A request goes on with its variables as l, or is over.
GotoWith(r, where, l) ==
    Goto(r, where) /\ local' = [local EXCEPT ![r] = IF where = "done" THEN Fresh ELSE l]
End(r) == GotoWith(r, "done", Fresh)

Fault == faults < MaxFaults /\ faults' = faults + 1

-----------------------------------------------------------------------------
(* handleBillingCheckout and handleBillingPortal.                          *)

\* Requests that read the row when it had no customer, and will make one.
Ensuring(r) == pc[r] \in {"ensure", "store"}

AfterCustomer(kind) == IF kind = "checkout" THEN "count" ELSE "done"

\* Mutant: the row is not asked for the customer it has.
CustomerIgnored == None

Customer == org.cust

\* OrgByID, and the first lines of ensureCustomer.
ReadOrg(r, kind) ==
    /\ pc[r] = "idle"
    /\ GotoWith(r, IF Customer # None THEN AfterCustomer(kind) ELSE "ensure",
                [local[r] EXCEPT !.kind = kind, !.cust = Customer])
    /\ raced' = (raced \/ (Customer = None /\ \E q \in Requests : Ensuring(q)))
    /\ UNCHANGED <<database, stripe, faults, applied, late, excused>>

CreateCustomer(r) ==
    /\ pc[r] = "ensure"
    /\ customers' = customers + 1
    /\ GotoWith(r, "store", [local[r] EXCEPT !.cust = customers + 1])
    /\ UNCHANGED <<database, sessions, subs, log, pending, faults, history>>

SetOrgStripeCustomer(r) ==
    /\ pc[r] = "store"
    /\ org' = [org EXCEPT !.cust = local[r].cust]
    /\ GotoWith(r, AfterCustomer(local[r].kind), local[r])
    /\ UNCHANGED <<trialOver, locations, stripe, faults, history>>

CountLocations == locations

\* A failing count is taken for none.
CountForCheckout(r) ==
    /\ pc[r] = "count"
    /\ \/ GotoWith(r, "session", [local[r] EXCEPT !.qty = CountLocations]) /\ UNCHANGED faults
       \/ GotoWith(r, "session", [local[r] EXCEPT !.qty = 0]) /\ Fault
    /\ UNCHANGED <<database, stripe, history>>

\* Mutant: nothing is billed for no location.
BilledAsCounted(n) == n

\* The quantity asked for n locations.
Billed(n) == IF n < 1 THEN 1 ELSE n

CheckoutURL(r) ==
    /\ pc[r] = "session"
    /\ sessions' = sessions \cup {[by |-> r, cust |-> local[r].cust, qty |-> Billed(local[r].qty)]}
    /\ End(r)
    /\ UNCHANGED <<database, customers, subs, log, pending, faults, history>>

-----------------------------------------------------------------------------
(* handleCreateLocation, and the syncBillingQuantity it leaves behind.     *)

Entitled ==
    \/ org.status \in {"active", "past_due"}
    \/ org.status = "trialing" /\ ~trialOver

RequireEntitled(r) ==
    /\ pc[r] = "idle"
    /\ Goto(r, IF Entitled THEN "insert" ELSE "done")
    /\ UNCHANGED <<database, local, stripe, faults, history>>

CreateLocation(r) ==
    /\ pc[r] = "insert"
    /\ locations' = locations + 1
    /\ Goto(r, "sync")
    /\ UNCHANGED <<org, trialOver, local, stripe, faults, history>>

\* The statuses of Stripe that entitlement.go names: what is over stays over, and what
\* has lapsed, or never began, may become active still.
Statuses == {"active", "past_due", "canceled", "unpaid", "incomplete", "incomplete_expired"}
Over == {"canceled", "incomplete_expired"}
Lapsed == {"unpaid", "incomplete"}

Live(s) == subs[s].status \notin Over

\* Mutant: an organization whose payment is late is not kept in step.
SyncedWhenPaid == {"active"}

Synced == {"active", "past_due", "trialing"}

\* OrgByID. Excused: Stripe has a subscription that has lapsed, so that it is not kept
\* in step although it lives, or one that the row does not show as it is.
SyncReadOrg(r) ==
    /\ pc[r] = "sync"
    /\ GotoWith(r, IF org.sub = None \/ org.status \notin Synced THEN "done" ELSE "sync_count",
                [local[r] EXCEPT !.sub = org.sub])
    /\ excused' = (excused \/ \E s \in DOMAIN subs :
                      Live(s) /\ (org.sub # s \/ org.status # subs[s].status \/ subs[s].status \in Lapsed))
    /\ UNCHANGED <<database, stripe, faults, applied, late, raced>>

\* CountLocations. Excused: another sync has counted and not yet updated.
SyncCount(r) ==
    /\ pc[r] = "sync_count"
    /\ GotoWith(r, "sync_set", [local[r] EXCEPT !.qty = CountLocations])
    /\ excused' = (excused \/ \E q \in Requests : pc[q] = "sync_set")
    /\ UNCHANGED <<database, stripe, faults, applied, late, raced>>

\* Stripe tells of a subscription by an event. It is not relied on what status
\* comes with a deletion.
Emit(s, sub, type) ==
    /\ log' = Append(log, [type |-> type, cust |-> sub.cust, sub |-> s,
                           status |-> IF type = "deleted" THEN "unknown" ELSE sub.status])
    /\ pending' = pending \cup {Len(log) + 1}

\* Mutant: the quantity is counted up from what Stripe has.
OneMore(s, n) == subs[s].qty + 1

NewQuantity(s, n) == Billed(n)

\* SetSubscriptionQuantity. The subscription is read first, for the id of its
\* item, which never changes. A canceled one takes no update.
SetQuantity(r) ==
    /\ pc[r] = "sync_set"
    /\ LET s == local[r].sub
           updated == [subs[s] EXCEPT !.qty = NewQuantity(s, local[r].qty)]
       IN  IF Live(s)
           THEN subs' = [subs EXCEPT ![s] = updated] /\ Emit(s, updated, "updated")
           ELSE UNCHANGED <<subs, log, pending>>
    /\ End(r)
    /\ UNCHANGED <<database, customers, sessions, faults, history>>

\* A call fails, or the API crashes: the request ends where it is. A customer may
\* have been made all the same. If a quantity was set, the request ends as it does
\* after SetQuantity, and a checkout whose URL nobody got will not be paid.
Fail(r) ==
    /\ pc[r] \notin {"idle", "done"}
    /\ Fault
    /\ End(r)
    /\ customers' \in IF pc[r] = "ensure" THEN {customers, customers + 1} ELSE {customers}
    /\ excused' = (excused \/ pc[r] \in {"sync", "sync_count", "sync_set"})
    /\ UNCHANGED <<database, sessions, subs, log, pending, applied, late, raced>>

-----------------------------------------------------------------------------
(* Stripe, and handleStripeWebhook.                                        *)

\* A checkout is completed, and its first payment may yet fail. Excused: locations were
\* added since it was opened.
Pay(c, status) ==
    /\ Len(log) < MaxEvents
    /\ sessions' = sessions \ {c}
    /\ LET sub == [cust |-> c.cust, qty |-> c.qty, status |-> status]
       IN  subs' = Append(subs, sub) /\ Emit(Len(subs) + 1, sub, "created")
    /\ excused' = (excused \/ c.qty # Billed(locations))
    /\ UNCHANGED <<database, pc, local, customers, faults, applied, late, raced>>

\* A payment fails, for good or not, or is made up for, or the subscription is canceled.
Change(s, status) ==
    /\ Len(log) < MaxEvents
    /\ Live(s) /\ subs[s].status # status
    /\ status = "incomplete_expired" => subs[s].status = "incomplete"
    /\ LET updated == [subs[s] EXCEPT !.status = status]
       IN  /\ subs' = [subs EXCEPT ![s] = updated]
           /\ Emit(s, updated, IF status = "canceled" THEN "deleted" ELSE "updated")
    /\ UNCHANGED <<database, pc, local, customers, sessions, faults, history>>

\* Mutant: a failed update is acknowledged all the same.
DroppedOnError(e) == pending \ {e}

KeptOnError(e) == pending

ParseSubscriptionEvent(e) ==
    [log[e] EXCEPT !.status = IF log[e].type = "deleted" THEN "canceled" ELSE log[e].status]

UpdateOrgSubscription(upd) ==
    IF org.cust = upd.cust THEN [org EXCEPT !.sub = upd.sub, !.status = upd.status] ELSE org

\* Events come in whatever order. An answer may be lost: then the event comes again.
Webhook(e) ==
    /\ \/ pending' = pending \ {e} /\ UNCHANGED faults
       \/ UNCHANGED pending /\ Fault
    /\ org' = UpdateOrgSubscription(ParseSubscriptionEvent(e))
    /\ late' = (late \/ e < applied)
    /\ applied' = IF e > applied THEN e ELSE applied
    /\ UNCHANGED <<trialOver, locations, pc, local, customers, sessions, subs, log, raced, excused>>

WebhookFails(e) ==
    /\ Fault
    /\ pending' = KeptOnError(e)
    /\ UNCHANGED <<database, pc, local, customers, sessions, subs, log, history>>

\* Of no consequence after the trial's status has gone: it never comes back.
TrialEnds ==
    /\ org.status = "trialing" /\ ~trialOver /\ trialOver' = TRUE
    /\ UNCHANGED <<org, locations, pc, local, stripe, faults, history>>

-----------------------------------------------------------------------------
Start(r) == RequireEntitled(r) \/ \E kind \in {"checkout", "portal"} : ReadOrg(r, kind)

Step(r) ==
    \/ CreateCustomer(r) \/ SetOrgStripeCustomer(r) \/ CountForCheckout(r) \/ CheckoutURL(r)
    \/ CreateLocation(r) \/ SyncReadOrg(r) \/ SyncCount(r) \/ SetQuantity(r)

Subscriber ==
    \/ \E c \in sessions, status \in {"active", "incomplete"} : Pay(c, status)
    \/ \E s \in DOMAIN subs, status \in Statuses \ {"incomplete"} : Change(s, status)

AtRest ==
    /\ pending = {} /\ \A r \in Requests : pc[r] = "done"
    /\ UNCHANGED vars

Next ==
    \/ \E r \in Requests : Start(r) \/ Step(r) \/ Fail(r)
    \/ Subscriber \/ TrialEnds
    \/ \E e \in pending : Webhook(e) \/ WebhookFails(e)
    \/ AtRest

Spec == Init /\ [][Next]_vars

-----------------------------------------------------------------------------
(* Properties.                                                             *)

\* Types; a subscription's quantity is at least one, the row's customer is one
\* that Stripe has, and its subscription is one of that customer's.
TypeOK ==
    /\ org \in [cust : 0..customers, sub : 0..Len(subs), status : Statuses \cup {"trialing"}]
    /\ trialOver \in BOOLEAN /\ locations \in Nat
    /\ pc \in [Requests -> {"idle", "ensure", "store", "count", "session", "insert", "sync",
                             "sync_count", "sync_set", "done"}]
    /\ \A c \in sessions : c.cust \in 1..customers /\ c.qty \in Nat \ {0}
    /\ \A s \in DOMAIN subs : subs[s].status \in Statuses /\ subs[s].qty \in Nat \ {0}
    /\ pending \subseteq DOMAIN log /\ applied \in 0..Len(log) /\ faults \in 0..MaxFaults
    /\ <<late, raced, excused>> \in BOOLEAN \X BOOLEAN \X BOOLEAN

\* The organization gets a second customer at Stripe only when two requests looked
\* for the first at the same time, or one failed between making and storing it.
ExtraCustomerNeedsRace == customers > 1 => raced \/ faults > 0

\* Whatever checkouts and syncs overlap and whatever fails, an organization is
\* never billed for more locations than it has (or one).
NeverOverbilled == \A s \in DOMAIN subs : subs[s].qty <= Billed(locations)

\* Once no sync is under way every live subscription bills exactly the locations
\* there are, but for the reasons that excuse it: locations added while a checkout
\* was open, syncs that overlapped, a sync that failed, one that found a row not in
\* step with Stripe, or one while a subscription had lapsed, which no sync makes up
\* for when it is paid again.
QuantityTracks ==
    ~excused /\ (\A r \in Requests : pc[r] \notin {"sync", "sync_count", "sync_set"})
        => \A s \in DOMAIN subs : Live(s) => subs[s].qty = Billed(locations)

\* With all events delivered, none of them after a newer one, the row shows the
\* last change Stripe told of, whatever deliveries failed or were repeated. That is
\* for an organization with one customer at Stripe: events of another match no row.
RowFollowsStripe ==
    pending = {} /\ ~late /\ customers = 1 /\ log # <<>>
        => LET last == log[Len(log)].sub
           IN  org.sub = last /\ org.status = subs[last].status
=============================================================================
