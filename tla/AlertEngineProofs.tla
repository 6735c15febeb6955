-------------------------- MODULE AlertEngineProofs --------------------------
(***************************************************************************)
(* Proofs about AlertEngine, for any number of replicas, units, readings   *)
(* and failures: the types, and, as long as no leader lost its lock in the *)
(* middle of a tick, what the lock is for.                                 *)
(***************************************************************************)
EXTENDS AlertEngine, SequenceTheorems, TLAPS

Readings == [temp : Temps \cup {NoReading.temp}, at : -1 .. MaxNow]
Alerts == [unit : Units, kind : Kinds, open : BOOLEAN, notified : BOOLEAN, mails : Nat]
Budgets == [errors : Nat, crashes : Nat, losses : 0 .. MaxLockLosses]

\* Whoever is past a statement has what it returned.
Has(where, x, n) ==
    /\ where \in {"resolve", "create", "recipients", "send", "mark"} => x.unit \in Units
    /\ where = "create" => HasProblem(x)
    /\ where \in {"recipients", "send", "mark"} => x.alert \in 1 .. n

Types ==
    /\ TypeOK
    /\ latest \in [Units -> Readings]
    /\ budget \in Budgets
    /\ mails \in [Units -> Nat]
    /\ \A r \in Replicas : Has(pc[r], tick[r], Len(alerts))

\* Who is in a tick holds the lock.
Leads == \A r \in Replicas : pc[r] # "idle" => leader = r

\* A replica at where in a tick with the variables x: the alerts it listed are those
\* open now but for the ones it resolved or failed to; the alert it opened is open.
Listed(where, x) ==
    /\ where \in {"idle", "query", "stamp"} => x.clean = {}
    /\ x.clean \cap x.todo = {}
    /\ where \in {"resolve", "create"} =>
        /\ x.unit \notin x.todo \cup x.clean
        /\ x.open \subseteq OpenAlerts(x.unit)
        /\ \A i \in OpenAlerts(x.unit) \ x.open : ~x.ok /\ alerts[i].kind # Problem(x)
        /\ where = AfterList(x)
    /\ where \in {"recipients", "send", "mark"} =>
        /\ x.unit \notin x.todo
        /\ x.alert \in OpenAlerts(x.unit)
        /\ alerts[x.alert].kind = Problem(x)

\* What tick x saw of u.
Seen(x, u) == ComputeStatus(x.snap[u], x.now)

\* A unit mailed about in this episode is seen by the tick in the trouble it is in,
\* finds its alert listed, and is never about to be mailed about again.
Recalls(where, x, u) ==
    /\ where = "stamp" => ComputeStatus(x.snap[u], now) = Status(u)
    /\ where \notin {"idle", "query", "stamp"} /\ u \in x.todo => Seen(x, u) = Status(u)
    /\ where = "resolve" /\ x.unit = u =>
        /\ Problem(x) = Status(u)
        /\ \E i \in x.open : alerts[i].kind = Status(u)
    /\ where \in {"create", "recipients", "send"} => x.unit # u

Remembers(where, x) == \A u \in Units : mails[u] # 0 => Recalls(where, x, u)

Settled(x) == \A u \in x.clean : OpenKinds(u) = ProblemKinds(Seen(x, u))

Working(where, x) == Listed(where, x) /\ Remembers(where, x) /\ Settled(x)

\* A unit mailed about in this episode still has the alert the mail was for.
Told ==
    \A u \in Units : mails[u] # 0 =>
        mails[u] = 1 /\ \E i \in OpenAlerts(u) : alerts[i].kind = Status(u)

Calm == Leads /\ (\A r \in Replicas : Working(pc[r], tick[r])) /\ Told

-----------------------------------------------------------------------------
(* The variables of a tick and the table of alerts.                        *)

\* The types, variable by variable.
LEMMA Typed ==
  ASSUME Types
  PROVE  /\ now \in Nat /\ now <= MaxNow /\ MaxNow \in Nat
         /\ alerts \in Seq(Alerts) /\ Len(alerts) \in Nat /\ DOMAIN alerts = 1 .. Len(alerts)
         /\ \A i \in DOMAIN alerts :
             /\ alerts[i] \in Alerts /\ alerts[i].unit \in Units /\ alerts[i].kind \in Kinds
             /\ alerts[i].open \in BOOLEAN /\ alerts[i].mails \in Nat
         /\ pc \in [Replicas -> Pcs] /\ tick \in [Replicas -> TickType]
         /\ \A r \in Replicas : pc[r] \in Pcs /\ tick[r] \in TickType
<1>1. now \in Nat /\ now <= MaxNow /\ MaxNow \in Nat
  BY ConstantsOK DEF Types, TypeOK, ConstantsOK
<1>2. alerts \in Seq(Alerts)
  BY DEF Types, TypeOK, Alerts
<1>3. /\ Len(alerts) \in Nat /\ DOMAIN alerts = 1 .. Len(alerts)
      /\ \A i \in DOMAIN alerts : alerts[i] \in Alerts
  BY <1>2, LenProperties, ElementOfSeq
<1>4. \A a \in Alerts : a.unit \in Units /\ a.kind \in Kinds /\ a.open \in BOOLEAN /\ a.mails \in Nat
  BY DEF Alerts
<1>5. pc \in [Replicas -> Pcs] /\ tick \in [Replicas -> TickType]
  BY DEF Types, TypeOK
<1> QED
  BY <1>1, <1>2, <1>3, <1>4, <1>5

\* The fields of a tick's variables.
LEMMA Fields ==
  ASSUME NEW x \in TickType
  PROVE  /\ x.snap \in [Units -> Readings] /\ x.now \in 0 .. MaxNow
         /\ x.todo \subseteq Units /\ x.unit \in Units \cup {"none"}
         /\ x.open \subseteq DOMAIN alerts /\ x.alert \in 0 .. Len(alerts)
         /\ x.ok \in BOOLEAN /\ x.clean \subseteq Units
  BY DEF TickType, Readings

\* One alert is updated to a.
Becomes(i, a) ==
    /\ alerts' \in Seq(Alerts) /\ Len(alerts') = Len(alerts) /\ DOMAIN alerts' = DOMAIN alerts
    /\ \A j \in DOMAIN alerts : alerts'[j] = IF j = i THEN a ELSE alerts[j]

\* An update of one alert keeps the table well typed.
LEMMA AlertUpdated ==
  ASSUME alerts \in Seq(Alerts), NEW i \in DOMAIN alerts, NEW a \in Alerts,
         alerts' = [alerts EXCEPT ![i] = a]
  PROVE  Becomes(i, a)
  BY ExceptSeq, LenProperties DEF Becomes

\* The table after an insert.
Inserted(a) ==
    /\ alerts' \in Seq(Alerts) /\ Len(alerts') = Len(alerts) + 1
    /\ DOMAIN alerts' = DOMAIN alerts \cup {Len(alerts) + 1}
    /\ Len(alerts) + 1 \notin DOMAIN alerts
    /\ \A j \in DOMAIN alerts : alerts'[j] = alerts[j]
    /\ alerts'[Len(alerts) + 1] = a

\* An alert added at the end keeps the table well typed.
LEMMA AlertInserted ==
  ASSUME alerts \in Seq(Alerts), NEW a \in Alerts, alerts' = Append(alerts, a)
  PROVE  Inserted(a)
<1>1. /\ alerts' \in Seq(Alerts) /\ Len(alerts') = Len(alerts) + 1
      /\ \A j \in 1 .. Len(alerts) : alerts'[j] = alerts[j]
      /\ alerts'[Len(alerts) + 1] = a
  BY AppendProperties
<1>2. DOMAIN alerts = 1 .. Len(alerts) /\ DOMAIN alerts' = 1 .. Len(alerts') /\ Len(alerts) \in Nat
  BY <1>1, LenProperties
<1> QED
  BY <1>1, <1>2 DEF Inserted

\* The table only grows.
Grows ==
    /\ alerts' \in Seq(Alerts) /\ Len(alerts) <= Len(alerts')
    /\ DOMAIN alerts \subseteq DOMAIN alerts'

\* A tick's variables stay well typed when the table grows.
LEMMA TicksStay ==
  ASSUME Types, Grows
  PROVE  TickType \subseteq TickType'
<1>1. Len(alerts) \in Nat /\ Len(alerts') \in Nat /\ Len(alerts) <= Len(alerts')
  BY Typed, LenProperties DEF Grows
<1>2. 0 .. Len(alerts) \subseteq 0 .. Len(alerts') /\ SUBSET DOMAIN alerts \subseteq SUBSET DOMAIN alerts'
  BY <1>1 DEF Grows
<1> QED
  BY <1>2 DEF TickType

\* Replica r, and no other, goes on at where with its variables as x.
Goes(r, where, x) ==
    /\ pc' = [pc EXCEPT ![r] = where]
    /\ tick' = [tick EXCEPT ![r] = x]

\* A step of one replica keeps the types if what it goes on with is well typed.
LEMMA GoesTyped ==
  ASSUME Types, Grows, NEW r \in Replicas, NEW where \in Pcs, NEW x \in TickType',
         Goes(r, where, x), Has(where, x, Len(alerts')),
         UNCHANGED world, leader' \in Replicas \cup {NoReplica},
         budget' \in Budgets, mails' \in [Units -> Nat]
  PROVE  Types'
<1>1. /\ pc' \in [Replicas -> Pcs] /\ pc'[r] = where
      /\ \A q \in Replicas \ {r} : pc'[q] = pc[q]
  BY DEF Goes, Types, TypeOK
<1>2. /\ tick' \in [Replicas -> TickType'] /\ tick'[r] = x
      /\ \A q \in Replicas \ {r} : tick'[q] = tick[q]
  BY TicksStay DEF Goes, Types, TypeOK
<1>3. Len(alerts) \in Nat /\ Len(alerts') \in Nat /\ Len(alerts) <= Len(alerts')
  BY Typed, LenProperties DEF Grows
<1>4. \A q \in Replicas : Has(pc'[q], tick'[q], Len(alerts'))
  <2>1. ASSUME NEW q \in Replicas, q # r PROVE Has(pc'[q], tick'[q], Len(alerts'))
    <3>1. Has(pc[q], tick[q], Len(alerts)) /\ pc'[q] = pc[q] /\ tick'[q] = tick[q]
      BY <1>1, <1>2, <2>1 DEF Types
    <3>2. 1 .. Len(alerts) \subseteq 1 .. Len(alerts')
      BY <1>3
    <3> QED
      BY <3>1, <3>2 DEF Has
  <2> QED
    BY <1>1, <1>2, <2>1
<1>5. leader' \in Replicas \cup {NoReplica} /\ pc' \in [Replicas -> Pcs] /\ alerts' \in Seq(Alerts)
  BY <1>1 DEF Grows
<1>6. \A q \in Replicas : pc'[q] \in {"send", "mark"} => tick'[q].alert # 0
  BY <1>3, <1>4 DEF Has
<1>7. /\ now' = now /\ readings' = readings /\ latest' = latest
  BY DEF world
<1>8. TypeOK'
  BY <1>2, <1>5, <1>6, <1>7 DEF Types, TypeOK, Alerts
<1> QED
  BY <1>4, <1>7, <1>8 DEF Types

\* x and y agree on everything reconcile does not touch.
SameTick(x, y) == y \in TickType /\ y.snap = x.snap /\ y.now = x.now

\* The variables when reconcile begins with u.
Begun(x, u) == [x EXCEPT !.todo = @ \ {u}, !.unit = u, !.ok = TRUE, !.open = OpenAlerts(u)]

\* The fields of those variables.
LEMMA BegunFields ==
  ASSUME NEW x \in TickType, NEW u \in Units, NEW y, y = Begun(x, u)
  PROVE  /\ SameTick(x, y) /\ y.todo = x.todo \ {u} /\ y.unit = u /\ y.ok
         /\ y.open = OpenAlerts(u) /\ y.clean = x.clean
  BY DEF Begun, TickType, OpenAlerts, SameTick

\* The variables when reconcile is done with alert i: without or with an error.
Dropped(x, i) == [x EXCEPT !.open = @ \ {i}]
Erred(x, i) == [x EXCEPT !.open = @ \ {i}, !.ok = FALSE]

\* The fields when alert i is dropped.
LEMMA DroppedFields ==
  ASSUME NEW x \in TickType, NEW i, NEW y, y = Dropped(x, i)
  PROVE  /\ SameTick(x, y) /\ y.open = x.open \ {i} /\ y.ok = x.ok
         /\ y.todo = x.todo /\ y.unit = x.unit /\ y.clean = x.clean
  BY DEF TickType, SameTick, Dropped

\* The fields when alert i is dropped with an error.
LEMMA ErredFields ==
  ASSUME NEW x \in TickType, NEW i, NEW y, y = Erred(x, i)
  PROVE  /\ SameTick(x, y) /\ y.open = x.open \ {i} /\ ~y.ok
         /\ y.todo = x.todo /\ y.unit = x.unit /\ y.clean = x.clean
  BY DEF TickType, SameTick, Erred

\* The variables when a unit is reconciled.
LEMMA ReconciledFields ==
  ASSUME NEW x \in TickType, x.unit \in Units, NEW y, y = Reconciled(x)
  PROVE  /\ SameTick(x, y) /\ y.open = x.open /\ y.ok = x.ok
         /\ y.todo = x.todo /\ y.unit = x.unit
         /\ y.clean = IF x.ok THEN x.clean \cup {x.unit} ELSE x.clean
<1>1. CASE x.ok
  BY <1>1 DEF TickType, SameTick, Reconciled
<1>2. CASE ~x.ok
  BY <1>2 DEF TickType, SameTick, Reconciled
<1> QED
  BY <1>1, <1>2

\* What AfterList tells of the listed alerts.
LEMMA AfterListCases ==
  ASSUME NEW x
  PROVE  /\ AfterList(x) \in {"resolve", "create", "next"}
         /\ AfterList(x) = "create" <=> Stale(x) = {} /\ HasProblem(x) /\ ~HasCurrent(x)
         /\ AfterList(x) = "next" <=> Stale(x) = {} /\ (~HasProblem(x) \/ HasCurrent(x))
<1> HIDE DEF Stale, HasProblem, HasCurrent
<1> QED
  BY DEF AfterList

\* A reading that arrived has been measured by now.
LEMMA LatestAt ==
  ASSUME Types, NEW u \in Units
  PROVE  latest[u].at \in Int /\ -1 <= latest[u].at /\ latest[u].at <= now
<1>1. latest[u] = NoReading \/ latest[u] \in [temp : Temps, at : 0 .. now]
  BY DEF Types, TypeOK
<1>2. now \in Nat
  BY Typed
<1> QED
  BY <1>1, <1>2 DEF NoReading

\* Time passes, or a reading arrives.
LEMMA WorldTyped ==
  ASSUME Types, NEW now1 \in now .. MaxNow, now' = now1, readings' \in 0 .. MaxReadings,
         latest' \in [Units -> Readings],
         \A u \in Units : latest'[u] = latest[u] \/ latest'[u] \in [temp : Temps, at : 0 .. now],
         NewEpisodes, UNCHANGED <<alerts, leader, pc, tick, budget>>
  PROVE  Types'
<1>1. now' \in 0 .. MaxNow /\ 0 .. now \subseteq 0 .. now'
  BY Typed
<1>2. \A u \in Units : latest'[u] = NoReading \/ latest'[u] \in [temp : Temps, at : 0 .. now']
  BY <1>1 DEF Types, TypeOK
<1>3. mails' \in [Units -> Nat]
  BY DEF NewEpisodes, Types
<1>4. TickType' = TickType
  BY DEF TickType
<1>5. TypeOK'
  BY <1>1, <1>2, <1>4 DEF Types, TypeOK
<1> QED
  BY <1>3, <1>5 DEF Types, Has

\* The initial states are well typed.
LEMMA TypesInit == Init => Types
<1> SUFFICES ASSUME Init PROVE Types
  OBVIOUS
<1>1. NoReading \in Readings
  BY ConstantsOK DEF ConstantsOK, NoReading, Readings
<1>2. alerts = <<>> /\ DOMAIN alerts = {} /\ Len(alerts) = 0
  BY DEF Init
<1>3. NoTick \in TickType
  BY <1>1, <1>2, ConstantsOK DEF NoTick, TickType, Readings, ConstantsOK
<1>4. pc \in [Replicas -> Pcs] /\ tick \in [Replicas -> TickType]
  BY <1>3 DEF Init, Pcs
<1>5. /\ budget \in Budgets /\ mails \in [Units -> Nat] /\ latest \in [Units -> Readings]
  BY <1>1, ConstantsOK DEF Init, Budgets, ConstantsOK
<1>6. \A r \in Replicas : Has(pc[r], tick[r], Len(alerts))
  BY DEF Init, Has
<1>7. TypeOK
  BY <1>2, <1>4, ConstantsOK DEF Init, TypeOK, ConstantsOK
<1> QED
  BY <1>5, <1>6, <1>7 DEF Types

\* reconcile goes on with the variables x, its unit done if nothing is left to do.
Gone(x) == IF AfterList(x) = "next" THEN Reconciled(x) ELSE x
GoesOn(r, x) == Goes(r, AfterList(x), Gone(x))

\* The variables it goes on with.
LEMMA WentOn ==
  ASSUME NEW x \in TickType, x.unit \in Units, NEW y, y = Gone(x)
  PROVE  /\ SameTick(x, y) /\ y.open = x.open /\ y.ok = x.ok
         /\ y.todo = x.todo /\ y.unit = x.unit
         /\ y.clean = IF AfterList(x) = "next" /\ x.ok THEN x.clean \cup {x.unit} ELSE x.clean
         /\ AfterList(x) \in Pcs /\ \A n : Has(AfterList(x), y, n)
<1>1. AfterList(x) \in {"resolve", "create", "next"} /\ (AfterList(x) = "create" => HasProblem(x))
  BY AfterListCases
<1>2. CASE AfterList(x) = "next"
  BY <1>2, ReconciledFields DEF Has, Pcs, Gone
<1>3. CASE AfterList(x) # "next"
  BY <1>1, <1>3 DEF Has, Pcs, SameTick, Gone
<1> QED
  BY <1>2, <1>3

\* Types are kept by the steps that do not touch the table of alerts.
LEMMA TypesQuiet ==
  ASSUME Types, NEW r \in Replicas, alerts' = alerts,
         TryLock(r) \/ EvaluateUnits(r) \/ Stamp(r) \/ Recipients(r) \/ Unlock(r)
            \/ EvaluateUnitsFails(r) \/ ListOpenFails(r) \/ GiveUp(r) \/ RecipientsFail(r)
            \/ Crash(r) \/ LoseLock(r)
  PROVE  Types'
<1> DEFINE x == tick[r]
<1>0. /\ x \in TickType /\ pc[r] \in Pcs /\ TickType' = TickType
      /\ Has(pc[r], x, Len(alerts)) /\ Len(alerts') = Len(alerts)
      /\ leader \in Replicas \cup {NoReplica} /\ budget \in Budgets /\ mails \in [Units -> Nat]
      /\ now \in 0 .. MaxNow
  BY Typed DEF Types, TypeOK, TickType
<1>1. Grows
  BY Typed DEF Grows
<1>2. /\ NoReading \in Readings /\ NoTick \in TickType /\ NoReplica \in Replicas \cup {NoReplica}
  <2>1. NoReading \in Readings
    BY ConstantsOK DEF ConstantsOK, NoReading, Readings
  <2>2. 0 \in 0 .. Len(alerts)
    BY Typed
  <2> QED
    BY <2>1, <2>2, ConstantsOK DEF NoTick, TickType, Readings, ConstantsOK
<1>3. \A k \in {"errors", "crashes", "losses"} :
        budget[k] > 0 => [budget EXCEPT ![k] = @ - 1] \in Budgets
  <2>1. MaxLockLosses \in Nat
    BY ConstantsOK DEF ConstantsOK
  <2>2. budget.errors > 0 => [budget EXCEPT !.errors = @ - 1] \in Budgets
    BY <1>0 DEF Budgets
  <2>3. budget.crashes > 0 => [budget EXCEPT !.crashes = @ - 1] \in Budgets
    BY <1>0 DEF Budgets
  <2>4. budget.losses > 0 => [budget EXCEPT !.losses = @ - 1] \in Budgets
    BY <1>0, <2>1 DEF Budgets
  <2> QED
    BY <2>2, <2>3, <2>4
<1>4. tick = [tick EXCEPT ![r] = x] /\ pc = [pc EXCEPT ![r] = pc[r]]
  BY Typed
<1>5. SUFFICES \E where \in Pcs, y \in TickType :
                  /\ Goes(r, where, y) /\ Has(where, y, Len(alerts))
                  /\ UNCHANGED world /\ leader' \in Replicas \cup {NoReplica}
                  /\ budget' \in Budgets /\ mails' \in [Units -> Nat]
  BY <1>0, <1>1, GoesTyped
<1>6. CASE TryLock(r)
  <2>1. Goes(r, "query", x)
    BY <1>4, <1>6 DEF TryLock, Goes
  <2> QED
    BY <1>0, <1>6, <2>1 DEF TryLock, Has, Pcs
<1>7. CASE EvaluateUnits(r)
  <2> DEFINE y == [x EXCEPT !.snap = latest]
  <2>1. y \in TickType
    BY <1>0 DEF TickType, Types, Readings
  <2>2. Goes(r, "stamp", y)
    BY <1>0, <1>7 DEF EvaluateUnits, Goes
  <2> QED
    BY <1>0, <1>7, <2>1, <2>2 DEF EvaluateUnits, Has, Pcs
<1>8. CASE Stamp(r)
  <2> DEFINE y == [x EXCEPT !.now = now, !.todo = Units]
  <2>1. y \in TickType
    BY <1>0 DEF TickType
  <2>2. Goes(r, "next", y)
    BY <1>0, <1>8, Typed DEF Stamp, Goes
  <2> QED
    BY <1>0, <1>8, <2>1, <2>2 DEF Stamp, Has, Pcs
<1>9. CASE Recipients(r)
  <2>1. Goes(r, IF HasAdmins THEN "send" ELSE "mark", x)
    BY <1>4, <1>9 DEF Recipients, Goes
  <2> QED
    BY <1>0, <1>9, <2>1 DEF Recipients, Has, Pcs
<1>10. CASE Unlock(r) \/ Crash(r)
  <2>1. Goes(r, "idle", NoTick)
    BY <1>10 DEF Unlock, Crash, Goes
  <2> QED
    BY <1>0, <1>2, <1>3, <1>10, <2>1 DEF Unlock, Crash, FreeLock, Has, Pcs
<1>11. CASE EvaluateUnitsFails(r)
  <2>1. Goes(r, "idle", x)
    BY <1>4, <1>11 DEF EvaluateUnitsFails, Goes
  <2> QED
    BY <1>0, <1>2, <1>3, <1>11, <2>1 DEF EvaluateUnitsFails, SpendError, FreeLock, Has, Pcs
<1>12. CASE ListOpenFails(r)
  <2>1. PICK u \in x.todo : tick' = [tick EXCEPT ![r].todo = @ \ {u}, ![r].unit = u]
    BY <1>12 DEF ListOpenFails
  <2> DEFINE y == [x EXCEPT !.todo = @ \ {u}, !.unit = u]
  <2>2. y \in TickType
    BY <1>0 DEF TickType
  <2>3. Goes(r, "next", y)
    BY <1>4, <1>12, <2>1, Typed DEF ListOpenFails, Goes
  <2> QED
    BY <1>0, <1>3, <1>12, <2>2, <2>3 DEF ListOpenFails, SpendError, Has, Pcs
<1>13. CASE GiveUp(r)
  <2>1. Goes(r, "next", x)
    BY <1>4, <1>13 DEF GiveUp, Goes
  <2> QED
    BY <1>0, <1>3, <1>13, <2>1 DEF GiveUp, SpendError, Has, Pcs
<1>14. CASE RecipientsFail(r)
  <2>1. Goes(r, "mark", x)
    BY <1>4, <1>14 DEF RecipientsFail, Goes
  <2> QED
    BY <1>0, <1>3, <1>14, <2>1 DEF RecipientsFail, SpendError, Has, Pcs
<1>15. CASE LoseLock(r)
  <2>1. Goes(r, pc[r], x)
    BY <1>4, <1>15 DEF LoseLock, Goes
  <2> QED
    BY <1>0, <1>3, <1>15, <2>1 DEF LoseLock
<1> QED
  BY <1>6, <1>7, <1>8, <1>9, <1>10, <1>11, <1>12, <1>13, <1>14, <1>15

\* What listing, resolving and failing to resolve do.
LEMMA ListOpenDoes ==
  ASSUME Types, NEW r \in Replicas, ListOpen(r)
  PROVE  \E u \in tick[r].todo : \E x \in TickType :
            x = Begun(tick[r], u) /\ u \in Units /\ GoesOn(r, x) /\ alerts' = alerts
<1>1. PICK u \in tick[r].todo : GoesOn(r, Begun(tick[r], u))
  BY DEF ListOpen, GoesOn, Goes, Begun, Gone
<1>2. tick[r] \in TickType /\ u \in Units
  BY Typed, Fields
<1>3. Begun(tick[r], u) \in TickType
  BY <1>2, BegunFields DEF SameTick
<1> QED
  BY <1>1, <1>2, <1>3 DEF ListOpen

\* What resolving an alert does to the table and to the tick.
LEMMA ResolveDoes ==
  ASSUME Types, NEW r \in Replicas, Resolve(r)
  PROVE  \E i \in Stale(tick[r]) : \E x \in TickType, a \in Alerts :
            /\ x = Dropped(tick[r], i) /\ GoesOn(r, x)
            /\ i \in DOMAIN alerts /\ Becomes(i, a)
            /\ a.unit = alerts[i].unit /\ a.kind = alerts[i].kind /\ ~a.open
<1>1. PICK i \in Stale(tick[r]) :
        /\ GoesOn(r, Dropped(tick[r], i))
        /\ alerts' = [alerts EXCEPT ![i].open = FALSE]
  BY DEF Resolve, GoesOn, Goes, Dropped, Gone
<1>2. tick[r] \in TickType /\ i \in DOMAIN alerts
  BY Typed, Fields DEF Stale
<1>3. Dropped(tick[r], i) \in TickType
  BY <1>2, DroppedFields DEF SameTick
<1> DEFINE a == [alerts[i] EXCEPT !.open = FALSE]
<1>4. a \in Alerts /\ a.unit = alerts[i].unit /\ a.kind = alerts[i].kind /\ ~a.open
  BY <1>2, Typed DEF Alerts
<1>5. alerts' = [alerts EXCEPT ![i] = a]
  BY <1>1
<1> HIDE DEF a
<1>6. Becomes(i, a)
  BY <1>2, <1>4, <1>5, Typed, AlertUpdated
<1> QED
  BY <1>1, <1>2, <1>3, <1>4, <1>6

\* What a failed resolve does to the tick; the table stays.
LEMMA ResolveFailsDoes ==
  ASSUME Types, NEW r \in Replicas, ResolveFails(r)
  PROVE  \E i \in Stale(tick[r]) : \E x \in TickType :
            /\ x = Erred(tick[r], i) /\ GoesOn(r, x)
            /\ i \in DOMAIN alerts /\ alerts' = alerts
<1>1. PICK i \in Stale(tick[r]) :
        Goes(r, AfterList(Erred(tick[r], i)), Erred(tick[r], i))
  BY DEF ResolveFails, Goes, Erred
<1> DEFINE x == Erred(tick[r], i)
<1>2. tick[r] \in TickType /\ i \in DOMAIN alerts
  BY Typed, Fields DEF Stale
<1>3. x \in TickType /\ ~x.ok
  BY <1>2, ErredFields DEF SameTick
<1>4. Goes(r, AfterList(x), x)
  BY <1>1
<1> HIDE DEF x
<1>5. GoesOn(r, x)
  BY <1>3, <1>4 DEF GoesOn, Gone, Reconciled
<1> QED
  BY <1>2, <1>3, <1>5 DEF ResolveFails, x

\* An alert is mailed about.
LEMMA Mailed ==
  ASSUME NEW b \in Alerts, NEW a, a = [b EXCEPT !.mails = @ + 1]
  PROVE  a \in Alerts /\ a.unit = b.unit /\ a.kind = b.kind /\ a.open = b.open
  BY DEF Alerts

\* What creating an alert, mailing about one and marking it notified do.
LEMMA CreateDoes ==
  ASSUME Types, NEW r \in Replicas, Create(r), IndexAllows(tick[r].unit, Problem(tick[r]))
  PROVE  \E a \in Alerts, y \in TickType' :
            /\ Inserted(a) /\ a.unit = tick[r].unit /\ a.kind = Problem(tick[r]) /\ a.open
            /\ Goes(r, "recipients", y) /\ y.snap = tick[r].snap /\ y.now = tick[r].now
            /\ y.unit = tick[r].unit /\ y.todo = tick[r].todo /\ y.alert = Len(alerts) + 1
            /\ y.clean = IF tick[r].ok THEN tick[r].clean \cup {tick[r].unit} ELSE tick[r].clean
<1> DEFINE x == tick[r]
           a == [unit |-> x.unit, kind |-> Problem(x), open |-> TRUE,
                 notified |-> FALSE, mails |-> 0]
           z == Reconciled(x)
           y == [z EXCEPT !.alert = Len(alerts) + 1]
<1>1. x \in TickType /\ x.unit \in Units /\ Problem(x) \in Kinds
  BY Typed DEF Types, Has, Create, HasProblem
<1>2. a \in Alerts /\ a.unit = x.unit /\ a.kind = Problem(x) /\ a.open
  BY <1>1 DEF Alerts
<1>3. alerts' = Append(alerts, a) /\ Goes(r, "recipients", y)
  BY DEF Create, Goes
<1> HIDE DEF a
<1>4. Inserted(a)
  BY <1>2, <1>3, Typed, AlertInserted
<1>5. /\ z \in TickType /\ z.snap = x.snap /\ z.now = x.now /\ z.unit = x.unit /\ z.todo = x.todo
      /\ z.clean = IF x.ok THEN x.clean \cup {x.unit} ELSE x.clean
  BY <1>1, ReconciledFields DEF SameTick
<1>6. z \in TickType' /\ Len(alerts) + 1 \in 0 .. Len(alerts')
  <2>1. Grows /\ Len(alerts') = Len(alerts) + 1 /\ Len(alerts) \in Nat
    BY <1>4, Typed DEF Grows, Inserted
  <2> QED
    BY <1>5, <2>1, TicksStay
<1> HIDE DEF z
<1>7. /\ y \in TickType' /\ y.snap = z.snap /\ y.now = z.now /\ y.unit = z.unit
      /\ y.todo = z.todo /\ y.clean = z.clean /\ y.alert = Len(alerts) + 1
  BY <1>6 DEF TickType
<1> QED
  BY <1>2, <1>3, <1>4, <1>5, <1>7

\* What a mail does to the history of mails and to the tick.
LEMMA SendDoes ==
  ASSUME Types, NEW r \in Replicas, Send(r)
  PROVE  /\ tick[r].alert \in DOMAIN alerts /\ Goes(r, "mark", tick[r])
         /\ \E a \in Alerts :
             /\ Becomes(tick[r].alert, a) /\ a.unit = alerts[tick[r].alert].unit
             /\ a.kind = alerts[tick[r].alert].kind /\ a.open = alerts[tick[r].alert].open
<1> DEFINE i == tick[r].alert
           a == [alerts[i] EXCEPT !.mails = @ + 1]
<1>1. i \in DOMAIN alerts
  BY Typed DEF Types, Has, Send
<1>2. a \in Alerts /\ a.unit = alerts[i].unit /\ a.kind = alerts[i].kind /\ a.open = alerts[i].open
  BY <1>1, Typed, Mailed
<1>3. alerts' = [alerts EXCEPT ![i] = a]
  BY DEF Send
<1> HIDE DEF a
<1>4. Becomes(i, a)
  BY <1>1, <1>2, <1>3, Typed, AlertUpdated
<1>5. Goes(r, "mark", tick[r])
  BY Typed DEF Send, Goes
<1> QED
  BY <1>1, <1>2, <1>4, <1>5

\* What marking an alert notified does to the table and to the tick.
LEMMA MarkDoes ==
  ASSUME Types, NEW r \in Replicas, Mark(r)
  PROVE  /\ tick[r].alert \in DOMAIN alerts /\ Goes(r, "next", tick[r])
         /\ \E a \in Alerts :
             /\ Becomes(tick[r].alert, a) /\ a.unit = alerts[tick[r].alert].unit
             /\ a.kind = alerts[tick[r].alert].kind /\ a.open = alerts[tick[r].alert].open
<1> DEFINE i == tick[r].alert
           a == [alerts[i] EXCEPT !.notified = TRUE]
<1>1. i \in DOMAIN alerts
  BY Typed DEF Types, Has, Mark
<1>2. a \in Alerts /\ a.unit = alerts[i].unit /\ a.kind = alerts[i].kind /\ a.open = alerts[i].open
  BY <1>1, Typed DEF Alerts
<1>3. alerts' = [alerts EXCEPT ![i] = a]
  BY DEF Mark
<1> HIDE DEF a
<1>4. Becomes(i, a)
  BY <1>1, <1>2, <1>3, Typed, AlertUpdated
<1>5. Goes(r, "next", tick[r])
  BY Typed DEF Mark, Goes
<1> QED
  BY <1>1, <1>2, <1>4, <1>5

\* A step keeps the types.
LEMMA TypesNext == Types /\ [Next]_vars => Types'
<1> SUFFICES ASSUME Types, [Next]_vars PROVE Types'
  OBVIOUS
<1>1. CASE Advance
  <2>1. now \in Nat /\ now + 1 \in now .. MaxNow
    BY <1>1, Typed DEF Advance
  <2> QED
    BY <1>1, <2>1, WorldTyped DEF Advance, Types, TypeOK
<1>2. ASSUME NEW u \in Units, Arrive(u) PROVE Types'
  <2>1. PICK t \in Temps, at \in 0 .. now : latest' = [latest EXCEPT ![u] = [temp |-> t, at |-> at]]
    BY <1>2 DEF Arrive
  <2>2. /\ [temp |-> t, at |-> at] \in [temp : Temps, at : 0 .. now]
        /\ [temp |-> t, at |-> at] \in Readings
    BY Typed DEF Readings
  <2>3. /\ latest' \in [Units -> Readings]
        /\ \A v \in Units : latest'[v] = latest[v] \/ latest'[v] \in [temp : Temps, at : 0 .. now]
    BY <2>1, <2>2 DEF Types
  <2>4. readings' \in 0 .. MaxReadings /\ now' = now /\ now \in now .. MaxNow
    BY <1>2, Typed, ConstantsOK DEF Arrive, Types, TypeOK, ConstantsOK
  <2> QED
    BY <1>2, <2>3, <2>4, WorldTyped DEF Arrive
<1>3. ASSUME NEW r \in Replicas, TryLock(r) \/ Work(r) \/ Failure(r) PROVE Types'
  <2>1. CASE TryLock(r) \/ EvaluateUnits(r) \/ Stamp(r) \/ Recipients(r) \/ Unlock(r)
            \/ EvaluateUnitsFails(r) \/ ListOpenFails(r) \/ GiveUp(r) \/ RecipientsFail(r)
            \/ Crash(r) \/ LoseLock(r)
    <3>1. alerts' = alerts
      BY <2>1 DEF TryLock, EvaluateUnits, Stamp, Recipients, Unlock, EvaluateUnitsFails,
                  ListOpenFails, GiveUp, RecipientsFail, Crash, LoseLock
    <3> QED
      BY <2>1, <3>1, TypesQuiet
  <2>2. /\ tick[r] \in TickType /\ leader \in Replicas \cup {NoReplica}
        /\ budget \in Budgets /\ mails \in [Units -> Nat]
        /\ Has(pc[r], tick[r], Len(alerts))
    BY Typed DEF Types, TypeOK
  <2>3. ASSUME NEW x \in TickType, x.unit \in Units, GoesOn(r, x), Grows,
               UNCHANGED <<world, leader, mails>>, budget' \in Budgets
        PROVE  Types'
    <3> DEFINE y == Gone(x)
    <3>1. y \in TickType' /\ AfterList(x) \in Pcs /\ Has(AfterList(x), y, Len(alerts'))
      BY <2>3, WentOn, TicksStay DEF SameTick
    <3>2. Goes(r, AfterList(x), y)
      BY <2>3 DEF GoesOn
    <3> HIDE DEF y
    <3> QED
      BY <2>2, <2>3, <3>1, <3>2, GoesTyped
  <2>4. CASE ListOpen(r)
    <3>1. PICK u \in tick[r].todo, x \in TickType :
              x = Begun(tick[r], u) /\ u \in Units /\ GoesOn(r, x) /\ alerts' = alerts
      BY <2>4, ListOpenDoes
    <3>2. x.unit \in Units /\ Grows
      BY <2>2, <3>1, BegunFields, Typed DEF Grows
    <3> QED
      BY <2>2, <2>3, <2>4, <3>1, <3>2 DEF ListOpen
  <2>5. CASE Resolve(r)
    <3>1. PICK i \in Stale(tick[r]), x \in TickType, a \in Alerts :
            /\ x = Dropped(tick[r], i) /\ GoesOn(r, x)
            /\ i \in DOMAIN alerts /\ Becomes(i, a)
      BY <2>5, ResolveDoes
    <3>2. x.unit = tick[r].unit /\ tick[r].unit \in Units /\ Grows
      BY <2>2, <2>5, <3>1, DroppedFields, Typed DEF Grows, Becomes, Has, Resolve
    <3> QED
      BY <2>2, <2>3, <2>5, <3>1, <3>2 DEF Resolve
  <2>6. CASE ResolveFails(r)
    <3>1. PICK i \in Stale(tick[r]), x \in TickType :
            /\ x = Erred(tick[r], i) /\ GoesOn(r, x)
            /\ alerts' = alerts
      BY <2>6, ResolveFailsDoes
    <3>2. x.unit = tick[r].unit
      BY <2>2, <3>1, ErredFields
    <3>3. tick[r].unit \in Units /\ Grows
      BY <2>2, <2>6, <3>1, Typed DEF Grows, Has, ResolveFails
    <3>4. budget' \in Budgets
      BY <2>2, <2>6 DEF ResolveFails, SpendError, Budgets
    <3> QED
      BY <2>2, <2>3, <2>6, <3>1, <3>2, <3>3, <3>4 DEF ResolveFails
  <2>7. CASE Create(r) /\ IndexAllows(tick[r].unit, Problem(tick[r]))
    <3>1. PICK a \in Alerts, y \in TickType' :
            /\ Inserted(a) /\ Goes(r, "recipients", y)
            /\ y.unit = tick[r].unit /\ y.alert = Len(alerts) + 1
      BY <2>7, CreateDoes
    <3>2. Grows /\ Len(alerts') = Len(alerts) + 1 /\ Len(alerts) \in Nat
      BY <3>1, Typed DEF Grows, Inserted
    <3>3. Has("recipients", y, Len(alerts'))
      BY <2>2, <2>7, <3>1, <3>2 DEF Has, Create
    <3>4. UNCHANGED <<world, leader, budget, mails>> /\ "recipients" \in Pcs
      BY <2>7 DEF Create, Pcs
    <3> QED
      BY <2>2, <3>1, <3>2, <3>3, <3>4, GoesTyped
  <2>8. CASE Create(r) /\ ~IndexAllows(tick[r].unit, Problem(tick[r]))
    <3>1. Goes(r, "next", tick[r]) /\ UNCHANGED <<world, alerts, leader, budget, mails>>
      BY <2>8, Typed DEF Create, Goes
    <3>2. Grows /\ tick[r] \in TickType' /\ Has("next", tick[r], Len(alerts')) /\ "next" \in Pcs
      BY <2>2, <3>1, Typed, TicksStay DEF Grows, Has, Pcs
    <3> QED
      BY <2>2, <3>1, <3>2, GoesTyped
  <2>9. CASE Send(r) \/ Mark(r)
    <3> DEFINE where == IF pc[r] = "send" THEN "mark" ELSE "next"
    <3>1. /\ tick[r].alert \in DOMAIN alerts /\ Goes(r, where, tick[r])
          /\ \E a \in Alerts : Becomes(tick[r].alert, a)
      BY <2>9, SendDoes, MarkDoes DEF Send, Mark
    <3>2. /\ Grows /\ Len(alerts') = Len(alerts) /\ pc[r] \in {"send", "mark"}
          /\ UNCHANGED <<world, leader, budget>> /\ where \in Pcs
      BY <2>9, <3>1, Typed DEF Becomes, Grows, Send, Mark, Pcs
    <3>3. tick[r] \in TickType' /\ Has(where, tick[r], Len(alerts'))
      BY <2>2, <3>2, TicksStay DEF Has
    <3>4. mails' \in [Units -> Nat]
      BY <2>2, <2>9 DEF Send, Mark
    <3> QED
      BY <2>2, <3>1, <3>2, <3>3, <3>4, GoesTyped
  <2> QED
    BY <1>3, <2>1, <2>4, <2>5, <2>6, <2>7, <2>8, <2>9 DEF Work, Failure
<1>4. CASE UNCHANGED vars
  <2>1. TypeOK'
    BY <1>4 DEF vars, world, TypeOK, TickType, Types
  <2> QED
    BY <1>4, <2>1 DEF vars, world, Types
<1> QED
  BY <1>1, <1>2, <1>3, <1>4 DEF Next

\* The types hold in every state.
LEMMA TypesAlways == Spec => []Types
  BY TypesInit, TypesNext, PTL DEF Spec

\* Every replica that is past a statement has what the statement returned, whatever
\* failed, crashed or lost its lock before.
THEOREM EngineTypeCorrect == Spec => []TypeOK
<1>1. Types => TypeOK
  BY DEF Types
<1> QED
  BY <1>1, TypesAlways, PTL

-----------------------------------------------------------------------------
(* The lock.                                                               *)

\* A problem stays one while time passes and no reading arrives.
LEMMA ProblemLasts ==
  ASSUME NEW reading \in Readings, NEW s \in Int, NEW t \in Int, s <= t,
         ComputeStatus(reading, s) \in Kinds
  PROVE  ComputeStatus(reading, t) = ComputeStatus(reading, s)
<1>1. /\ reading.at \in Int /\ LogInterval \in Int
      /\ MinTemp \in Int /\ MaxTemp \in Int /\ Temps \subseteq Int
  BY ConstantsOK DEF ConstantsOK, Readings
<1>2. CASE reading = NoReading
  BY <1>2 DEF ComputeStatus, Kinds
<1>3. CASE reading # NoReading /\ (reading.temp < MinTemp \/ reading.temp > MaxTemp)
  BY <1>3 DEF ComputeStatus
<1>4. CASE reading # NoReading /\ ~(reading.temp < MinTemp \/ reading.temp > MaxTemp)
  <2>1. reading.temp \in Int /\ MinTemp \in Int /\ MaxTemp \in Int
    <3>1. reading.temp \in Temps \cup {NoReading.temp} /\ NoReading.temp = MinTemp - 1
      BY DEF Readings, NoReading
    <3>2. \A n \in Temps : n \in Int
      BY <1>1
    <3>3. MinTemp \in Int /\ MaxTemp \in Int /\ MinTemp - 1 \in Int
      BY <1>1
    <3> QED
      BY <3>1, <3>2, <3>3
  <2>2. reading.temp \in MinTemp .. MaxTemp
    BY <1>4, <2>1
  <2>3. \A n \in Int : ComputeStatus(reading, n) =
            IF n - reading.at > LogInterval THEN "overdue" ELSE "ok"
    BY <1>4, <2>2 DEF ComputeStatus
  <2> QED
    BY <1>1, <2>3 DEF Kinds
<1> QED
  BY <1>2, <1>3, <1>4

\* When nothing is left to do, the listed alerts are the one the problem calls for.
LEMMA ListSettled ==
  ASSUME NEW x, AfterList(x) = "next"
  PROVE  {alerts[i].kind : i \in x.open} = ProblemKinds(Problem(x))
<1>1. Stale(x) = {} /\ (~HasProblem(x) \/ HasCurrent(x))
  BY AfterListCases
<1>2. \A i \in x.open : HasProblem(x) /\ alerts[i].kind = Problem(x)
  BY <1>1 DEF Stale
<1>3. CASE HasProblem(x)
  BY <1>1, <1>2, <1>3 DEF HasCurrent, HasProblem, ProblemKinds
<1>4. CASE ~HasProblem(x)
  BY <1>2, <1>4 DEF HasProblem, ProblemKinds
<1> QED
  BY <1>3, <1>4

\* While the lock is held, nobody is about to open an alert that is open.
LEMMA NoConflict ==
  ASSUME NEW x, Listed("create", x)
  PROVE  /\ IndexAllows(x.unit, Problem(x)) /\ HasProblem(x)
         /\ x.ok => OpenAlerts(x.unit) = {}
<1>1. AfterList(x) = "create"
  BY DEF Listed
<1>2. Stale(x) = {} /\ HasProblem(x) /\ ~HasCurrent(x)
  BY <1>1, AfterListCases
<1>3. x.open = {}
  BY <1>2 DEF Stale, HasCurrent
<1> QED
  BY <1>2, <1>3 DEF Listed, IndexAllows

\* While one replica is in a tick, the others are not.
LEMMA Alone ==
  ASSUME Types, Calm, NEW r \in Replicas, leader = r \/ leader = NoReplica \/ pc[r] # "idle"
  PROVE  \A q \in Replicas \ {r} : pc[q] = "idle" /\ tick[q].clean = {}
<1>1. \A q \in Replicas \ {r} : leader # q
  BY ConstantsOK DEF Calm, Leads, ConstantsOK
<1> QED
  BY <1>1 DEF Calm, Leads, Working, Listed

\* A step of one replica need answer only for that replica.
LEMMA CalmGoes ==
  ASSUME Types, Calm, NEW r \in Replicas, leader = NoReplica \/ pc[r] # "idle",
         NEW where, NEW x, Goes(r, where, x), where = "idle" \/ leader' = r,
         Working(where, x)', Told'
  PROVE  Calm'
<1>1. \A q \in Replicas \ {r} : pc[q] = "idle" /\ tick[q].clean = {}
  BY Alone
<1>2. /\ pc'[r] = where /\ tick'[r] = x
      /\ \A q \in Replicas \ {r} : pc'[q] = pc[q] /\ tick'[q] = tick[q]
  BY Typed DEF Goes
<1>3. Leads'
  BY <1>1, <1>2 DEF Leads
<1>4. \A q \in Replicas : Working(pc[q], tick[q])'
  <2>1. Working(pc[r], tick[r])'
    BY <1>2 DEF Working, Listed, Remembers, Recalls, Settled
  <2>2. ASSUME NEW q \in Replicas \ {r} PROVE Working(pc[q], tick[q])'
    BY <1>1, <1>2 DEF Working, Listed, Remembers, Recalls, Settled
  <2> QED
    BY <2>1, <2>2
<1> QED
  BY <1>3, <1>4 DEF Calm

\* As above, for a step that changes neither the table nor the history of mails.
LEMMA CalmQuiet ==
  ASSUME Types, Calm, NEW r \in Replicas, leader = NoReplica \/ pc[r] # "idle",
         NEW where, NEW x, Goes(r, where, x), where = "idle" \/ leader' = r,
         Working(where, x), UNCHANGED <<world, alerts, mails>>
  PROVE  Calm'
<1>1. /\ alerts' = alerts /\ mails' = mails /\ now' = now /\ latest' = latest
  BY DEF world
<1>2. \A u \in Units : Status(u)' = Status(u) /\ OpenAlerts(u)' = OpenAlerts(u)
  BY <1>1 DEF Status, OpenAlerts
<1>3. Told'
  BY <1>1, <1>2 DEF Told, Calm
<1>4. Working(where, x)'
  BY <1>1, <1>2 DEF Working, Listed, Remembers, Recalls, Settled, AfterList, Stale, HasCurrent,
                    OpenKinds, OpenAlerts, Status
<1> QED
  BY <1>3, <1>4, CalmGoes

\* Time and readings disturb nobody: a unit whose status they change starts anew.
LEMMA CalmWorld ==
  ASSUME Types, Calm, NewEpisodes, UNCHANGED <<alerts, leader, pc, tick, budget>>,
         now' = now \/ (now' = now + 1 /\ latest' = latest)
  PROVE  Calm'
<1>1. Leads'
  BY DEF Calm, Leads
<1>2. \A u \in Units : mails'[u] # 0 => mails'[u] = mails[u] /\ Status(u)' = Status(u)
  BY DEF NewEpisodes
<1>3. \A u \in Units : OpenAlerts(u)' = OpenAlerts(u) /\ OpenKinds(u)' = OpenKinds(u)
  BY DEF OpenAlerts, OpenKinds
<1>4. \A u \in Units : mails[u] # 0 => Status(u) \in Kinds
  <2>1. ASSUME NEW u \in Units, NEW i \in OpenAlerts(u) PROVE alerts[i].kind \in Kinds
    BY <2>1, Typed DEF OpenAlerts
  <2> QED
    BY <2>1 DEF Calm, Told
<1>5. Told'
  BY <1>2, <1>3 DEF Calm, Told
<1>6. ASSUME NEW r \in Replicas PROVE Working(pc[r], tick[r])'
  <2>1. Working(pc[r], tick[r]) /\ pc'[r] = pc[r] /\ tick'[r] = tick[r]
    BY DEF Calm
  <2>2. Listed(pc[r], tick[r])'
    BY <2>1 DEF Working, Listed, OpenAlerts, AfterList, Stale, HasCurrent
  <2>3. Settled(tick[r])'
    BY <2>1 DEF Working, Settled, OpenKinds, OpenAlerts
  <2>4. ASSUME NEW u \in Units, mails'[u] # 0 PROVE Recalls(pc[r], tick[r], u)'
    <3>1. /\ Recalls(pc[r], tick[r], u) /\ Status(u)' = Status(u) /\ Status(u) \in Kinds
      BY <1>2, <1>4, <2>1, <2>4 DEF Working, Remembers
    <3>2. tick[r].snap[u] \in Readings
      BY Typed, Fields
    <3>3. pc[r] = "stamp" => ComputeStatus(tick[r].snap[u], now') = Status(u)
      <4>1. CASE now' = now
        BY <3>1, <4>1 DEF Recalls
      <4>2. CASE now' = now + 1
        <5>1. now \in Int /\ now' \in Int /\ now <= now'
          BY <4>2, Typed
        <5> QED
          BY <3>1, <3>2, <5>1, ProblemLasts DEF Recalls
      <4> QED
        BY <4>1, <4>2
    <3> QED
      BY <2>1, <3>1, <3>3 DEF Recalls
  <2> QED
    BY <2>2, <2>3, <2>4 DEF Working, Remembers
<1> QED
  BY <1>1, <1>5, <1>6 DEF Calm

\* Listing: what the tick works on next is as it is.
LEMMA CalmListOpen ==
  ASSUME Types, Calm, NEW r \in Replicas, ListOpen(r)
  PROVE  Calm'
<1>1. PICK u \in tick[r].todo, x \in TickType :
        x = Begun(tick[r], u) /\ u \in Units /\ GoesOn(r, x) /\ alerts' = alerts
  BY ListOpenDoes
<1>2. /\ pc[r] = "next" /\ tick[r] \in TickType /\ Working("next", tick[r]) /\ leader = r
      /\ UNCHANGED <<world, alerts, leader, mails>>
  BY Typed DEF ListOpen, Calm, Leads
<1>3. /\ x.snap = tick[r].snap /\ x.now = tick[r].now /\ x.todo = tick[r].todo \ {u} /\ x.unit = u
      /\ x.ok /\ x.open = OpenAlerts(u) /\ x.clean = tick[r].clean
  BY <1>1, <1>2, BegunFields DEF SameTick
<1> DEFINE where == AfterList(x)
<1>4. PICK y : y = Gone(x)
  OBVIOUS
<1>5. /\ y.snap = x.snap /\ y.now = x.now /\ y.open = x.open /\ y.ok = x.ok
      /\ y.todo = x.todo /\ y.unit = x.unit
      /\ y.clean = IF where = "next" /\ x.ok THEN x.clean \cup {x.unit} ELSE x.clean
  <2>1. x \in TickType /\ x.unit \in Units
    BY <1>1, <1>3
  <2> QED
    BY <1>4, <2>1, WentOn DEF SameTick
<1>6. where \in {"resolve", "create", "next"}
  BY AfterListCases
<1>7. Problem(y) = Problem(x) /\ (where # "next" => y = x)
  BY <1>4, <1>5 DEF Problem, Gone
<1>8. Listed(where, y)
  BY <1>2, <1>3, <1>5, <1>6, <1>7 DEF Working, Listed
<1>9. ASSUME NEW v \in Units, mails[v] # 0 PROVE Recalls(where, y, v)
  <2>1. v \in tick[r].todo => Seen(tick[r], v) = Status(v)
    BY <1>2, <1>9 DEF Working, Remembers, Recalls
  <2>2. v \in y.todo => Seen(y, v) = Status(v)
    BY <1>3, <1>5, <2>1 DEF Seen
  <2>3. v = u => Problem(x) = Status(v) /\ \E i \in x.open : alerts[i].kind = Status(v)
    BY <1>1, <1>3, <1>9, <2>1 DEF Problem, Seen, Calm, Told
  <2>4. v = u => where # "create"
    <3>1. \A i \in OpenAlerts(u) : alerts[i].kind \in Kinds
      BY Typed DEF OpenAlerts
    <3>2. v = u => HasCurrent(x)
      BY <1>3, <2>3, <3>1 DEF HasCurrent, HasProblem
    <3> QED
      BY <3>2, AfterListCases
  <2> QED
    BY <1>3, <1>5, <1>6, <1>7, <2>2, <2>3, <2>4 DEF Recalls
<1>10. ASSUME NEW v \in y.clean PROVE OpenKinds(v) = ProblemKinds(Seen(y, v))
  <2>1. CASE v \in tick[r].clean
    BY <1>2, <1>3, <1>5, <2>1 DEF Working, Settled, Seen
  <2>2. CASE v \notin tick[r].clean
    <3>1. where = "next" /\ v = u
      BY <1>3, <1>5, <1>10, <2>2
    <3>2. {alerts[i].kind : i \in x.open} = ProblemKinds(Problem(x))
      BY <3>1, ListSettled
    <3> QED
      BY <1>3, <1>5, <3>1, <3>2 DEF OpenKinds, Problem, Seen
  <2> QED
    BY <2>1, <2>2
<1>11. Working(where, y)
  BY <1>8, <1>9, <1>10 DEF Working, Remembers, Settled
<1>12. Goes(r, where, y) /\ leader' = r
  BY <1>1, <1>2, <1>4 DEF GoesOn
<1> HIDE DEF where
<1> QED
  BY <1>2, <1>11, <1>12, CalmQuiet

\* x is z but for alert i, which reconcile has done with.
Past(z, x, i) ==
    /\ x.snap = z.snap /\ x.now = z.now /\ x.todo = z.todo /\ x.unit = z.unit
    /\ x.open = z.open \ {i}

\* Alert i is not the one the tick remembers its unit by.
LEMMA StaleForgotten ==
  ASSUME Types, NEW z, z.open \subseteq DOMAIN alerts, NEW i \in Stale(z), Working("resolve", z),
         NEW v \in Units, mails[v] # 0, v = z.unit
  PROVE  /\ Problem(z) = Status(v) /\ alerts[i].kind # Status(v)
         /\ \E j \in z.open \ {i} : alerts[j].kind = Status(v) /\ HasProblem(z)
<1>1. PICK j \in z.open : Problem(z) = Status(v) /\ alerts[j].kind = Status(v)
  BY DEF Working, Remembers, Recalls
<1>2. HasProblem(z)
  BY <1>1, Typed DEF HasProblem
<1> QED
  BY <1>1, <1>2 DEF Stale

\* What the tick remembers when reconcile has done with alert i.
LEMMA PastRecalls ==
  ASSUME Types, NEW z, z.open \subseteq DOMAIN alerts, NEW i \in Stale(z), Working("resolve", z),
         NEW x, Past(z, x, i), NEW y, Past(x, y, i),
         NEW v \in Units, mails[v] # 0
  PROVE  Recalls(AfterList(x), y, v)
<1>1. AfterList(x) \in {"resolve", "create", "next"}
  BY AfterListCases
<1>2. v \in y.todo => Seen(y, v) = Status(v)
  BY DEF Past, Seen, Working, Remembers, Recalls
<1>3. CASE v = z.unit
  <2>1. /\ Problem(z) = Status(v) /\ HasProblem(z)
        /\ \E j \in z.open \ {i} : alerts[j].kind = Status(v)
    BY <1>3, StaleForgotten
  <2>2. Problem(x) = Problem(z) /\ Problem(y) = Problem(z)
    BY DEF Past, Problem
  <2>3. HasCurrent(x)
    BY <2>1, <2>2 DEF Past, HasCurrent, HasProblem
  <2>4. AfterList(x) # "create"
    BY <2>3, AfterListCases
  <2>5. \E j \in y.open : alerts[j].kind = Status(v)
    BY <2>1 DEF Past
  <2> QED
    BY <1>1, <1>2, <2>1, <2>2, <2>4, <2>5 DEF Recalls
<1>4. CASE v # z.unit
  BY <1>1, <1>2, <1>4 DEF Recalls, Past
<1> QED
  BY <1>3, <1>4

\* Failing to resolve an alert: its unit does not count as reconciled.
LEMMA CalmResolveFails ==
  ASSUME Types, Calm, NEW r \in Replicas, ResolveFails(r)
  PROVE  Calm'
<1> DEFINE z == tick[r]
<1>1. PICK i \in Stale(z), x \in TickType :
        x = Erred(z, i) /\ GoesOn(r, x) /\ i \in DOMAIN alerts /\ alerts' = alerts
  BY ResolveFailsDoes
<1>2. /\ pc[r] = "resolve" /\ z \in TickType /\ Working("resolve", z) /\ leader = r
      /\ UNCHANGED <<world, alerts, leader, mails>> /\ z.open \subseteq DOMAIN alerts
  BY Typed, Fields DEF ResolveFails, Calm, Leads
<1>3. Past(z, x, i) /\ ~x.ok /\ x.clean = z.clean
  BY <1>1, <1>2, ErredFields DEF SameTick, Past
<1> DEFINE where == AfterList(x)
<1>4. x = Gone(x)
  BY <1>3 DEF Gone, Reconciled
<1>5. where \in {"resolve", "create", "next"}
  BY AfterListCases
<1>6. Listed("resolve", z) /\ Problem(x) = Problem(z)
  BY <1>2, <1>3 DEF Working, Past, Problem
<1>7. ~HasProblem(z) \/ alerts[i].kind # Problem(z)
  BY DEF Stale
<1>8. alerts[i].kind # Problem(z)
  BY <1>1, <1>7, Typed DEF HasProblem
<1>9. Listed(where, x)
  BY <1>3, <1>5, <1>6, <1>8 DEF Listed, Past
<1>10. Remembers(where, x)
  <2>1. Past(x, x, i)
    BY <1>3 DEF Past
  <2> QED
    BY <1>2, <1>3, <2>1, PastRecalls DEF Remembers
<1>11. Settled(x)
  BY <1>2, <1>3 DEF Working, Settled, Past, Seen
<1>12. Goes(r, where, x) /\ leader' = r
  BY <1>1, <1>2, <1>4 DEF GoesOn
<1> HIDE DEF where
<1> QED
  BY <1>2, <1>9, <1>10, <1>11, <1>12, CalmQuiet DEF Working

\* Resolving an alert: the one a unit was mailed about stays.
LEMMA CalmResolve ==
  ASSUME Types, Calm, NEW r \in Replicas, Resolve(r)
  PROVE  Calm'
<1> DEFINE z == tick[r]
<1>1. PICK i \in Stale(z), x \in TickType, a \in Alerts :
        /\ x = Dropped(z, i) /\ GoesOn(r, x) /\ i \in DOMAIN alerts /\ Becomes(i, a)
        /\ a.unit = alerts[i].unit /\ a.kind = alerts[i].kind /\ ~a.open
  BY ResolveDoes
<1>2. /\ pc[r] = "resolve" /\ z \in TickType /\ Working("resolve", z) /\ leader = r
      /\ UNCHANGED <<world, leader, mails>> /\ z.open \subseteq DOMAIN alerts
      /\ z.unit \in Units /\ i \in z.open
  BY Typed, Fields DEF Resolve, Calm, Leads, Stale, Types, Has
<1>3. Past(z, x, i) /\ x.ok = z.ok /\ x.clean = z.clean
  BY <1>1, <1>2, DroppedFields DEF SameTick, Past
<1>4. PICK y, where : y = Gone(x) /\ where = AfterList(x)
  OBVIOUS
<1>5. /\ y.snap = x.snap /\ y.now = x.now /\ y.open = x.open /\ y.ok = x.ok
      /\ y.todo = x.todo /\ y.unit = x.unit /\ (where # "next" => y = x)
      /\ y.clean = IF where = "next" /\ x.ok THEN x.clean \cup {x.unit} ELSE x.clean
  <2>1. x \in TickType /\ x.unit \in Units
    BY <1>1, <1>2, <1>3 DEF Past
  <2> QED
    BY <1>4, <2>1, WentOn DEF SameTick, Gone
<1>6. where \in {"resolve", "create", "next"}
  BY <1>4, AfterListCases
<1>7. Listed("resolve", z) /\ Problem(x) = Problem(z) /\ Problem(y) = Problem(z)
  BY <1>2, <1>3, <1>5 DEF Working, Past, Problem
<1>8. /\ DOMAIN alerts' = DOMAIN alerts
      /\ \A j \in DOMAIN alerts :
          /\ alerts'[j].unit = alerts[j].unit /\ alerts'[j].kind = alerts[j].kind
          /\ alerts'[j].open <=> alerts[j].open /\ j # i
  BY <1>1 DEF Becomes
<1>9. \A u \in Units : OpenAlerts(u)' = OpenAlerts(u) \ {i}
  BY <1>8 DEF OpenAlerts
<1>10. i \in OpenAlerts(z.unit) /\ alerts[i].unit = z.unit
  BY <1>2, <1>7 DEF Listed, OpenAlerts
<1>11. AfterList(x)' = where
  BY <1>2, <1>4, <1>3, <1>8 DEF Past, AfterList, Stale, HasCurrent
<1>12. Listed(where, y)'
  <2>1. where \in {"resolve", "create"} =>
          /\ x.unit \notin x.todo \cup x.clean
          /\ x.open \subseteq OpenAlerts(x.unit)'
          /\ \A j \in OpenAlerts(x.unit)' \ x.open : ~x.ok /\ alerts'[j].kind # Problem(x)
    BY <1>2, <1>3, <1>7, <1>8, <1>9 DEF Listed, Past, OpenAlerts
  <2>2. y.clean \cap y.todo = {}
    BY <1>3, <1>5, <1>7 DEF Listed, Past
  <2> QED
    BY <1>5, <1>6, <1>7, <1>11, <2>1, <2>2 DEF Listed, Problem
<1>13. Remembers(where, y)'
  <2>1. ASSUME NEW v \in Units, mails'[v] # 0 PROVE Recalls(where, y, v)'
    <3>1. Past(x, y, i)
      BY <1>3, <1>5 DEF Past
    <3>2. Status(v)' = Status(v) /\ mails[v] # 0 /\ now' = now
      BY <1>2, <2>1 DEF Status, world
    <3>3. Recalls(where, y, v)
      BY <1>2, <1>3, <1>4, <3>1, <3>2, PastRecalls
    <3>4. \A j \in y.open : alerts'[j].kind = alerts[j].kind
      BY <1>2, <1>3, <1>5, <1>8 DEF Past
    <3> QED
      BY <3>2, <3>3, <3>4 DEF Recalls, Seen, Problem
  <2> QED
    BY <2>1 DEF Remembers
<1>14. Settled(y)'
  <2>1. ASSUME NEW v \in y.clean PROVE OpenKinds(v)' = ProblemKinds(Seen(y, v))
    <3>1. CASE v \in z.clean
      <4>1. v # z.unit /\ v \in Units
        BY <1>2, <1>7, <3>1, Fields DEF Listed
      <4>2. OpenAlerts(v)' = OpenAlerts(v)
        BY <1>8, <1>10, <4>1 DEF OpenAlerts
      <4>3. OpenKinds(v)' = OpenKinds(v)
        BY <1>8, <4>2 DEF OpenKinds, OpenAlerts
      <4> QED
        BY <1>2, <1>3, <1>5, <3>1, <4>3 DEF Working, Settled, Past, Seen
    <3>2. CASE v \notin z.clean
      <4>1. where = "next" /\ v = z.unit /\ z.ok
        BY <1>3, <1>5, <2>1, <3>2 DEF Past
      <4>2. {alerts[j].kind : j \in x.open} = ProblemKinds(Problem(x))
        BY <1>4, <4>1, ListSettled
      <4>3. OpenAlerts(v) = z.open /\ OpenAlerts(v)' = x.open
        BY <1>2, <1>3, <1>7, <1>9, <4>1 DEF Listed, Past
      <4>4. OpenKinds(v)' = {alerts[j].kind : j \in x.open}
        BY <1>2, <1>3, <1>8, <4>3 DEF OpenKinds, Past
      <4> QED
        BY <1>3, <1>5, <4>1, <4>2, <4>4 DEF Problem, Seen, Past
    <3> QED
      BY <3>1, <3>2
  <2> QED
    BY <2>1 DEF Settled, Seen
<1>15. Told'
  <2>1. ASSUME NEW v \in Units, mails[v] # 0 
        PROVE  \E j \in OpenAlerts(v) \ {i} : alerts[j].kind = Status(v)
    <3>1. CASE v = z.unit
      <4>1. \E j \in z.open \ {i} : alerts[j].kind = Status(v)
        BY <1>2, <2>1, <3>1, StaleForgotten
      <4> QED
        BY <1>7, <3>1, <4>1, <1>2 DEF Listed
    <3>2. CASE v # z.unit
      BY <1>10, <2>1, <3>2 DEF Calm, Told, OpenAlerts
    <3> QED
      BY <3>1, <3>2
  <2>2. \A v \in Units : Status(v)' = Status(v)
    BY <1>2 DEF Status, world
  <2>3. \A v \in Units : \A j \in OpenAlerts(v) : alerts'[j].kind = alerts[j].kind
    BY <1>8 DEF OpenAlerts
  <2> QED
    BY <1>2, <1>9, <2>1, <2>2, <2>3 DEF Told, Calm
<1>16. Goes(r, where, y) /\ leader' = r
  BY <1>1, <1>2, <1>4 DEF GoesOn
<1> QED
  BY <1>2, <1>12, <1>13, <1>14, <1>15, <1>16, CalmGoes DEF Working

\* Creating an alert: the unit has no other open alert unless one could not be resolved.
LEMMA CalmCreate ==
  ASSUME Types, Calm, NEW r \in Replicas, Create(r)
  PROVE  Calm'
<1> DEFINE z == tick[r] n == Len(alerts) + 1
<1>1. /\ pc[r] = "create" /\ z \in TickType /\ Working("create", z) /\ leader = r
      /\ UNCHANGED <<world, leader, mails>> /\ z.unit \in Units
  BY Typed DEF Create, Calm, Leads, Types, Has
<1>2. /\ IndexAllows(z.unit, Problem(z)) /\ HasProblem(z)
      /\ z.ok => OpenAlerts(z.unit) = {}
  BY <1>1, NoConflict DEF Working
<1>3. PICK a \in Alerts, y \in TickType' :
        /\ Inserted(a) /\ a.unit = z.unit /\ a.kind = Problem(z) /\ a.open
        /\ Goes(r, "recipients", y) /\ y.snap = z.snap /\ y.now = z.now
        /\ y.unit = z.unit /\ y.todo = z.todo /\ y.alert = n
        /\ y.clean = IF z.ok THEN z.clean \cup {z.unit} ELSE z.clean
  BY <1>2, CreateDoes
<1>4. Listed("create", z) /\ Problem(y) = Problem(z)
  BY <1>1, <1>3 DEF Working, Problem
<1>5. /\ DOMAIN alerts' = DOMAIN alerts \cup {n} /\ n \notin DOMAIN alerts
      /\ \A j \in DOMAIN alerts : alerts'[j] = alerts[j]
      /\ alerts'[n] = a
  BY <1>3 DEF Inserted
<1> HIDE DEF n
<1>6. \A u \in Units : OpenAlerts(u)' = OpenAlerts(u) \cup {m \in {n} : u = z.unit}
  BY <1>3, <1>5 DEF OpenAlerts
<1>7. Listed("recipients", y)'
  BY <1>1, <1>3, <1>4, <1>5, <1>6 DEF Listed, Problem
<1>8. Remembers("recipients", y)'
  <2>1. ASSUME NEW v \in Units, mails'[v] # 0 PROVE Recalls("recipients", y, v)'
    <3>1. Status(v)' = Status(v) /\ Recalls("create", z, v)
      BY <1>1, <2>1 DEF Status, world, Working, Remembers
    <3> QED
      BY <1>3, <3>1 DEF Recalls, Seen
  <2> QED
    BY <2>1 DEF Remembers
<1>9. Settled(y)'
  <2>1. ASSUME NEW v \in y.clean PROVE OpenKinds(v)' = ProblemKinds(Seen(y, v))
    <3>1. CASE v \in z.clean
      <4>1. v # z.unit /\ v \in Units
        BY <1>1, <1>4, <3>1, Fields DEF Listed
      <4>2. OpenAlerts(v)' = OpenAlerts(v)
        BY <1>6, <4>1
      <4>3. OpenKinds(v)' = OpenKinds(v)
        BY <1>5, <4>2 DEF OpenKinds, OpenAlerts
      <4> QED
        BY <1>1, <1>3, <3>1, <4>3 DEF Working, Settled, Seen
    <3>2. CASE v \notin z.clean
      <4>1. v = z.unit /\ z.ok
        BY <1>3, <2>1, <3>2
      <4>2. OpenAlerts(v)' = {n}
        BY <1>1, <1>2, <1>6, <4>1
      <4>3. OpenKinds(v)' = {Problem(z)}
        BY <1>3, <1>5, <4>2 DEF OpenKinds
      <4> QED
        BY <1>2, <1>3, <4>1, <4>3 DEF Problem, Seen, ProblemKinds, HasProblem
    <3> QED
      BY <3>1, <3>2
  <2> QED
    BY <2>1 DEF Settled, Seen
<1>10. Told'
  <2>1. \A v \in Units : Status(v)' = Status(v)
    BY <1>1 DEF Status, world
  <2>2. \A v \in Units : \A j \in OpenAlerts(v) : alerts'[j].kind = alerts[j].kind
    BY <1>5 DEF OpenAlerts
  <2> QED
    BY <1>1, <1>6, <2>1, <2>2 DEF Told, Calm
<1> QED
  BY <1>1, <1>3, <1>7, <1>8, <1>9, <1>10, CalmGoes DEF Working

\* A mail is sent about a unit not mailed about in this episode, or about a past one;
\* marking it notified changes nothing that matters here.
LEMMA CalmSendMark ==
  ASSUME Types, Calm, NEW r \in Replicas, Send(r) \/ Mark(r)
  PROVE  Calm'
<1> DEFINE z == tick[r] i == z.alert
<1>1. PICK where : where = IF pc[r] = "send" THEN "mark" ELSE "next"
  OBVIOUS
<1>2. /\ pc[r] \in {"send", "mark"} /\ z \in TickType /\ Working(pc[r], z) /\ leader = r
      /\ UNCHANGED <<world, leader>> /\ z.unit \in Units
      /\ Send(r) => pc[r] = "send" /\ Working("send", z)
      /\ Mark(r) => pc[r] = "mark" /\ UNCHANGED mails
  <2>1. /\ pc[r] \in {"send", "mark"} /\ UNCHANGED <<world, leader>>
        /\ (Send(r) => pc[r] = "send") /\ (Mark(r) => pc[r] = "mark" /\ UNCHANGED mails)
    BY DEF Send, Mark
  <2>2. z \in TickType /\ Working(pc[r], z) /\ leader = r
    BY <2>1, Typed DEF Calm, Leads
  <2>3. z.unit \in Units
    BY <2>1 DEF Types, Has
  <2> QED
    BY <2>1, <2>2, <2>3
<1>3. /\ i \in DOMAIN alerts /\ Goes(r, where, z)
      /\ \E a \in Alerts : /\ Becomes(i, a) /\ a.unit = alerts[i].unit
                           /\ a.kind = alerts[i].kind /\ a.open = alerts[i].open
  BY <1>1, <1>2, SendDoes, MarkDoes
<1>4. /\ DOMAIN alerts' = DOMAIN alerts
      /\ \A j \in DOMAIN alerts :
          /\ alerts'[j].unit = alerts[j].unit /\ alerts'[j].kind = alerts[j].kind
          /\ alerts'[j].open = alerts[j].open
  BY <1>3 DEF Becomes
<1>5. \A u \in Units : /\ OpenAlerts(u)' = OpenAlerts(u) /\ Status(u)' = Status(u)
                       /\ \A j \in OpenAlerts(u) : alerts'[j].kind = alerts[j].kind
  BY <1>2, <1>4 DEF OpenAlerts, Status, world
<1>6. \A u \in Units : OpenKinds(u)' = OpenKinds(u)
  BY <1>5 DEF OpenKinds
<1>7. i \in OpenAlerts(z.unit) /\ z.unit \notin z.todo /\ alerts[i].unit = z.unit
  BY <1>2 DEF Working, Listed, OpenAlerts
<1>8. \A v \in Units : v # z.unit => mails'[v] = mails[v]
  BY <1>2, <1>7 DEF Send, Types
<1>9. PICK y : y = z
  OBVIOUS
<1>10. Listed(where, y)'
  BY <1>1, <1>2, <1>5, <1>9 DEF Working, Listed
<1>11. Remembers(where, y)'
  <2>1. ASSUME NEW v \in Units, mails'[v] # 0, v \in z.todo PROVE Seen(z, v) = Status(v)
    BY <1>2, <1>7, <1>8, <2>1 DEF Working, Remembers, Recalls
  <2> QED
    BY <1>1, <1>5, <1>9, <2>1 DEF Remembers, Recalls, Seen
<1>12. Settled(y)'
  <2>1. z.clean \subseteq Units
    BY <1>2, Fields
  <2> QED
    BY <1>2, <1>6, <1>9, <2>1 DEF Working, Settled, Seen
<1>13. Told'
  <2>1. ASSUME NEW v \in Units, mails'[v] # 0, mails'[v] = mails[v]
        PROVE  mails'[v] = 1 /\ \E j \in OpenAlerts(v)' : alerts'[j].kind = Status(v)'
    BY <1>5, <2>1 DEF Told, Calm
  <2>2. CASE Mark(r)
    BY <1>2, <2>1, <2>2 DEF Told
  <2>3. CASE Send(r)
    <3>1. mails[z.unit] = 0
      BY <1>2, <2>3 DEF Working, Remembers, Recalls
    <3>2. mails'[z.unit] = IF Status(z.unit) = alerts[i].kind THEN 1 ELSE 0
      BY <1>2, <1>7, <2>3, <3>1 DEF Send, Types
    <3>3. ASSUME NEW v \in Units, mails'[v] # 0
          PROVE  mails'[v] = 1 /\ \E j \in OpenAlerts(v)' : alerts'[j].kind = Status(v)'
      <4>1. CASE v = z.unit
        <5>1. i \in OpenAlerts(v)' /\ alerts'[i].kind = alerts[i].kind /\ Status(v)' = Status(v)
          BY <1>5, <1>7, <4>1
        <5> QED
          BY <3>2, <3>3, <4>1, <5>1
      <4>2. CASE v # z.unit
        BY <1>8, <2>1, <3>3, <4>2
      <4> QED
        BY <4>1, <4>2
    <3> QED
      BY <3>3 DEF Told
  <2> QED
    BY <2>2, <2>3
<1> QED
  BY <1>2, <1>3, <1>9, <1>10, <1>11, <1>12, <1>13, CalmGoes DEF Working

\* The other steps of a replica touch neither the table nor the history of mails.
LEMMA CalmOther ==
  ASSUME Types, Calm, NEW r \in Replicas,
         TryLock(r) \/ EvaluateUnits(r) \/ Stamp(r) \/ Recipients(r) \/ Unlock(r)
            \/ EvaluateUnitsFails(r) \/ ListOpenFails(r) \/ GiveUp(r) \/ RecipientsFail(r)
            \/ Crash(r)
  PROVE  Calm'
<1> DEFINE z == tick[r]
<1>0. /\ z \in TickType /\ Working(pc[r], z) /\ (pc[r] # "idle" => leader = r)
      /\ tick = [tick EXCEPT ![r] = z]
  BY Typed DEF Calm, Leads
<1>1. SUFFICES \E where, x : /\ leader = NoReplica \/ pc[r] # "idle"
                            /\ Goes(r, where, x) /\ (where = "idle" \/ leader' = r)
                            /\ Working(where, x) /\ UNCHANGED <<world, alerts, mails>>
  BY CalmQuiet
<1>2. CASE TryLock(r)
  <2>1. Working("query", z)
    BY <1>0, <1>2 DEF TryLock, Working, Listed, Remembers, Recalls
  <2> QED
    BY <1>0, <1>2, <2>1 DEF TryLock, LockFree, Goes
<1>3. CASE EvaluateUnits(r)
  <2> DEFINE x == [z EXCEPT !.snap = latest]
  <2>1. x.snap = latest /\ x.clean = z.clean /\ x.todo = z.todo
    BY <1>0 DEF TickType
  <2>2. Goes(r, "stamp", x)
    BY <1>0, <1>3 DEF EvaluateUnits, Goes
  <2> HIDE DEF x
  <2>3. Working("stamp", x)
    BY <1>0, <1>3, <2>1 DEF EvaluateUnits, Working, Listed, Remembers, Recalls, Settled, Status
  <2> QED
    BY <1>0, <1>3, <2>2, <2>3 DEF EvaluateUnits
<1>4. CASE Stamp(r)
  <2> DEFINE x == [z EXCEPT !.now = now, !.todo = Units]
  <2>1. x.snap = z.snap /\ x.now = now /\ x.todo = Units /\ x.clean = z.clean
    BY <1>0 DEF TickType
  <2>2. Goes(r, "next", x)
    BY <1>0, <1>4, Typed DEF Stamp, Goes
  <2> HIDE DEF x
  <2>3. Working("next", x)
    BY <1>0, <1>4, <2>1 DEF Stamp, Working, Listed, Remembers, Recalls, Settled, Seen
  <2> QED
    BY <1>0, <1>4, <2>2, <2>3 DEF Stamp
<1>5. CASE Recipients(r) \/ RecipientsFail(r)
  <2>1. PICK where \in {"send", "mark"} : Goes(r, where, z)
    BY <1>0, <1>5 DEF Recipients, RecipientsFail, Goes
  <2>2. Working(where, z)
    BY <1>0, <1>5 DEF Recipients, RecipientsFail, Working, Listed, Remembers, Recalls
  <2> QED
    BY <1>0, <1>5, <2>1, <2>2 DEF Recipients, RecipientsFail
<1>6. CASE Unlock(r) \/ Crash(r)
  <2>1. Goes(r, "idle", NoTick) /\ NoTick.clean = {} /\ NoTick.todo = {}
    BY <1>6 DEF Unlock, Crash, Goes, NoTick
  <2>2. Working("idle", NoTick)
    BY <2>1 DEF Working, Listed, Remembers, Recalls, Settled
  <2> QED
    BY <1>6, <2>1, <2>2 DEF Unlock, Crash
<1>7. CASE EvaluateUnitsFails(r)
  <2>1. Goes(r, "idle", z)
    BY <1>0, <1>7 DEF EvaluateUnitsFails, Goes
  <2>2. Working("idle", z)
    BY <1>0, <1>7 DEF EvaluateUnitsFails, Working, Listed, Remembers, Recalls
  <2> QED
    BY <1>7, <2>1, <2>2 DEF EvaluateUnitsFails
<1>8. CASE ListOpenFails(r)
  <2>1. PICK u \in z.todo : tick' = [tick EXCEPT ![r].todo = @ \ {u}, ![r].unit = u]
    BY <1>8 DEF ListOpenFails
  <2> DEFINE x == [z EXCEPT !.todo = @ \ {u}, !.unit = u]
  <2>2. x.snap = z.snap /\ x.now = z.now /\ x.todo = z.todo \ {u} /\ x.clean = z.clean
    BY <1>0 DEF TickType
  <2>3. Goes(r, "next", x)
    BY <1>0, <1>8, <2>1, Typed DEF ListOpenFails, Goes
  <2> HIDE DEF x
  <2>4. Working("next", x)
    BY <1>0, <1>8, <2>2 DEF ListOpenFails, Working, Listed, Remembers, Recalls, Settled, Seen
  <2> QED
    BY <1>0, <1>8, <2>3, <2>4 DEF ListOpenFails
<1>9. CASE GiveUp(r)
  <2>1. Goes(r, "next", z)
    BY <1>0, <1>9 DEF GiveUp, Goes
  <2>2. Working("next", z)
    BY <1>0, <1>9 DEF GiveUp, Working, Listed, Remembers, Recalls
  <2> QED
    BY <1>0, <1>9, <2>1, <2>2 DEF GiveUp
<1> QED
  BY <1>2, <1>3, <1>4, <1>5, <1>6, <1>7, <1>8, <1>9

\* No step wins a lost lock back.
LEMMA LossesKept ==
  ASSUME Types, [Next]_vars, NotLost'
  PROVE  NotLost /\ \A r \in Replicas : ~LoseLock(r)
<1>1. budget.losses \in 0 .. MaxLockLosses /\ MaxLockLosses \in Nat
  BY ConstantsOK DEF Types, Budgets, ConstantsOK
<1>2. budget'.losses <= budget.losses
  <2>1. SpendError => budget'.losses = budget.losses
    BY DEF SpendError, Types, Budgets
  <2>2. \A r \in Replicas : Crash(r) => budget'.losses = budget.losses
    BY DEF Crash, Types, Budgets
  <2>3. \A r \in Replicas : LoseLock(r) => budget'.losses = budget.losses - 1
    BY DEF LoseLock, Types, Budgets
  <2>4. budget' = budget \/ SpendError \/ \E r \in Replicas : Crash(r) \/ LoseLock(r)
    BY DEF Next, vars, Advance, Arrive, TryLock, Work, Failure, EvaluateUnits, Stamp, ListOpen,
           Resolve, Create, Recipients, Send, Mark, Unlock, EvaluateUnitsFails, ListOpenFails,
           ResolveFails, GiveUp, RecipientsFail
  <2> QED
    BY <1>1, <2>1, <2>2, <2>3, <2>4
<1>3. ASSUME NEW r \in Replicas, LoseLock(r) PROVE FALSE
  <2>1. budget'.losses = budget.losses - 1
    BY <1>3 DEF LoseLock, Types, Budgets
  <2> QED
    BY <1>1, <2>1 DEF NotLost
<1> QED
  BY <1>1, <1>2, <1>3 DEF NotLost

\* With no tick under way and no alert there is nothing to disagree.
LEMMA CalmInit == Init => Calm
  BY DEF Init, NoTick, Calm, Leads, Working, Listed, Remembers, Recalls, Settled, Told

\* As long as no lock is lost, a step keeps the invariant.
LEMMA CalmNext == Types /\ Calm /\ NotLost' /\ [Next]_vars => Calm'
<1> SUFFICES ASSUME Types, Calm, NotLost', [Next]_vars PROVE Calm'
  OBVIOUS
<1>1. CASE Advance \/ \E u \in Units : Arrive(u)
  BY <1>1, CalmWorld DEF Advance, Arrive
<1>2. ASSUME NEW r \in Replicas, TryLock(r) \/ Work(r) \/ Failure(r) PROVE Calm'
  <2>1. ~LoseLock(r)
    BY LossesKept
  <2> QED
    BY <1>2, <2>1, CalmListOpen, CalmResolve, CalmResolveFails, CalmCreate, CalmSendMark,
       CalmOther DEF Work, Failure
<1>3. CASE UNCHANGED vars
  BY <1>3 DEF vars, world, Calm, Leads, Working, Listed, Remembers, Recalls, Settled, Told,
             OpenAlerts, OpenKinds, Status, AfterList, Stale, HasCurrent
<1> QED
  BY <1>1, <1>2, <1>3 DEF Next

\* The inductive invariant holds, up to the first lost lock.
LEMMA CalmAlways == Spec => [](Types /\ (NotLost => Calm))
<1>1. Types /\ (NotLost => Calm) /\ [Next]_vars => (NotLost => Calm)'
  BY LossesKept, CalmNext
<1> QED
  BY <1>1, CalmInit, TypesInit, TypesNext, PTL DEF Spec

\* As long as no leader loses its lock in the middle of a tick, replicas that tick at
\* the same time never open the same alert twice.
THEOREM LockPreventsConflicts == Spec => []CreateNeverConflicts
<1>1. (NotLost => Calm) => CreateNeverConflicts
  BY NoConflict DEF Calm, Working, CreateNeverConflicts
<1> QED
  BY <1>1, CalmAlways, PTL

\* As long as no leader loses its lock in the middle of a tick, a unit that stays in
\* one trouble costs the admins at most one mail, whatever readings arrive and
\* whatever fails or crashes in between.
THEOREM LockedMailsOnce == Spec => []OneMailPerEpisode
<1>1. Types /\ (NotLost => Calm) => OneMailPerEpisode
  BY DEF Types, Calm, Told, OneMailPerEpisode
<1> QED
  BY <1>1, CalmAlways, PTL

\* As long as no leader loses its lock in the middle of a tick, each unit a tick
\* reconciled without an error has an open alert for the problem it saw and no other.
THEOREM LockedTicksSettle == Spec => []TickSettles
<1>1. (NotLost => Calm) => TickSettles
  BY DEF Calm, Working, Settled, Seen, TickSettles
<1> QED
  BY <1>1, CalmAlways, PTL

-----------------------------------------------------------------------------
(* The alert book: what holds without the lock.                            *)

Notifying == {"recipients", "send", "mark"}

\* A replica at where of notify, with the variables x: its alert has not had what is
\* still to come, and is not marked for nothing.
Carries(where, x) ==
    /\ where \in Notifying => ~alerts[x.alert].notified
    /\ where \in {"recipients", "send"} => alerts[x.alert].mails = 0
    /\ where = "send" => HasAdmins
    /\ where = "mark" /\ HasAdmins /\ alerts[x.alert].mails = 0 => budget.errors < MaxErrors

\* No two replicas notify of one alert: each notifies of the one it created.
Owned ==
    /\ budget.errors <= MaxErrors
    /\ \A r \in Replicas : Carries(pc[r], tick[r])
    /\ \A r, q \in Replicas : r # q /\ pc[r] \in Notifying /\ pc[q] \in Notifying
                                => tick[r].alert # tick[q].alert

\* One replica goes on, the others stay where they are.
LEMMA Went ==
  ASSUME Types, NEW r \in Replicas, NEW where, NEW x, Goes(r, where, x)
  PROVE  /\ pc'[r] = where /\ tick'[r] = x
         /\ \A q \in Replicas \ {r} : pc'[q] = pc[q] /\ tick'[q] = tick[q]
  BY Typed DEF Goes

\* A step of one replica need answer only for that replica, when it leaves alone the
\* alerts the others notify of.
LEMMA OwnedGoes ==
  ASSUME Types, Owned, NEW r \in Replicas,
         \A q \in Replicas \ {r} : pc'[q] = pc[q] /\ tick'[q] = tick[q],
         budget'.errors <= budget.errors, budget' \in Budgets, Carries(pc[r], tick[r])',
         \A q \in Replicas \ {r} : pc[q] \in Notifying =>
            /\ pc'[r] \in Notifying => tick[q].alert # tick'[r].alert
            /\ alerts'[tick[q].alert].mails = alerts[tick[q].alert].mails
            /\ alerts'[tick[q].alert].notified = alerts[tick[q].alert].notified
  PROVE  Owned'
<1>2. /\ budget'.errors \in Nat /\ budget.errors \in Nat /\ MaxErrors \in Nat
      /\ budget.errors <= MaxErrors
  BY ConstantsOK DEF Types, Budgets, Owned, ConstantsOK
<1>3. ASSUME NEW q \in Replicas PROVE Carries(pc[q], tick[q])'
  <2>1. CASE q = r
    BY <2>1
  <2>2. CASE q # r
    <3>1. Carries(pc[q], tick[q])
      BY DEF Owned
    <3>2. budget.errors < MaxErrors => budget'.errors < MaxErrors
      BY <1>2
    <3>3. pc'[q] = pc[q] /\ tick'[q] = tick[q]
      BY <2>2
    <3>4. pc[q] \in Notifying =>
            /\ alerts'[tick[q].alert].mails = alerts[tick[q].alert].mails
            /\ alerts'[tick[q].alert].notified = alerts[tick[q].alert].notified
      BY <2>2
    <3> QED
      BY <3>1, <3>2, <3>3, <3>4 DEF Carries, Notifying
  <2> QED
    BY <2>1, <2>2
<1>4. ASSUME NEW q \in Replicas, NEW s \in Replicas, q # s,
             pc'[q] \in Notifying, pc'[s] \in Notifying
      PROVE  tick'[q].alert # tick'[s].alert
  <2>1. CASE q # r /\ s # r
    BY <1>4, <2>1 DEF Owned
  <2>2. CASE q = r \/ s = r
    BY <1>4, <2>2
  <2> QED
    BY <2>1, <2>2
<1>5. budget'.errors <= MaxErrors
  BY <1>2
<1> QED
  BY <1>3, <1>4, <1>5 DEF Owned

\* What is left of the failures to come after a step.
LEMMA ErrorsLeft ==
  ASSUME Types, Owned
  PROVE  /\ budget.errors \in Nat /\ MaxErrors \in Nat /\ budget.errors <= MaxErrors
         /\ SpendError => budget'.errors < MaxErrors /\ budget'.errors <= budget.errors
         /\ \A r \in Replicas : Crash(r) \/ LoseLock(r) => budget'.errors = budget.errors
<1>1. budget \in Budgets /\ MaxErrors \in Nat
  BY ConstantsOK DEF Types, ConstantsOK
<1>2. SpendError => budget'.errors = budget.errors - 1
  BY <1>1 DEF SpendError, Budgets
<1>3. \A r \in Replicas : Crash(r) \/ LoseLock(r) => budget'.errors = budget.errors
  BY <1>1 DEF Crash, LoseLock, Budgets
<1> QED
  BY <1>1, <1>2, <1>3 DEF Owned, Budgets, SpendError

\* An alert is created: the book opens it, and its replica alone will notify of it.
LEMMA BookOpens ==
  ASSUME Types, Types', Owned, NEW r \in Replicas, Create(r)
  PROVE  Owned' /\ [Book!Next]_Book!vars
<1> DEFINE x == tick[r]
           a == [unit |-> x.unit, kind |-> Problem(x), open |-> TRUE,
                 notified |-> FALSE, mails |-> 0]
<1>1. /\ budget' = budget /\ budget'.errors <= budget.errors /\ budget' \in Budgets
      /\ x.unit \in Units /\ Problem(x) \in Kinds
  BY ErrorsLeft DEF Create, Types, Has, HasProblem
<1>2. \A q \in Replicas : pc[q] \in Notifying => tick[q].alert \in DOMAIN alerts
  BY Typed DEF Types, Has, Notifying
<1>3. CASE IndexAllows(x.unit, Problem(x))
  <2>1. PICK y \in TickType' : Goes(r, "recipients", y) /\ y.alert = Len(alerts) + 1
    BY <1>3, CreateDoes
  <2>2. alerts' = Append(alerts, a)
    BY <1>3 DEF Create
  <2>3. a \in Alerts /\ ~a.notified /\ a.mails = 0
    BY <1>1 DEF Alerts
  <2>4. Inserted(a)
    BY <2>2, <2>3, Typed, AlertInserted
  <2>5. Owned'
    <3>0. /\ pc'[r] = "recipients" /\ tick'[r] = y
          /\ \A q \in Replicas \ {r} : pc'[q] = pc[q] /\ tick'[q] = tick[q]
      BY <2>1, Went
    <3>1. Carries(pc[r], tick[r])'
      BY <2>1, <2>3, <2>4, <3>0 DEF Carries, Inserted
    <3>2. \A q \in Replicas : pc[q] \in Notifying =>
            /\ tick[q].alert # y.alert
            /\ alerts'[tick[q].alert] = alerts[tick[q].alert]
      BY <1>2, <2>1, <2>4 DEF Inserted
    <3> QED
      BY <1>1, <3>0, <3>1, <3>2, OwnedGoes
  <2>6. Book!Open(x.unit, Problem(x))
    <3>1. \A i \in DOMAIN alerts :
            alerts[i].open => <<alerts[i].unit, alerts[i].kind>> # <<x.unit, Problem(x)>>
      BY <1>3 DEF IndexAllows, OpenAlerts
    <3> QED
      BY <1>1, <2>2, <3>1 DEF Book!Open
  <2> QED
    BY <1>1, <2>5, <2>6 DEF Book!Next
<1>4. CASE ~IndexAllows(x.unit, Problem(x))
  <2>1. /\ pc'[r] = "next" /\ alerts' = alerts
        /\ \A q \in Replicas \ {r} : pc'[q] = pc[q] /\ tick'[q] = tick[q]
    BY <1>4, Typed DEF Create
  <2>2. Carries(pc[r], tick[r])' /\ pc'[r] \notin Notifying
    BY <2>1 DEF Carries, Notifying
  <2>3. Owned'
    BY <1>1, <2>1, <2>2, OwnedGoes
  <2> QED
    BY <1>1, <2>1, <2>3 DEF Book!vars
<1> QED
  BY <1>3, <1>4

\* The first mail about an alert.
LEMMA FirstMail ==
  ASSUME NEW b \in Alerts, b.mails = 0, NEW a, a = [b EXCEPT !.mails = @ + 1]
  PROVE  a \in Alerts /\ a.mails = 1 /\ a.notified = b.notified /\ a = [b EXCEPT !.mails = 1]
  BY DEF Alerts

\* A mail about an alert that had none.
LEMMA BookMails ==
  ASSUME Types, Types', Owned, NEW r \in Replicas, Send(r)
  PROVE  Owned' /\ [Book!Next]_Book!vars
<1> DEFINE i == tick[r].alert
           a == [alerts[i] EXCEPT !.mails = @ + 1]
<1>1. /\ i \in DOMAIN alerts /\ alerts' = [alerts EXCEPT ![i] = a]
      /\ pc'[r] = "mark" /\ tick' = tick /\ \A q \in Replicas \ {r} : pc'[q] = pc[q]
      /\ budget' = budget /\ budget'.errors <= budget.errors /\ budget' \in Budgets
  <2>1. i \in DOMAIN alerts
    BY SendDoes
  <2> QED
    BY <2>1, Typed, ErrorsLeft DEF Send, Types
<1>2. pc[r] = "send" /\ Carries(pc[r], tick[r])
  BY DEF Send, Owned
<1>3. HasAdmins /\ alerts[i].mails = 0 /\ ~alerts[i].notified
  BY <1>2 DEF Carries, Notifying
<1>4. /\ a \in Alerts /\ a.mails = 1 /\ a.notified = alerts[i].notified
      /\ a = [alerts[i] EXCEPT !.mails = 1]
  <2>1. alerts[i] \in Alerts
    BY <1>1, Typed
  <2> QED
    BY <1>3, <2>1, FirstMail
<1> HIDE DEF a
<1>5. Becomes(i, a)
  BY <1>1, <1>4, Typed, AlertUpdated
<1>6. Owned'
  <2>1. Carries(pc[r], tick[r])'
    <3>1. alerts'[i] = a
      BY <1>1, <1>5 DEF Becomes
    <3>2. tick'[r].alert = i /\ pc'[r] = "mark"
      BY <1>1
    <3>3. ~alerts'[tick'[r].alert].notified /\ alerts'[tick'[r].alert].mails = 1
      BY <1>3, <1>4, <3>1, <3>2
    <3> QED
      BY <3>2, <3>3 DEF Carries, Notifying
  <2>2. \A q \in Replicas \ {r} : pc[q] \in Notifying =>
          tick[q].alert # i /\ tick[q].alert \in DOMAIN alerts
    BY <1>2, Typed DEF Owned, Types, Has, Notifying
  <2>3. \A q \in Replicas \ {r} : pc[q] \in Notifying =>
          alerts'[tick[q].alert] = alerts[tick[q].alert]
    BY <1>5, <2>2 DEF Becomes
  <2> QED
    BY <1>1, <2>1, <2>2, <2>3, OwnedGoes
<1>7. Book!Mail(i)
  <2>1. alerts' = [alerts EXCEPT ![i].mails = 1]
    BY <1>1, <1>4
  <2> QED
    BY <1>1, <1>3, <2>1 DEF Book!Mail
<1> QED
  BY <1>1, <1>6, <1>7 DEF Book!Next

\* An alert is marked after its mail, or without one for a reason.
LEMMA BookNotes ==
  ASSUME Types, Types', Owned, NEW r \in Replicas, Mark(r)
  PROVE  Owned' /\ [Book!Next]_Book!vars
<1> DEFINE i == tick[r].alert
<1>1. /\ i \in DOMAIN alerts /\ alerts' = [alerts EXCEPT ![i].notified = TRUE]
      /\ pc'[r] = "next" /\ tick' = tick /\ \A q \in Replicas \ {r} : pc'[q] = pc[q]
      /\ budget' = budget /\ budget'.errors <= budget.errors /\ budget' \in Budgets
  <2>1. i \in DOMAIN alerts
    BY MarkDoes
  <2> QED
    BY <2>1, Typed, ErrorsLeft DEF Mark, Types
<1>2. pc[r] = "mark" /\ Carries(pc[r], tick[r])
  BY DEF Mark, Owned
<1>3. ~alerts[i].notified /\ (HasAdmins /\ alerts[i].mails = 0 => budget.errors < MaxErrors)
  BY <1>2 DEF Carries, Notifying
<1>4. Owned'
  <2>1. Carries(pc[r], tick[r])' /\ pc'[r] \notin Notifying
    BY <1>1 DEF Carries, Notifying
  <2>2. \A q \in Replicas \ {r} : pc[q] \in Notifying =>
          tick[q].alert # i /\ tick[q].alert \in DOMAIN alerts
    BY <1>2, Typed DEF Owned, Types, Has, Notifying
  <2>3. \A q \in Replicas \ {r} : pc[q] \in Notifying =>
          alerts'[tick[q].alert] = alerts[tick[q].alert]
    BY <1>1, <2>2
  <2> QED
    BY <1>1, <2>1, <2>2, <2>3, OwnedGoes
<1>5. Book!Note(i)
  BY <1>1, <1>3 DEF Book!Note
<1> QED
  BY <1>1, <1>4, <1>5 DEF Book!Next

\* An alert is resolved, perhaps one another replica notifies of.
LEMMA BookResolves ==
  ASSUME Types, Types', Owned, NEW r \in Replicas, Resolve(r)
  PROVE  Owned' /\ [Book!Next]_Book!vars
<1>1. PICK i \in Stale(tick[r]) :
        /\ GoesOn(r, Dropped(tick[r], i))
        /\ alerts' = [alerts EXCEPT ![i].open = FALSE]
  BY DEF Resolve, GoesOn, Goes, Dropped, Gone
<1>2. tick[r] \in TickType /\ i \in DOMAIN alerts /\ pc[r] = "resolve"
  BY Typed, Fields DEF Stale, Resolve
<1>3. budget' = budget /\ budget'.errors <= budget.errors /\ budget' \in Budgets
  BY ErrorsLeft DEF Resolve, Types
<1>4. Owned'
  <2>1. PICK where \in {"resolve", "create", "next"} : \E x : Goes(r, where, x)
    BY <1>1, AfterListCases DEF GoesOn
  <2>2. /\ Carries(pc[r], tick[r])' /\ pc'[r] \notin Notifying
        /\ \A q \in Replicas \ {r} : pc'[q] = pc[q] /\ tick'[q] = tick[q]
    BY <2>1, Went DEF Carries, Notifying
  <2>3. ASSUME NEW q \in Replicas, pc[q] \in Notifying
        PROVE  /\ alerts'[tick[q].alert].mails = alerts[tick[q].alert].mails
               /\ alerts'[tick[q].alert].notified = alerts[tick[q].alert].notified
    <3>1. tick[q].alert \in DOMAIN alerts
      BY <2>3, Typed DEF Types, Has, Notifying
    <3>2. alerts[i] \in Alerts
      BY <1>2, Typed
    <3> QED
      BY <1>1, <1>2, <3>1, <3>2 DEF Alerts
  <2> QED
    BY <1>3, <2>2, <2>3, OwnedGoes
<1>5. Book!Resolve(i)
  BY <1>1, <1>3 DEF Book!Resolve
<1> QED
  BY <1>2, <1>4, <1>5 DEF Book!Next

\* Listing, a failing statement or mail, the lock and a crash leave the table alone.
LEMMA BookStays ==
  ASSUME Types, Types', Owned, NEW r \in Replicas, TryLock(r) \/ Work(r) \/ Failure(r),
         ~Create(r), ~Send(r), ~Mark(r), ~Resolve(r)
  PROVE  Owned' /\ [Book!Next]_Book!vars
<1>1. /\ alerts' = alerts /\ budget' \in Budgets
      /\ \/ budget' = budget
         \/ SpendError
         \/ Crash(r) \/ LoseLock(r)
  BY DEF TryLock, Work, Failure, EvaluateUnits, Stamp, ListOpen, Recipients, Unlock,
         EvaluateUnitsFails, ListOpenFails, ResolveFails, GiveUp, RecipientsFail, Crash, LoseLock,
         Types
<1>2. /\ budget'.errors <= budget.errors
      /\ budget'.errors = budget.errors \/ budget'.errors < MaxErrors
  BY <1>1, ErrorsLeft
<1>3. [Book!Next]_Book!vars
  <2>1. CASE budget'.errors = budget.errors
    BY <1>1, <2>1 DEF Book!vars
  <2>2. CASE budget'.errors < MaxErrors
    BY <1>1, <2>2 DEF Book!Next, Book!Fail
  <2> QED
    BY <1>2, <2>1, <2>2
<1>4. \A q \in Replicas \ {r} : pc'[q] = pc[q] /\ tick'[q] = tick[q]
  BY Typed DEF TryLock, Work, Failure, EvaluateUnits, Stamp, ListOpen, Recipients, Unlock,
         EvaluateUnitsFails, ListOpenFails, ResolveFails, GiveUp, RecipientsFail, Crash, LoseLock
<1>5. \/ pc'[r] \notin Notifying
      \/ /\ pc[r] \in Notifying /\ tick'[r] = tick[r]
         /\ \/ pc'[r] = pc[r]
            \/ pc'[r] = "send" /\ HasAdmins /\ pc[r] = "recipients"
            \/ pc'[r] = "mark" /\ (~HasAdmins \/ budget'.errors < MaxErrors)
  <2>1. CASE ListOpen(r)
    <3>1. PICK x : GoesOn(r, x)
      BY <2>1, ListOpenDoes
    <3> QED
      BY <3>1, Went, AfterListCases DEF GoesOn, Notifying
  <2>2. CASE ResolveFails(r)
    <3>1. PICK x : GoesOn(r, x)
      BY <2>2, ResolveFailsDoes
    <3> QED
      BY <3>1, Went, AfterListCases DEF GoesOn, Notifying
  <2>3. CASE Recipients(r)
    BY <2>3, Typed DEF Recipients, Notifying
  <2>4. CASE RecipientsFail(r)
    BY <2>4, ErrorsLeft, Typed DEF RecipientsFail, Notifying
  <2>5. CASE LoseLock(r)
    BY <2>5 DEF LoseLock
  <2>6. CASE TryLock(r) \/ EvaluateUnits(r) \/ Stamp(r) \/ Unlock(r)
    BY <2>6, Typed DEF TryLock, EvaluateUnits, Stamp, Unlock, Notifying
  <2>7. CASE EvaluateUnitsFails(r) \/ ListOpenFails(r) \/ GiveUp(r) \/ Crash(r)
    BY <2>7, Typed DEF EvaluateUnitsFails, ListOpenFails, GiveUp, Crash, Notifying
  <2> QED
    BY <2>1, <2>2, <2>3, <2>4, <2>5, <2>6, <2>7 DEF Work, Failure
<1>6. Carries(pc[r], tick[r])'
  <2>1. Carries(pc[r], tick[r])
    BY DEF Owned
  <2>2. budget.errors < MaxErrors => budget'.errors < MaxErrors
    BY <1>2
  <2> QED
    BY <1>1, <1>5, <2>1, <2>2 DEF Carries, Notifying
<1>7. \A q \in Replicas \ {r} : pc[q] \in Notifying =>
        (pc'[r] \in Notifying => tick[q].alert # tick'[r].alert)
  BY <1>5 DEF Owned
<1>8. Owned'
  BY <1>1, <1>2, <1>4, <1>6, <1>7, OwnedGoes
<1> QED
  BY <1>3, <1>8

\* Every step is one of the book's or leaves the book alone, whoever holds the lock.
LEMMA BookStep ==
  Types /\ Types' /\ Owned /\ [Next]_vars => Owned' /\ [Book!Next]_Book!vars
<1> SUFFICES ASSUME Types, Types', Owned, [Next]_vars PROVE Owned' /\ [Book!Next]_Book!vars
  OBVIOUS
<1>1. ASSUME UNCHANGED <<alerts, pc, tick, budget>> PROVE Owned' /\ UNCHANGED Book!vars
  BY <1>1 DEF Owned, Carries, Book!vars
<1>2. ASSUME NEW r \in Replicas, TryLock(r) \/ Work(r) \/ Failure(r)
      PROVE  Owned' /\ [Book!Next]_Book!vars
  BY <1>2, BookOpens, BookMails, BookNotes, BookResolves, BookStays
<1>3. CASE Advance \/ (\E u \in Units : Arrive(u)) \/ UNCHANGED vars
  BY <1>1, <1>3 DEF Advance, Arrive, vars
<1> QED
  BY <1>2, <1>3 DEF Next

\* Whatever fails, crashes or loses its lock, the alerts are an alert book: one open for
\* a unit and kind, at most one mail each, and no mark without a mail or a reason.
THEOREM BookKept == Spec => ImplementsAlertBook
<1>1. Init => Owned /\ Book!Init
  BY ConstantsOK DEF Init, Owned, Carries, Notifying, Book!Init, ConstantsOK
<1>2. Types /\ Types' /\ Owned /\ [Next]_vars => Owned' /\ [Book!Next]_Book!vars
  BY BookStep
<1> QED
  BY <1>1, <1>2, TypesAlways, PTL DEF Spec, ImplementsAlertBook, Book!Spec
=============================================================================
