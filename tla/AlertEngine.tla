----------------------------- MODULE AlertEngine -----------------------------
(***************************************************************************)
(* The alert engine of backend/internal/alerts/engine.go, as every API     *)
(* replica runs it, with the store calls it makes. On each tick a replica  *)
(* tries the leader lock, reads the latest reading of every unit, and      *)
(* reconciles the open alerts of one unit after the other; each statement  *)
(* and each mail is a step, so readings arrive, time passes and replicas   *)
(* crash in between.                                                       *)
(***************************************************************************)
EXTENDS Integers, Sequences, FiniteSets

CONSTANTS
    Replicas,        \* API processes
    NoReplica,       \* leader when nobody holds the lock
    Units,           \* monitored units
    Temps,           \* temperatures the sensors report
    MinTemp,         \* a unit's safe range ...
    MaxTemp,
    LogInterval,     \* ... and how old its latest reading may be
    HasAdmins,       \* whether the organization has an admin to mail
    MaxNow,          \* bound: the clock stops here
    MaxReadings,     \* bound: readings that arrive
    MaxErrors,       \* bound: failing database calls and mails
    MaxCrashes,      \* bound: crashes of a replica during a tick
    MaxLockLosses    \* bound: leader connections lost under a running tick

ASSUME ConstantsOK ==
    /\ NoReplica \notin Replicas
    /\ Temps \subseteq Int /\ MinTemp \in Int /\ MaxTemp \in Int
    /\ LogInterval \in Nat
    /\ HasAdmins \in BOOLEAN
    /\ {MaxNow, MaxReadings, MaxErrors, MaxCrashes, MaxLockLosses} \subseteq Nat

VARIABLES
    now,       \* the clock
    latest,    \* latest[u]: the newest reading of u, or NoReading
    readings,  \* how many readings arrived
    alerts,    \* the alerts table, in order of creation
    leader,    \* the session holding the leader lock
    pc,        \* pc[r]: what the engine of r does next
    tick,      \* tick[r]: the local variables of evaluate and reconcile
    budget,    \* what may still fail: [errors, crashes, losses]
    mails      \* history: mails[u]: mails about u since it last changed status

world == <<now, latest, readings>>
vars == <<world, alerts, leader, pc, tick, budget, mails>>

NoReading == [temp |-> MinTemp - 1, at |-> -1]

\* ComputeStatus of a latest reading at time t.
ComputeStatus(reading, t) ==
    CASE reading = NoReading -> "no_data"
      [] reading # NoReading /\ (reading.temp < MinTemp \/ reading.temp > MaxTemp)
           -> "out_of_range"
      [] reading # NoReading /\ reading.temp \in MinTemp .. MaxTemp
           -> IF t - reading.at > LogInterval THEN "overdue" ELSE "ok"

Kinds == {"out_of_range", "overdue"}

\* What the board shows for u now.
Status(u) == ComputeStatus(latest[u], now)

Pcs == {"idle", "query", "stamp", "next", "resolve", "create", "recipients",
        "send", "mark"}

\* snap: the result of EvaluateUnits; now: evaluate's clock reading; todo: the
\* units not reconciled yet; unit, open, alert: reconcile's variables; ok,
\* clean: no error met in this unit, and the units reconciled without one
\* (history).
NoTick == [snap |-> [u \in Units |-> NoReading], now |-> 0, todo |-> {},
           unit |-> "none", open |-> {}, alert |-> 0, ok |-> TRUE, clean |-> {}]

Init ==
    /\ now = 0
    /\ latest = [u \in Units |-> NoReading]
    /\ readings = 0
    /\ alerts = <<>>
    /\ leader = NoReplica
    /\ pc = [r \in Replicas |-> "idle"]
    /\ tick = [r \in Replicas |-> NoTick]
    /\ budget = [errors |-> MaxErrors, crashes |-> MaxCrashes, losses |-> MaxLockLosses]
    /\ mails = [u \in Units |-> 0]

-----------------------------------------------------------------------------
(* The world: time passes, readings arrive.                                *)

\* A unit whose status changes starts a new episode.
NewEpisodes ==
    mails' = [u \in Units |-> IF Status(u)' = Status(u) THEN mails[u] ELSE 0]

Advance ==
    /\ now < MaxNow
    /\ now' = now + 1
    /\ UNCHANGED <<latest, readings, alerts, leader, pc, tick, budget>>
    /\ NewEpisodes

\* A reading becomes the latest if none was measured later (it may itself have
\* been measured earlier and buffered); of two at one time either may win.
Arrive(u) ==
    /\ readings < MaxReadings
    /\ readings' = readings + 1
    /\ \E t \in Temps, at \in 0 .. now :
        /\ at >= latest[u].at
        /\ latest' = [latest EXCEPT ![u] = [temp |-> t, at |-> at]]
    /\ UNCHANGED <<now, alerts, leader, pc, tick, budget>>
    /\ NewEpisodes

-----------------------------------------------------------------------------
(* The engine.                                                             *)

OpenAlerts(u) == {i \in DOMAIN alerts : alerts[i].unit = u /\ alerts[i].open}

\* The problem tick x sees in its unit; "ok" and "no_data" are none.
Problem(x) == ComputeStatus(x.snap[x.unit], x.now)

\* Mutant: any status but ok is a problem, "no_data" too.
HasProblemNotOk(x) == Problem(x) # "ok"

HasProblem(x) == Problem(x) \in Kinds

\* Mutants: every listed alert is resolved, the current one too; alerts are
\* resolved only on recovery, not when the problem changes kind.
StaleAll(x) == x.open
StaleOnRecovery(x) == {i \in x.open : ~HasProblem(x)}

\* The open alerts reconcile resolves: the condition cleared or changed kind.
Stale(x) == {i \in x.open : ~HasProblem(x) \/ alerts[i].kind # Problem(x)}

HasCurrent(x) == \E i \in x.open : HasProblem(x) /\ alerts[i].kind = Problem(x)

\* The rest of reconcile, when x.open are the listed alerts it has not resolved.
AfterList(x) ==
    CASE Stale(x) # {} -> "resolve"
      [] Stale(x) = {} /\ HasProblem(x) /\ ~HasCurrent(x) -> "create"
      [] Stale(x) = {} /\ (~HasProblem(x) \/ HasCurrent(x)) -> "next"

\* Mutant: every replica evaluates.
LockIgnored == TRUE

LockFree == leader = NoReplica

\* A tick starts: pg_try_advisory_lock succeeds. A tick that finds the lock
\* taken changes nothing.
TryLock(r) ==
    /\ pc[r] = "idle"
    /\ LockFree
    /\ leader' = r
    /\ pc' = [pc EXCEPT ![r] = "query"]
    /\ UNCHANGED <<world, alerts, tick, budget, mails>>

\* EvaluateUnits: one statement, one snapshot.
EvaluateUnits(r) ==
    /\ pc[r] = "query"
    /\ tick' = [tick EXCEPT ![r].snap = latest]
    /\ pc' = [pc EXCEPT ![r] = "stamp"]
    /\ UNCHANGED <<world, alerts, leader, budget, mails>>

\* now := time.Now(), after the query has returned.
Stamp(r) ==
    /\ pc[r] = "stamp"
    /\ tick' = [tick EXCEPT ![r].now = now, ![r].todo = Units]
    /\ pc' = [pc EXCEPT ![r] = "next"]
    /\ UNCHANGED <<world, alerts, leader, budget, mails>>

\* Reconciling x's unit is over.
Reconciled(x) == IF x.ok THEN [x EXCEPT !.clean = @ \cup {x.unit}] ELSE x

\* reconcile of the next unit begins: ListOpenAlertsForUnit.
ListOpen(r) ==
    /\ pc[r] = "next"
    /\ \E u \in tick[r].todo :
        LET x == [tick[r] EXCEPT !.todo = @ \ {u}, !.unit = u, !.ok = TRUE,
                                   !.open = OpenAlerts(u)]
        IN  /\ tick' = [tick EXCEPT ![r] = IF AfterList(x) = "next" THEN Reconciled(x) ELSE x]
            /\ pc' = [pc EXCEPT ![r] = AfterList(x)]
    /\ UNCHANGED <<world, alerts, leader, budget, mails>>

\* ResolveAlert of one of them.
Resolve(r) ==
    /\ pc[r] = "resolve"
    /\ \E i \in Stale(tick[r]) :
        LET x == [tick[r] EXCEPT !.open = @ \ {i}]
        IN  /\ alerts' = [alerts EXCEPT ![i].open = FALSE]
            /\ tick' = [tick EXCEPT ![r] = IF AfterList(x) = "next" THEN Reconciled(x) ELSE x]
            /\ pc' = [pc EXCEPT ![r] = AfterList(x)]
    /\ UNCHANGED <<world, leader, budget, mails>>

\* Mutant: an index on the open alerts that is not unique.
IndexNotUnique(u, kind) == TRUE

\* The partial unique index idx_alerts_open.
IndexAllows(u, kind) == ~\E i \in OpenAlerts(u) : alerts[i].kind = kind

\* CreateAlert; a duplicate is an error, logged.
Create(r) ==
    /\ pc[r] = "create"
    /\ LET x == tick[r]
           a == [unit |-> x.unit, kind |-> Problem(x), open |-> TRUE,
                 notified |-> FALSE, mails |-> 0]
       IN  IF IndexAllows(x.unit, Problem(x))
           THEN /\ alerts' = Append(alerts, a)
                /\ tick' = [tick EXCEPT ![r] = [Reconciled(x) EXCEPT !.alert = Len(alerts) + 1]]
                /\ pc' = [pc EXCEPT ![r] = "recipients"]
           ELSE /\ pc' = [pc EXCEPT ![r] = "next"]
                /\ UNCHANGED <<alerts, tick>>
    /\ UNCHANGED <<world, leader, budget, mails>>

\* AdminEmailsByOrg; nobody to mail counts as notified.
Recipients(r) ==
    /\ pc[r] = "recipients"
    /\ pc' = [pc EXCEPT ![r] = IF HasAdmins THEN "send" ELSE "mark"]
    /\ UNCHANGED <<world, alerts, leader, tick, budget, mails>>

\* mailer.Send succeeds; mails are counted for the alert and, if the
\* unit is still in that trouble, for the episode.
Send(r) ==
    /\ pc[r] = "send"
    /\ LET i == tick[r].alert
           u == alerts[i].unit
       IN  /\ alerts' = [alerts EXCEPT ![i].mails = @ + 1]
           /\ mails' = [mails EXCEPT ![u] =
                          IF Status(u) = alerts[i].kind THEN @ + 1 ELSE @]
    /\ pc' = [pc EXCEPT ![r] = "mark"]
    /\ UNCHANGED <<world, leader, tick, budget>>

\* MarkAlertNotified.
Mark(r) ==
    /\ pc[r] = "mark"
    /\ alerts' = [alerts EXCEPT ![tick[r].alert].notified = TRUE]
    /\ pc' = [pc EXCEPT ![r] = "next"]
    /\ UNCHANGED <<world, leader, tick, budget, mails>>

FreeLock(r) == leader' = IF leader = r THEN NoReplica ELSE leader

\* evaluate has returned: the deferred pg_advisory_unlock.
Unlock(r) ==
    /\ pc[r] = "next" /\ tick[r].todo = {}
    /\ FreeLock(r)
    /\ pc' = [pc EXCEPT ![r] = "idle"]
    /\ tick' = [tick EXCEPT ![r] = NoTick]
    /\ UNCHANGED <<world, alerts, budget, mails>>

-----------------------------------------------------------------------------
(* Failures.                                                               *)

SpendError ==
    /\ budget.errors > 0
    /\ budget' = [budget EXCEPT !.errors = @ - 1]

\* EvaluateUnits fails: the tick ends.
EvaluateUnitsFails(r) ==
    /\ pc[r] = "query"
    /\ SpendError
    /\ FreeLock(r)
    /\ pc' = [pc EXCEPT ![r] = "idle"]
    /\ UNCHANGED <<world, alerts, tick, mails>>

\* Listing fails: reconcile gives up on the unit.
ListOpenFails(r) ==
    /\ pc[r] = "next"
    /\ SpendError
    /\ \E u \in tick[r].todo : tick' = [tick EXCEPT ![r].todo = @ \ {u}, ![r].unit = u]
    /\ UNCHANGED <<world, alerts, leader, pc, mails>>

\* A failed resolve is logged and reconcile goes on.
ResolveFails(r) ==
    /\ pc[r] = "resolve"
    /\ SpendError
    /\ \E i \in Stale(tick[r]) :
        LET x == [tick[r] EXCEPT !.open = @ \ {i}, !.ok = FALSE]
        IN  /\ tick' = [tick EXCEPT ![r] = x]
            /\ pc' = [pc EXCEPT ![r] = AfterList(x)]
    /\ UNCHANGED <<world, alerts, leader, mails>>

\* A failed insert, mail or mark: reconcile is done with the unit.
GiveUp(r) ==
    /\ pc[r] \in {"create", "send", "mark"}
    /\ SpendError
    /\ pc' = [pc EXCEPT ![r] = "next"]
    /\ UNCHANGED <<world, alerts, leader, tick, mails>>

\* The recipients query fails: logged, and taken for nobody to mail.
RecipientsFail(r) ==
    /\ pc[r] = "recipients"
    /\ SpendError
    /\ pc' = [pc EXCEPT ![r] = "mark"]
    /\ UNCHANGED <<world, alerts, leader, tick, mails>>

\* The process dies; Postgres drops its session and with it the lock.
Crash(r) ==
    /\ pc[r] # "idle"
    /\ budget.crashes > 0
    /\ budget' = [budget EXCEPT !.crashes = @ - 1]
    /\ FreeLock(r)
    /\ pc' = [pc EXCEPT ![r] = "idle"]
    /\ tick' = [tick EXCEPT ![r] = NoTick]
    /\ UNCHANGED <<world, alerts, mails>>

\* The connection that holds the lock drops while the tick goes on.
LoseLock(r) ==
    /\ leader = r
    /\ budget.losses > 0
    /\ budget' = [budget EXCEPT !.losses = @ - 1]
    /\ leader' = NoReplica
    /\ UNCHANGED <<world, alerts, pc, tick, mails>>

-----------------------------------------------------------------------------
Work(r) ==
    \/ EvaluateUnits(r) \/ Stamp(r) \/ ListOpen(r) \/ Resolve(r) \/ Create(r)
    \/ Recipients(r) \/ Send(r) \/ Mark(r) \/ Unlock(r)

Failure(r) ==
    \/ EvaluateUnitsFails(r) \/ ListOpenFails(r) \/ ResolveFails(r) \/ GiveUp(r)
    \/ RecipientsFail(r) \/ Crash(r) \/ LoseLock(r)

Next ==
    \/ Advance
    \/ \E u \in Units : Arrive(u)
    \/ \E r \in Replicas : TryLock(r) \/ Work(r) \/ Failure(r)

Spec == Init /\ [][Next]_vars

\* The ticker of every replica fires again and again and what it starts goes on.
FairSpec == Spec /\ \A r \in Replicas : WF_vars(TryLock(r)) /\ WF_vars(Work(r))

-----------------------------------------------------------------------------
(* Properties.                                                             *)

TickType ==
    [snap : [Units -> [temp : Temps \cup {NoReading.temp}, at : -1 .. MaxNow]],
     now : 0 .. MaxNow, todo : SUBSET Units, unit : Units \cup {"none"},
     open : SUBSET DOMAIN alerts, alert : 0 .. Len(alerts), ok : BOOLEAN,
     clean : SUBSET Units]

\* Types, and that whoever is past a statement has what it returned.
TypeOK ==
    /\ now \in 0 .. MaxNow
    /\ readings \in 0 .. MaxReadings
    /\ \A u \in Units : latest[u] = NoReading \/ latest[u] \in [temp : Temps, at : 0 .. now]
    /\ alerts \in Seq([unit : Units, kind : Kinds, open : BOOLEAN,
                      notified : BOOLEAN, mails : Nat])
    /\ leader \in Replicas \cup {NoReplica}
    /\ pc \in [Replicas -> Pcs]
    /\ tick \in [Replicas -> TickType]
    /\ \A r \in Replicas : pc[r] \in {"send", "mark"} => tick[r].alert # 0

OpenKinds(u) == {alerts[i].kind : i \in OpenAlerts(u)}
ProblemKinds(status) == Kinds \cap {status}

\* No leader has lost its lock in the middle of a tick.
NotLost == budget.losses = MaxLockLosses

\* Until a leader loses its lock, replicas that tick at the same time never open
\* the same alert twice: the unique index is never what stops them.
CreateNeverConflicts ==
    NotLost => \A r \in Replicas :
        pc[r] = "create" => IndexAllows(tick[r].unit, Problem(tick[r]))

\* A sustained fault notifies once: however ticks, late readings, failures and
\* crashes of several replicas interleave, a unit that stays in one trouble
\* costs the admins at most one mail, until a leader loses its lock.
OneMailPerEpisode == NotLost => \A u \in Units : mails[u] <= 1

\* What a tick leaves behind: each unit it reconciled without an error has an
\* open alert for the problem the tick saw and no other, although earlier ticks
\* may have crashed or failed half way; until a leader loses its lock.
TickSettles ==
    NotLost => \A r \in Replicas : \A u \in tick[r].clean :
        OpenKinds(u) = ProblemKinds(ComputeStatus(tick[r].snap[u], tick[r].now))

\* Lock or no lock, crash or not, the table of alerts is an AlertBook: what the lock
\* does not see to, the unique index and the order of notify's statements do.
Book == INSTANCE AlertBook WITH
            Mailable <- HasAdmins, failed <- budget.errors < MaxErrors

ImplementsAlertBook == Book!Spec

\* Once the world is quiet, alerts agree with the board: every problem shown
\* has its alert and every recovered unit none, after any failures.
AlertsConverge == <>[](\A u \in Units : OpenKinds(u) = ProblemKinds(Status(u)))

\* Every alert that opens is mailed before it is resolved.
AlertMailed(i) == i \in DOMAIN alerts /\ alerts[i].mails > 0
AlertPending(i) == i \in DOMAIN alerts /\ alerts[i].open
EveryAlertMailed == \A i \in 1 .. 2 : AlertPending(i) ~> AlertMailed(i) \/ ~AlertPending(i)
=============================================================================
