------------------------------ MODULE Records ------------------------------
(***************************************************************************)
(* What readers make of the records while they are written: the board, the *)
(* compliance report and the analytics each put a page together from       *)
(* several statements without a snapshot, while units are created, sensors *)
(* bound and moved, readings stored late, alerts opened and resolved and   *)
(* corrective actions recorded. One location of one organization. The      *)
(* insert of a reading is one step here: ReadingChain shows it is one.     *)
(***************************************************************************)
EXTENDS Integers, Sequences, FiniteSets, FiniteSetsExt

CONSTANTS
    Units, Macs,      \* units and sensors
    None,             \* no sensor, or a date that is not given
    Temps,            \* temperatures
    Kinds,            \* kinds of alerts: "out_of_range", "overdue"
    SafeMin, SafeMax, \* the safe range of every unit
    Interval,         \* log_interval_minutes
    Day,              \* ticks of a day
    Asked,            \* from and to a reader may ask for, besides None
    Skew,             \* how far a gateway's clock may be ahead
    MaxNow, MaxReadings, MaxAlerts, MaxActions   \* bounds

ASSUME ConstantsOK ==
    /\ SafeMin \in Int /\ SafeMax \in Int /\ SafeMin < SafeMax /\ Temps \subseteq Int
    /\ Interval \in Nat \ {0} /\ Day \in Nat \ {0} /\ Asked \subseteq Int
    /\ {Skew, MaxNow, MaxReadings, MaxAlerts, MaxActions} \subseteq Nat
    /\ None \notin Macs \cup Asked

VARIABLES
    now,        \* the clock of API and database
    units,      \* each unit there is, with its sensor or None
    readings,   \* readings in the order of the chain
    alerts,     \* alerts in the order they were opened
    actions,    \* corrective actions: the alert of each
    ingest,     \* the reading a gateway's request is at
    reader,     \* the request that reads
    left        \* history: when a unit last had a sensor that was taken from it

tables == <<now, units, readings, alerts, actions>>
vars == <<tables, ingest, reader, left>>

NoIngest == [pc |-> "none"]
NoReader == [kind |-> "none"]

Init ==
    /\ now = 0 /\ units = <<>> /\ readings = <<>> /\ alerts = <<>> /\ actions = <<>>
    /\ ingest = NoIngest /\ reader = NoReader
    /\ left = [u \in Units |-> [m \in Macs |-> -1]]

Tick == now < MaxNow /\ now' = now + 1 /\ UNCHANGED <<units, readings, alerts, actions, ingest, reader, left>>

-----------------------------------------------------------------------------
(* Units and their sensors.                                                *)

CreateUnit(u) ==
    /\ u \notin DOMAIN units
    /\ units' = [x \in DOMAIN units \cup {u} |-> IF x = u THEN None ELSE units[x]]
    /\ UNCHANGED <<now, readings, alerts, actions, ingest, reader, left>>

\* Mutant: no unique index on org_id, sensor_mac.
BoundTwice(u, m) == TRUE

\* idx_units_org_mac
Bindable(u, m) == m = None \/ \A v \in DOMAIN units \ {u} : units[v] # m

\* An empty MAC takes the sensor from the unit.
SetUnitSensorMAC(u, m) ==
    /\ Bindable(u, m) /\ units[u] # m
    /\ units' = [units EXCEPT ![u] = m]
    /\ left' = IF units[u] = None THEN left ELSE [left EXCEPT ![u][units[u]] = now]
    /\ UNCHANGED <<now, readings, alerts, actions, ingest, reader>>

-----------------------------------------------------------------------------
(* Readings, by hand and by handleIngestReadings.                          *)

Store(u, temp, at, m) ==
    /\ Len(readings) < MaxReadings
    /\ readings' = Append(readings, [unit |-> u, temp |-> temp, at |-> at, mac |-> m])

CreateReading(u, temp) ==
    /\ Store(u, temp, now, None)
    /\ UNCHANGED <<now, units, alerts, actions, ingest, reader, left>>

\* Mutant: a timestamp of the future is stored as it is.
AsMeasured(measured) == measured

NoLaterThanNow(measured) == IF measured > now THEN now ELSE measured

\* A reading comes with the time it was measured at, buffered or just now.
IngestReading(m, temp, measured) ==
    /\ ingest.pc = "none"
    /\ ingest' = [pc |-> "lookup", mac |-> m, temp |-> temp, at |-> NoLaterThanNow(measured)]
    /\ UNCHANGED <<tables, reader, left>>

\* Mutant: a sensor is remembered by the unit it was taken from.
UnitsRemembered(m) == {u \in DOMAIN units : units[u] = m \/ left[u][m] >= 0}

UnitByMAC(m) == {u \in DOMAIN units : units[u] = m}

\* A sensor that is bound to no unit is ignored.
IngestLookup ==
    /\ ingest.pc = "lookup"
    /\ \/ \E u \in UnitByMAC(ingest.mac) :
            ingest' = [pc |-> "store", mac |-> ingest.mac, temp |-> ingest.temp,
                       at |-> ingest.at, unit |-> u]
       \/ UnitByMAC(ingest.mac) = {} /\ ingest' = NoIngest
    /\ UNCHANGED <<tables, reader, left>>

IngestStore ==
    /\ ingest.pc = "store"
    /\ Store(ingest.unit, ingest.temp, ingest.at, ingest.mac)
    /\ ingest' = NoIngest
    /\ UNCHANGED <<now, units, alerts, actions, reader, left>>

-----------------------------------------------------------------------------
(* Alerts, as the engine opens and resolves them, and corrective actions.  *)

OpenAlert(u, kind) ==
    /\ Len(alerts) < MaxAlerts
    /\ \E i \in DOMAIN readings : readings[i].unit = u
    /\ \A i \in DOMAIN alerts : ~(alerts[i].open /\ alerts[i].unit = u /\ alerts[i].kind = kind)
    /\ alerts' = Append(alerts, [unit |-> u, kind |-> kind, at |-> now, open |-> TRUE])
    /\ UNCHANGED <<now, units, readings, actions, ingest, reader, left>>

ResolveAlert(i) ==
    /\ alerts[i].open
    /\ alerts' = [alerts EXCEPT ![i].open = FALSE]
    /\ UNCHANGED <<now, units, readings, actions, ingest, reader, left>>

\* AlertByID, then CreateCorrectiveAction: no alert is ever deleted.
CreateCorrectiveAction(i) ==
    /\ Len(actions) < MaxActions
    /\ actions' = Append(actions, i)
    /\ UNCHANGED <<now, units, readings, alerts, ingest, reader, left>>

Documented == {i \in DOMAIN alerts : \E a \in DOMAIN actions : actions[a] = i}

-----------------------------------------------------------------------------
(* The readers, each a sequence of statements.                             *)

\* Mutant: the chain is verified before the readings are listed.
VerifyFirst(kind) == <<"units", "verify", "readings", "alerts", "actions">>

Statements(kind) ==
    CASE kind = "board" -> <<"units", "latest", "clock">>
      [] kind = "report" -> <<"units", "readings", "alerts", "actions", "verify">>
      [] kind = "analytics" -> <<"rollup", "deviations", "trend">>

\* dateRange: until now or to the end of the day asked for, from seven days before.
DateRange(from, to) ==
    LET end == IF to = None THEN now ELSE to + Day
    IN  <<IF from = None THEN end - 7 * Day ELSE from, end>>

\* How many readings, alerts and actions there are is kept as history.
Begin(kind, from, to) ==
    /\ reader.kind = "none"
    /\ LET w == DateRange(from, to)
       IN  reader' = [kind |-> kind, pc |-> 1, from |-> w[1], to |-> w[2],
                      since |-> Len(readings), opened |-> Len(alerts), acted |-> Len(actions)]
    /\ UNCHANGED <<tables, ingest, left>>

InWindow(at) == reader.from <= at /\ at < reader.to
WindowReadings == {i \in DOMAIN readings : InWindow(readings[i].at)}
WindowAlerts == {i \in DOMAIN alerts : InWindow(alerts[i].at)}

\* The statement the reader is at, and what it adds to what the reader has.
At(statement) ==
    /\ reader.kind # "none" /\ reader.pc <= Len(Statements(reader.kind))
    /\ Statements(reader.kind)[reader.pc] = statement

Reads(result) ==
    /\ reader' = [f \in DOMAIN reader \cup DOMAIN result |->
                    IF f \in DOMAIN result THEN result[f]
                    ELSE IF f = "pc" THEN reader.pc + 1 ELSE reader[f]]
    /\ UNCHANGED <<tables, ingest, left>>

ListUnits == At("units") /\ Reads([units |-> DOMAIN units])

\* DISTINCT ON: any of the readings with the latest recorded_at.
Latest(u) ==
    {i \in DOMAIN readings : readings[i].unit = u
        /\ \A j \in DOMAIN readings : readings[j].unit = u => readings[j].at <= readings[i].at}

WithReading == {u \in DOMAIN units : \E i \in DOMAIN readings : readings[i].unit = u}

LatestByLocation ==
    /\ At("latest")
    /\ \E f \in [WithReading -> DOMAIN readings] :
        (\A u \in WithReading : f[u] \in Latest(u)) /\ Reads([latest |-> f])

ReadClock == At("clock") /\ Reads([now |-> now])

ListReadings == At("readings") /\ Reads([rows |-> WindowReadings])

\* Documented is kept as history.
ListAlerts == At("alerts") /\ Reads([alerts |-> WindowAlerts, documented |-> Documented])

ListActions == At("actions") /\ Reads([actions |-> WindowAlerts \cap Documented])

VerifyChain == At("verify") /\ Reads([count |-> Len(readings)])

Rollup == At("rollup") /\ Reads([units |-> DOMAIN units, rows |-> WindowReadings])

\* Mutant: an alert that is resolved needs no action.
OpenUndocumented == {i \in WindowAlerts \ Documented : alerts[i].open}

WindowUndocumented == WindowAlerts \ Documented

CountDeviations ==
    At("deviations") /\ Reads([deviations |-> WindowAlerts,
        undocumented |-> {i \in WindowUndocumented : alerts[i].kind = "out_of_range"}])

CountDays == At("trend") /\ Reads([trend |-> WindowReadings])

Read ==
    \/ ListUnits \/ LatestByLocation \/ ReadClock \/ ListReadings \/ ListAlerts \/ ListActions
    \/ VerifyChain \/ Rollup \/ CountDeviations \/ CountDays

Next ==
    \/ Tick
    \/ \E u \in Units : CreateUnit(u)
    \/ \E u \in DOMAIN units, m \in Macs \cup {None} : SetUnitSensorMAC(u, m)
    \/ \E u \in DOMAIN units, temp \in Temps : CreateReading(u, temp)
    \/ \E m \in Macs, temp \in Temps, t \in 0..(now + Skew) : IngestReading(m, temp, t)
    \/ IngestLookup \/ IngestStore
    \/ \E u \in DOMAIN units, kind \in Kinds : OpenAlert(u, kind)
    \/ \E i \in DOMAIN alerts : ResolveAlert(i) \/ CreateCorrectiveAction(i)
    \/ Begin("board", None, None)
    \/ \E kind \in {"report", "analytics"}, from, to \in Asked \cup {None} : Begin(kind, from, to)
    \/ Read

Spec == Init /\ [][Next]_vars

-----------------------------------------------------------------------------
(* The pages.                                                              *)

Done(kind) == reader.kind = kind /\ reader.pc > Len(Statements(kind))

OutOfRange(temp, lo, hi) == temp < lo \/ temp > hi

\* ComputeStatus of a unit on the board.
Status(u) ==
    IF u \notin DOMAIN reader.latest THEN "no_data"
    ELSE LET r == readings[reader.latest[u]]
         IN  IF OutOfRange(r.temp, SafeMin, SafeMax) THEN "out_of_range"
             ELSE IF reader.now - r.at > Interval THEN "overdue"
             ELSE "ok"

\* The status printed in a row of the report: a unit that was not listed has
\* Go's zero values for its range.
RowOk(i) ==
    IF readings[i].unit \in reader.units
    THEN ~OutOfRange(readings[i].temp, SafeMin, SafeMax)
    ELSE ~OutOfRange(readings[i].temp, 0, 0)

\* Deviations printed with "No corrective action recorded."
PrintedUndocumented == reader.alerts \ reader.actions

\* The deviations beside a unit that was listed with the readings.
OfUnit(u) == Cardinality({i \in reader.deviations : alerts[i].unit = u})

Truncated(from) == (from \div Day) * Day

\* buildTrend: the days from the window's first on, while they begin before its end.
Buckets(from, to) ==
    LET first == Truncated(from)
    IN  {(first + k * Day) \div Day : k \in {k \in 0..(to - first) : first + k * Day < to}}

OnDay(d) == Cardinality({i \in reader.trend : readings[i].at \div Day = d})

-----------------------------------------------------------------------------
(* Properties.                                                             *)

\* Types, references, one unit for a sensor and one open alert for a unit and kind.
TypeOK ==
    /\ now \in 0..MaxNow
    /\ DOMAIN units \subseteq Units /\ \A u \in DOMAIN units : units[u] \in Macs \cup {None}
    /\ \A u, v \in DOMAIN units : units[u] = units[v] /\ units[u] # None => u = v
    /\ \A i \in DOMAIN readings :
        readings[i] \in [unit : DOMAIN units, temp : Temps, at : 0..(MaxNow + Skew), mac : Macs \cup {None}]
    /\ \A i, j \in DOMAIN alerts :
        /\ alerts[i] \in [unit : DOMAIN units, kind : Kinds, at : 0..now, open : BOOLEAN]
        /\ alerts[i].open /\ alerts[j].open /\ alerts[i].unit = alerts[j].unit
           /\ alerts[i].kind = alerts[j].kind => i = j
    /\ \A a \in DOMAIN actions : actions[a] \in DOMAIN alerts
    /\ ingest.pc \in {"none", "lookup", "store"}
    /\ reader.kind # "none" =>
        /\ reader.pc \in 1..6 /\ reader.since \in 0..Len(readings)
        /\ reader.opened \in 0..Len(alerts) /\ reader.acted \in 0..Len(actions)

\* What the board shows can be trusted whatever arrives late or while it reads:
\* ok means a safe reading of the last interval; no data and overdue mean that no
\* reading, or none of the last interval, was there when the request came.
BoardTruthful ==
    Done("board") => \A u \in reader.units :
        LET of(i) == readings[i].unit = u
            fresh(i) == 0 <= reader.now - readings[i].at /\ reader.now - readings[i].at <= Interval
        IN  /\ Status(u) = "ok" =>
                \E i \in DOMAIN readings :
                    of(i) /\ fresh(i) /\ ~OutOfRange(readings[i].temp, SafeMin, SafeMax)
            /\ Status(u) = "no_data" => \A i \in 1..reader.since : ~of(i)
            /\ Status(u) = "overdue" => \A i \in 1..reader.since : ~(of(i) /\ fresh(i))

\* The report's integrity line counts every reading the report prints.
IntegrityCoversRows == Done("report") => reader.rows \subseteq 1..reader.count

\* A deviation is printed as undocumented only if no action was recorded for it
\* when the deviations were listed.
UndocumentedTrue ==
    Done("report") => \A i \in PrintedUndocumented : i \notin reader.documented

\* A reading that was there when the report was asked for is printed with its
\* right status; only a unit made meanwhile can be judged by a range of 0 to 0.
OldRowsRight ==
    Done("report") => \A i \in reader.rows :
        i <= reader.since => RowOk(i) = ~OutOfRange(readings[i].temp, SafeMin, SafeMax)

\* Whatever is written while the report is put together, its count covers its rows,
\* what it calls undocumented was, and readings from before it have their status.
\* It leaves out later rows of units made meanwhile, which may be judged wrong.
ReportTruthful == IntegrityCoversRows /\ UndocumentedTrue /\ OldRowsRight

\* A sensor's reading is never filed under a unit it had left before it measured,
\* however late it is delivered and whatever moves in between.
FiledUnderBoundUnit ==
    \A i \in DOMAIN readings :
        LET r == readings[i]
        IN  r.mac # None => units[r.unit] = r.mac \/ left[r.unit][r.mac] >= r.at

\* The days of the trend add up to the total beside them, which was counted before,
\* and readings that were stored after the page was asked for: none is missing.
TrendComplete ==
    Done("analytics") =>
        LET shown == MapThenSumSet(OnDay, Buckets(reader.from, reader.to))
            total == Cardinality(reader.rows)
            meanwhile == {i \in reader.trend : i > reader.since}
        IN  total <= shown /\ shown <= total + Cardinality(meanwhile)

\* The units' deviations add up to the total but for alerts opened after the page was
\* asked for, at units made after the list of units; no older alert is left out.
DeviationsAgree ==
    Done("analytics") =>
        LET listed == MapThenSumSet(OfUnit, reader.units)
            total == Cardinality(reader.deviations)
            meanwhile == {i \in reader.deviations : i > reader.opened}
        IN  /\ listed <= total /\ total <= listed + Cardinality(meanwhile)
            /\ \A i \in 1..reader.opened : InWindow(alerts[i].at) => i \in reader.deviations

\* Temperature alerts of the window with no action among the first n.
Lacking(n) ==
    {i \in WindowAlerts : alerts[i].kind = "out_of_range" /\ \A a \in 1..n : actions[a] # i}

\* An alert counts as undocumented if it was open before the page was asked for and
\* has no action to this day, and only if it had none when the page was asked for.
UndocumentedCounted ==
    Done("analytics") =>
        /\ Lacking(Len(actions)) \cap 1..reader.opened \subseteq reader.undocumented
        /\ reader.undocumented \subseteq Lacking(reader.acted)

\* The three statements of the analytics disagree only about what was written after
\* the page was asked for, however readings, alerts, actions and units come between.
AnalyticsTruthful == TrendComplete /\ DeviationsAgree /\ UndocumentedCounted
=============================================================================
