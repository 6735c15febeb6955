--------------------------- MODULE RecordsProofs ---------------------------
(***************************************************************************)
(* Proofs about Records, for any units, sensors, readings and bounds.      *)
(***************************************************************************)
EXTENDS Records, FiniteSetTheorems, SequenceTheorems, WellFoundedInduction, TLAPS

Reading == [unit : Units, temp : Temps, at : Nat, mac : Macs \cup {None}]
AlertRow == [unit : Units, kind : Kinds, at : Nat, open : BOOLEAN]

Asking == {"board", "report", "analytics"}

\* The fields a request that reads has from its beginning.
Given == {"kind", "pc", "from", "to", "since", "opened", "acted"}

TablesTyped ==
    /\ now \in 0..MaxNow
    /\ DOMAIN units \subseteq Units /\ units \in [DOMAIN units -> Macs \cup {None}]
    /\ readings \in Seq(Reading) /\ alerts \in Seq(AlertRow) /\ actions \in Seq(Nat)
    /\ left \in [Units -> [Macs -> Int]]

\* What is referred to is there, and nothing is of the future.
TablesSound ==
    /\ \A u, v \in DOMAIN units : units[u] = units[v] /\ units[u] # None => u = v
    /\ \A i \in DOMAIN readings : readings[i].unit \in DOMAIN units /\ readings[i].at <= now
    /\ \A i \in DOMAIN alerts : alerts[i].unit \in DOMAIN units /\ alerts[i].at <= now
    /\ \A i, j \in DOMAIN alerts :
        alerts[i].open /\ alerts[j].open /\ alerts[i].unit = alerts[j].unit
            /\ alerts[i].kind = alerts[j].kind => i = j
    /\ \A a \in DOMAIN actions : actions[a] \in DOMAIN alerts

IngestTyped ==
    /\ ingest.pc \in {"none", "lookup", "store"}
    /\ ingest.pc # "none" =>
        ingest.mac \in Macs /\ ingest.temp \in Temps /\ ingest.at \in Nat /\ ingest.at <= now
    /\ ingest.pc = "store" => ingest.unit \in DOMAIN units

ReaderTyped ==
    /\ reader.kind \in Asking \cup {"none"}
    /\ reader.kind # "none" =>
        /\ Given \subseteq DOMAIN reader
        /\ reader.pc \in 1..Len(Statements(reader.kind)) + 1
        /\ reader.since \in 0..Len(readings)
        /\ reader.opened \in 0..Len(alerts) /\ reader.acted \in 0..Len(actions)

Types == TablesTyped /\ TablesSound /\ IngestTyped /\ ReaderTyped

\* A sensor's reading is of the unit it is bound to, or was until after it measured.
Bound(u, m, at) == units[u] = m \/ left[u][m] >= at
Filed ==
    /\ \A i \in DOMAIN readings :
        readings[i].mac # None => Bound(readings[i].unit, readings[i].mac, readings[i].at)
    /\ ingest.pc = "store" => Bound(ingest.unit, ingest.mac, ingest.at)

\* What the board has read so far.
BoardRead ==
    reader.kind = "board" =>
        /\ reader.pc >= 3 =>
            /\ "latest" \in DOMAIN reader
            /\ \A u \in DOMAIN reader.latest :
                /\ reader.latest[u] \in DOMAIN readings
                /\ readings[reader.latest[u]].unit = u
                /\ \A i \in 1..reader.since :
                    readings[i].unit = u => readings[i].at <= readings[reader.latest[u]].at
            /\ \A i \in 1..reader.since : readings[i].unit \in DOMAIN reader.latest
        /\ reader.pc >= 4 =>
            /\ reader.now \in Nat
            /\ \A u \in DOMAIN reader.latest : readings[reader.latest[u]].at <= reader.now

\* What the report has read so far.
ReportRead ==
    reader.kind = "report" =>
        /\ reader.pc >= 2 =>
            /\ "units" \in DOMAIN reader
            /\ \A i \in 1..reader.since : readings[i].unit \in reader.units
        /\ reader.pc >= 3 => "rows" \in DOMAIN reader /\ reader.rows \subseteq DOMAIN readings
        /\ reader.pc >= 4 =>
            /\ {"alerts", "documented"} \subseteq DOMAIN reader
            /\ reader.alerts \subseteq WindowAlerts /\ reader.documented \subseteq Documented
        /\ reader.pc >= 5 =>
            "actions" \in DOMAIN reader
            /\ reader.alerts \cap reader.documented \subseteq reader.actions
        /\ reader.pc >= 6 => reader.rows \subseteq 1..reader.count

\* What the roll-up listed: all there was when the page was asked for.
RollupRead ==
    /\ {"units", "rows"} \subseteq DOMAIN reader
    /\ reader.units \subseteq DOMAIN units /\ reader.rows \subseteq WindowReadings
    /\ \A i \in 1..reader.since : InWindow(readings[i].at) => i \in reader.rows
    /\ \A i \in 1..reader.opened : alerts[i].unit \in reader.units

\* So did the count of the deviations.
DeviationsRead ==
    /\ {"deviations", "undocumented"} \subseteq DOMAIN reader
    /\ reader.deviations \subseteq WindowAlerts
    /\ \A i \in 1..reader.opened : InWindow(alerts[i].at) => i \in reader.deviations
    /\ Lacking(Len(actions)) \cap 1..reader.opened \subseteq reader.undocumented
    /\ reader.undocumented \subseteq Lacking(reader.acted)

\* What the analytics have read so far: the trend counts what the roll-up listed.
AnalyticsRead ==
    reader.kind = "analytics" =>
        /\ reader.from \in Int /\ reader.to \in Int
        /\ reader.pc >= 2 => RollupRead
        /\ reader.pc >= 3 => DeviationsRead
        /\ reader.pc >= 4 =>
            /\ "trend" \in DOMAIN reader
            /\ reader.rows \subseteq reader.trend /\ reader.trend \subseteq WindowReadings

Inv == Types /\ Filed /\ BoardRead /\ ReportRead /\ AnalyticsRead

-----------------------------------------------------------------------------
(* Facts that are used throughout.                                         *)

\* The clock and the lengths are numbers.
LEMMA Numbers ==
  ASSUME Types
  PROVE  /\ now \in Nat /\ now <= MaxNow /\ MaxNow \in Nat
         /\ Len(readings) \in Nat /\ DOMAIN readings = 1..Len(readings)
         /\ Len(alerts) \in Nat /\ DOMAIN alerts = 1..Len(alerts)
         /\ Len(actions) \in Nat /\ DOMAIN actions = 1..Len(actions)
         /\ \A i \in DOMAIN readings : readings[i] \in Reading /\ readings[i].at \in Nat
         /\ \A i \in DOMAIN alerts : alerts[i] \in AlertRow /\ alerts[i].at \in Nat
<1>1. now \in Nat /\ now <= MaxNow /\ MaxNow \in Nat
  BY ConstantsOK DEF Types, TablesTyped, ConstantsOK
<1>2. /\ Len(readings) \in Nat /\ DOMAIN readings = 1..Len(readings)
      /\ Len(alerts) \in Nat /\ DOMAIN alerts = 1..Len(alerts)
      /\ Len(actions) \in Nat /\ DOMAIN actions = 1..Len(actions)
  BY LenProperties DEF Types, TablesTyped
<1>3. /\ \A i \in DOMAIN readings : readings[i] \in Reading
      /\ \A i \in DOMAIN alerts : alerts[i] \in AlertRow
  BY ElementOfSeq, <1>2 DEF Types, TablesTyped
<1>4. /\ \A i \in DOMAIN readings : readings[i].at \in Nat
      /\ \A i \in DOMAIN alerts : alerts[i].at \in Nat
  BY <1>3 DEF Reading, AlertRow
<1> QED
  BY <1>1, <1>2, <1>3, <1>4

\* What the tables had they still have.
Kept ==
    /\ now' \in Nat /\ now <= now'
    /\ Len(readings') \in Nat /\ Len(readings) <= Len(readings')
    /\ \A i \in DOMAIN readings : i \in DOMAIN readings' /\ readings'[i] = readings[i]
    /\ DOMAIN units \subseteq DOMAIN units'
    /\ Len(alerts') \in Nat /\ Len(alerts) <= Len(alerts')
    /\ Len(actions') \in Nat /\ Len(actions) <= Len(actions')
    /\ \A i \in DOMAIN alerts :
        /\ i \in DOMAIN alerts' /\ alerts'[i].at = alerts[i].at
        /\ alerts'[i].unit = alerts[i].unit /\ alerts'[i].kind = alerts[i].kind
    /\ \A i \in DOMAIN actions : i \in DOMAIN actions' /\ actions'[i] = actions[i]

\* A page half read stays right while the tables grow.
LEMMA ReaderKept ==
  ASSUME Types, BoardRead, ReportRead, AnalyticsRead, Kept, reader' = reader
  PROVE  ReaderTyped' /\ BoardRead' /\ ReportRead' /\ AnalyticsRead'
<1>1. ReaderTyped'
  BY Numbers DEF Types, ReaderTyped, Kept
<1>2. reader.kind # "none" => \A i \in 1..reader.since :
            i \in DOMAIN readings /\ readings'[i] = readings[i]
  BY Numbers DEF Types, ReaderTyped, Kept
<1>3. BoardRead'
  <2> SUFFICES ASSUME reader.kind = "board" PROVE BoardRead'
    BY DEF BoardRead
  <2>1. \A i \in 1..reader.since : i \in DOMAIN readings /\ readings'[i] = readings[i]
    BY <1>2
  <2>2. ASSUME reader.pc >= 3
        PROVE  /\ "latest" \in DOMAIN reader
               /\ \A u \in DOMAIN reader.latest :
                    /\ reader.latest[u] \in DOMAIN readings'
                    /\ readings'[reader.latest[u]] = readings[reader.latest[u]]
                    /\ readings'[reader.latest[u]].unit = u
                    /\ \A i \in 1..reader.since :
                        readings'[i].unit = u => readings'[i].at <= readings'[reader.latest[u]].at
               /\ \A i \in 1..reader.since : readings'[i].unit \in DOMAIN reader.latest
    BY <2>1, <2>2 DEF BoardRead, Kept
  <2>3. ASSUME reader.pc >= 4
        PROVE  /\ reader.now \in Nat
               /\ \A u \in DOMAIN reader.latest : readings[reader.latest[u]].at <= reader.now
    BY <2>3 DEF BoardRead
  <2>4. reader.pc >= 4 => reader.pc >= 3
    BY DEF Types, ReaderTyped, Statements
  <2> QED
    BY <2>2, <2>3, <2>4 DEF BoardRead
<1>4. ReportRead'
  <2> SUFFICES ASSUME reader.kind = "report" PROVE ReportRead'
    BY DEF ReportRead
  <2>1. WindowAlerts \subseteq WindowAlerts'
    BY DEF WindowAlerts, InWindow, Kept
  <2>2. Documented \subseteq Documented'
    BY DEF Documented, Kept
  <2>3. reader.pc >= 2 => \A i \in 1..reader.since : readings'[i].unit \in reader.units
    BY <1>2 DEF ReportRead
  <2> QED
    BY <2>1, <2>2, <2>3 DEF ReportRead, Kept
<1>5. AnalyticsRead'
  <2> SUFFICES ASSUME reader.kind = "analytics" PROVE AnalyticsRead'
    BY DEF AnalyticsRead
  <2>1. \A i \in WindowReadings : readings'[i] = readings[i] /\ i \in WindowReadings'
    BY DEF WindowReadings, InWindow, Kept
  <2>2. \A i \in 1..reader.since : readings'[i] = readings[i]
    BY <1>2
  <2>3. /\ \A i \in 1..reader.opened :
              /\ i \in DOMAIN alerts /\ alerts'[i].at = alerts[i].at
              /\ alerts'[i].unit = alerts[i].unit /\ alerts'[i].kind = alerts[i].kind
        /\ \A a \in 1..reader.acted : actions'[a] = actions[a]
    <3>1. reader.opened \in 0..Len(alerts) /\ reader.acted \in 0..Len(actions)
      BY DEF Types, ReaderTyped
    <3>2. 1..reader.opened \subseteq DOMAIN alerts /\ 1..reader.acted \subseteq DOMAIN actions
      BY <3>1, Numbers
    <3> QED
      BY <3>2 DEF Kept
  <2>4. RollupRead => RollupRead'
    BY <2>1, <2>2, <2>3 DEF RollupRead, InWindow, Kept
  <2>5. DeviationsRead => DeviationsRead'
    <3> SUFFICES ASSUME DeviationsRead PROVE DeviationsRead'
      OBVIOUS
    <3>1. WindowAlerts \subseteq WindowAlerts'
      BY DEF WindowAlerts, InWindow, Kept
    <3>2. \A i \in 1..reader.opened : InWindow(alerts[i].at)' => i \in reader.deviations
      BY <2>3 DEF DeviationsRead, InWindow
    <3>3. ASSUME NEW i \in 1..reader.opened, i \in Lacking(Len(actions))'
          PROVE  i \in reader.undocumented
      <4>1. i \in WindowAlerts /\ alerts[i].kind = "out_of_range"
        BY <2>3, <3>3 DEF Lacking, WindowAlerts, InWindow
      <4>2. \A a \in 1..Len(actions) : actions[a] # i
        BY <3>3, Numbers DEF Lacking, Kept
      <4> QED
        BY <4>1, <4>2 DEF Lacking, DeviationsRead
    <3>4. ASSUME NEW i \in reader.undocumented
          PROVE  i \in Lacking(reader.acted)'
      <4>1. i \in Lacking(reader.acted)
        BY DEF DeviationsRead
      <4>2. i \in DOMAIN alerts
        BY <4>1 DEF Lacking, WindowAlerts
      <4> QED
        BY <2>3, <3>1, <4>1, <4>2 DEF Lacking, Kept
    <3> QED
      BY <3>1, <3>2, <3>3, <3>4 DEF DeviationsRead
  <2>6. reader.pc >= 4 =>
            /\ "trend" \in DOMAIN reader
            /\ reader.rows \subseteq reader.trend /\ reader.trend \subseteq WindowReadings'
    BY <2>1 DEF AnalyticsRead
  <2> QED
    BY <2>4, <2>5, <2>6 DEF AnalyticsRead
<1> QED
  BY <1>1, <1>3, <1>4, <1>5

\* A step that leaves the tables alone keeps what holds of them.
LEMMA TablesFrame ==
  ASSUME Types, UNCHANGED <<tables, left>>
  PROVE  TablesTyped' /\ TablesSound' /\ Kept
  BY Numbers DEF Types, TablesTyped, TablesSound, Kept, tables

-----------------------------------------------------------------------------
(* The writers.                                                            *)

\* What a request with a reading is at stays, while no unit goes.
LEMMA IngestKept ==
  ASSUME Types, ingest' = ingest, DOMAIN units \subseteq DOMAIN units', now' \in Nat, now <= now'
  PROVE  IngestTyped'
  BY Numbers DEF Types, IngestTyped

\* A step takes from no unit what it was bound to, but for what it says in left.
BoundKept ==
    \A u \in DOMAIN units, m \in Macs, at \in Nat :
        at <= now /\ Bound(u, m, at) => Bound(u, m, at)'

\* Such a step keeps Filed, if it stores nothing.
LEMMA FiledKept ==
  ASSUME Types, Filed, BoundKept, UNCHANGED <<readings, ingest>>
  PROVE  Filed'
<1>1. ASSUME NEW i \in DOMAIN readings, readings[i].mac # None
      PROVE  Bound(readings[i].unit, readings[i].mac, readings[i].at)'
  <2>1. /\ readings[i].unit \in DOMAIN units /\ readings[i].at <= now
        /\ readings[i].mac \in Macs /\ readings[i].at \in Nat
    BY <1>1, Numbers DEF Types, TablesSound, Reading
  <2>2. Bound(readings[i].unit, readings[i].mac, readings[i].at)
    BY <1>1 DEF Filed
  <2> QED
    BY <2>1, <2>2 DEF BoundKept, Bound
<1>2. ASSUME ingest.pc = "store" PROVE Bound(ingest.unit, ingest.mac, ingest.at)'
  BY <1>2 DEF Filed, BoundKept, Bound, Types, IngestTyped
<1> QED
  BY <1>1, <1>2 DEF Filed, Bound

\* So does one that leaves units and left alone.
LEMMA SameBound ==
  ASSUME UNCHANGED left, \A u \in DOMAIN units : units'[u] = units[u]
  PROVE  BoundKept
  BY DEF BoundKept, Bound

\* What Store does.
LEMMA Stored ==
  ASSUME Types, NEW u \in DOMAIN units, NEW temp \in Temps, NEW at \in Nat,
         NEW m \in Macs \cup {None}, Store(u, temp, at, m)
  PROVE  /\ readings' \in Seq(Reading) /\ Len(readings') = Len(readings) + 1
         /\ DOMAIN readings' = DOMAIN readings \cup {Len(readings) + 1}
         /\ \A i \in DOMAIN readings : readings'[i] = readings[i]
         /\ readings'[Len(readings) + 1] = [unit |-> u, temp |-> temp, at |-> at, mac |-> m]
<1> DEFINE new == [unit |-> u, temp |-> temp, at |-> at, mac |-> m]
<1>1. new \in Reading /\ readings' = Append(readings, new)
  BY DEF Reading, Types, TablesTyped, Store
<1> HIDE DEF new
<1>2. readings \in Seq(Reading) /\ Len(readings) \in Nat /\ DOMAIN readings = 1..Len(readings)
  BY Numbers DEF Types, TablesTyped
<1>3. /\ readings' \in Seq(Reading) /\ Len(readings') = Len(readings) + 1
      /\ \A i \in 1..Len(readings) : readings'[i] = readings[i]
      /\ readings'[Len(readings) + 1] = new
  BY <1>1, <1>2, AppendProperties
<1>4. DOMAIN readings' = DOMAIN readings \cup {Len(readings) + 1}
  BY <1>2, <1>3, LenProperties
<1> QED
  BY <1>2, <1>3, <1>4 DEF new

\* A reading of now or before, of a unit that is bound or was, is stored soundly.
LEMMA StoredSoundly ==
  ASSUME Types, Filed, NEW u \in DOMAIN units, NEW temp \in Temps, NEW at \in Nat, at <= now,
         NEW m \in Macs \cup {None}, m # None => Bound(u, m, at), Store(u, temp, at, m),
         UNCHANGED <<now, units, alerts, actions, left>>
  PROVE  /\ TablesTyped' /\ TablesSound' /\ Kept
         /\ \A i \in DOMAIN readings' : readings'[i].mac # None =>
                Bound(readings'[i].unit, readings'[i].mac, readings'[i].at)
<1> DEFINE new == [unit |-> u, temp |-> temp, at |-> at, mac |-> m]
<1>1. /\ readings' \in Seq(Reading) /\ Len(readings') = Len(readings) + 1
      /\ DOMAIN readings' = DOMAIN readings \cup {Len(readings) + 1}
      /\ \A i \in DOMAIN readings : readings'[i] = readings[i]
      /\ readings'[Len(readings) + 1] = new
  BY Stored
<1>2. new.unit = u /\ new.at = at /\ new.mac = m
  OBVIOUS
<1> HIDE DEF new
<1>3. TablesTyped'
  BY <1>1 DEF Types, TablesTyped
<1>4. TablesSound'
  <2>1. \A i \in DOMAIN readings' : readings'[i].unit \in DOMAIN units /\ readings'[i].at <= now
    BY <1>1, <1>2 DEF Types, TablesSound
  <2> QED
    BY <2>1 DEF Types, TablesSound
<1>5. Kept
  BY <1>1, Numbers DEF Kept
<1>6. \A i \in DOMAIN readings' : readings'[i].mac # None =>
            Bound(readings'[i].unit, readings'[i].mac, readings'[i].at)
  BY <1>1, <1>2 DEF Filed
<1> QED
  BY <1>3, <1>4, <1>5, <1>6

\* Time passes.
LEMMA TickSound ==
  ASSUME Types, Filed, Tick
  PROVE  Types' /\ Filed' /\ Kept
<1>1. now' = now + 1 /\ now' \in 0..MaxNow
  BY Numbers DEF Tick
<1>2. UNCHANGED <<units, readings, alerts, actions, ingest, reader, left>>
  BY DEF Tick
<1>3. TablesTyped'
  BY <1>1, <1>2 DEF Types, TablesTyped
<1>4. TablesSound'
  BY <1>1, <1>2, Numbers DEF Types, TablesSound
<1>5. IngestTyped' /\ ReaderTyped'
  BY <1>1, <1>2, Numbers, IngestKept DEF Types, ReaderTyped
<1>6. Filed' /\ Kept
  BY <1>1, <1>2, Numbers, FiledKept, SameBound DEF Kept
<1> QED
  BY <1>3, <1>4, <1>5, <1>6 DEF Types

\* A new unit has no sensor.
LEMMA CreateUnitSound ==
  ASSUME Types, Filed, NEW u \in Units, CreateUnit(u)
  PROVE  Types' /\ Filed' /\ Kept
<1>1. /\ DOMAIN units' = DOMAIN units \cup {u} /\ u \notin DOMAIN units
      /\ units'[u] = None /\ \A x \in DOMAIN units : units'[x] = units[x]
      /\ UNCHANGED <<now, readings, alerts, actions, ingest, reader, left>>
  BY DEF CreateUnit
<1>2. units' \in [DOMAIN units' -> Macs \cup {None}]
  BY DEF CreateUnit, Types, TablesTyped
<1>3. TablesTyped'
  BY <1>1, <1>2 DEF Types, TablesTyped
<1>4. TablesSound'
  <2>1. \A v, w \in DOMAIN units' : units'[v] = units'[w] /\ units'[v] # None => v = w
    BY <1>1 DEF Types, TablesSound
  <2> QED
    BY <1>1, <2>1 DEF Types, TablesSound
<1>5. IngestTyped' /\ ReaderTyped'
  BY <1>1, Numbers, IngestKept DEF Types, ReaderTyped
<1>6. Filed' /\ Kept
  BY <1>1, Numbers, FiledKept, SameBound DEF Kept
<1> QED
  BY <1>3, <1>4, <1>5, <1>6 DEF Types

\* A unit's sensor is taken from it now, which is after whatever has been measured.
LEMMA SetUnitSensorMACSound ==
  ASSUME Types, Filed, NEW u \in DOMAIN units, NEW m \in Macs \cup {None}, SetUnitSensorMAC(u, m)
  PROVE  Types' /\ Filed' /\ Kept
<1>1. /\ units' = [units EXCEPT ![u] = m] /\ Bindable(u, m)
      /\ left' = IF units[u] = None THEN left ELSE [left EXCEPT ![u][units[u]] = now]
      /\ UNCHANGED <<now, readings, alerts, actions, ingest, reader>>
  BY DEF SetUnitSensorMAC
<1>2. /\ DOMAIN units' = DOMAIN units /\ units'[u] = m /\ units' \in [DOMAIN units -> Macs \cup {None}]
      /\ \A v \in DOMAIN units : v # u => units'[v] = units[v]
  BY <1>1 DEF Types, TablesTyped
<1>3. u \in Units /\ DOMAIN units \subseteq Units /\ left \in [Units -> [Macs -> Int]]
      /\ units[u] \in Macs \cup {None}
  BY DEF Types, TablesTyped
<1>4. /\ left' \in [Units -> [Macs -> Int]]
      /\ \A v \in Units, n \in Macs :
            left'[v][n] = IF v = u /\ n = units[u] /\ units[u] # None THEN now ELSE left[v][n]
  BY <1>1, <1>3, Numbers
<1>5. TablesTyped'
  BY <1>1, <1>2, <1>4 DEF Types, TablesTyped
<1>6. TablesSound'
  <2>1. m # None => \A v \in DOMAIN units : v # u => units[v] # m
    BY <1>1 DEF Bindable
  <2>2. \A v, w \in DOMAIN units' : units'[v] = units'[w] /\ units'[v] # None => v = w
    BY <1>2, <2>1 DEF Types, TablesSound
  <2> QED
    BY <1>1, <1>2, <2>2 DEF Types, TablesSound
<1>7. IngestTyped' /\ ReaderTyped'
  BY <1>1, <1>2, Numbers, IngestKept DEF Types, ReaderTyped
<1>8. BoundKept
  <2> SUFFICES ASSUME NEW v \in DOMAIN units, NEW n \in Macs, NEW at \in Nat, at <= now,
                      units[v] = n \/ left[v][n] >= at
               PROVE  units'[v] = n \/ left'[v][n] >= at
    BY DEF BoundKept, Bound
  <2>1. v \in Units /\ n # None /\ now \in Nat
    BY <1>3, ConstantsOK, Numbers DEF ConstantsOK
  <2> QED
    BY <1>2, <1>4, <2>1
<1>9. Filed' /\ Kept
  BY <1>1, <1>8, Numbers, FiledKept DEF Kept
<1> QED
  BY <1>5, <1>6, <1>7, <1>9 DEF Types

\* A reading is taken by hand.
LEMMA CreateReadingSound ==
  ASSUME Types, Filed, NEW u \in DOMAIN units, NEW temp \in Temps, CreateReading(u, temp)
  PROVE  Types' /\ Filed' /\ Kept
<1>1. Store(u, temp, now, None) /\ UNCHANGED <<now, units, alerts, actions, ingest, reader, left>>
  BY DEF CreateReading
<1>2. /\ TablesTyped' /\ TablesSound' /\ Kept
      /\ \A i \in DOMAIN readings' : readings'[i].mac # None =>
            Bound(readings'[i].unit, readings'[i].mac, readings'[i].at)
  BY <1>1, Numbers, StoredSoundly
<1>3. IngestTyped' /\ ReaderTyped'
  BY <1>1, <1>2, Numbers, IngestKept DEF Types, ReaderTyped, Kept
<1>4. Filed'
  BY <1>1, <1>2 DEF Filed, Bound
<1> QED
  BY <1>2, <1>3, <1>4 DEF Types

\* A gateway's request: its reading is not of the future, is filed under the unit the
\* sensor is bound to, and stored there even if the sensor leaves meanwhile.
LEMMA IngestSound ==
  ASSUME Types, Filed,
         \/ \E m \in Macs, temp \in Temps, t \in 0..(now + Skew) : IngestReading(m, temp, t)
         \/ IngestLookup \/ IngestStore
  PROVE  Types' /\ Filed' /\ Kept
<1>1. ASSUME NEW m \in Macs, NEW temp \in Temps, NEW t \in 0..(now + Skew), IngestReading(m, temp, t)
      PROVE  Types' /\ Filed' /\ Kept
  <2>1. t \in Nat /\ NoLaterThanNow(t) \in Nat /\ NoLaterThanNow(t) <= now
    BY Numbers, ConstantsOK DEF NoLaterThanNow, ConstantsOK
  <2>2. /\ ingest'.pc = "lookup" /\ ingest'.mac = m /\ ingest'.temp = temp
        /\ ingest'.at = NoLaterThanNow(t) /\ UNCHANGED <<tables, reader, left>>
    BY <1>1 DEF IngestReading
  <2>3. TablesTyped' /\ TablesSound' /\ Kept
    BY <2>2, TablesFrame
  <2>4. IngestTyped' /\ ReaderTyped'
    BY <2>1, <2>2 DEF Types, IngestTyped, ReaderTyped, tables
  <2>5. Filed'
    BY <2>2 DEF Filed, Bound, tables
  <2> QED
    BY <2>3, <2>4, <2>5 DEF Types
<1>2. ASSUME NEW u \in UnitByMAC(ingest.mac), ingest.pc = "lookup",
             ingest' = [pc |-> "store", mac |-> ingest.mac, temp |-> ingest.temp,
                        at |-> ingest.at, unit |-> u],
             UNCHANGED <<tables, reader, left>>
      PROVE  Types' /\ Filed' /\ Kept
  <2>1. /\ ingest'.pc = "store" /\ ingest'.mac = ingest.mac /\ ingest'.temp = ingest.temp
        /\ ingest'.at = ingest.at /\ ingest'.unit = u
    BY <1>2
  <2>2. u \in DOMAIN units /\ units[u] = ingest.mac
    BY DEF UnitByMAC
  <2>3. TablesTyped' /\ TablesSound' /\ Kept
    BY <1>2, TablesFrame
  <2>4. IngestTyped' /\ ReaderTyped'
    BY <1>2, <2>1, <2>2 DEF Types, IngestTyped, ReaderTyped, tables
  <2>5. Filed'
    BY <1>2, <2>1, <2>2 DEF Filed, Bound, tables
  <2> QED
    BY <2>3, <2>4, <2>5 DEF Types
<1>3. ASSUME ingest' = NoIngest, UNCHANGED <<tables, reader, left>>
      PROVE  Types' /\ Filed' /\ Kept
  <2>1. ingest'.pc = "none"
    BY <1>3 DEF NoIngest
  <2>2. TablesTyped' /\ TablesSound' /\ Kept
    BY <1>3, TablesFrame
  <2>3. IngestTyped' /\ ReaderTyped' /\ Filed'
    BY <1>3, <2>1 DEF Types, IngestTyped, ReaderTyped, Filed, Bound, tables
  <2> QED
    BY <2>2, <2>3 DEF Types
<1>4. ASSUME IngestStore PROVE Types' /\ Filed' /\ Kept
  <2>1. /\ ingest.pc = "store" /\ Store(ingest.unit, ingest.temp, ingest.at, ingest.mac)
        /\ ingest' = NoIngest /\ UNCHANGED <<now, units, alerts, actions, reader, left>>
    BY <1>4 DEF IngestStore
  <2>2. /\ ingest.unit \in DOMAIN units /\ ingest.temp \in Temps /\ ingest.at \in Nat
        /\ ingest.at <= now /\ ingest.mac \in Macs \cup {None}
        /\ Bound(ingest.unit, ingest.mac, ingest.at)
    BY <2>1 DEF Types, IngestTyped, Filed
  <2>3. /\ TablesTyped' /\ TablesSound' /\ Kept
        /\ \A i \in DOMAIN readings' : readings'[i].mac # None =>
            Bound(readings'[i].unit, readings'[i].mac, readings'[i].at)
    BY <2>1, <2>2, StoredSoundly
  <2>4. ingest'.pc = "none"
    BY <2>1 DEF NoIngest
  <2>5. IngestTyped' /\ ReaderTyped'
    BY <2>1, <2>3, <2>4, Numbers DEF Types, IngestTyped, ReaderTyped, Kept
  <2>6. Filed'
    BY <2>1, <2>3, <2>4 DEF Filed, Bound
  <2> QED
    BY <2>3, <2>5, <2>6 DEF Types
<1> QED
  BY <1>1, <1>2, <1>3, <1>4 DEF IngestLookup

\* A step that opens, resolves or documents alerts leaves the rest as it is.
LEMMA AlertsFrame ==
  ASSUME Types, Filed, Kept, UNCHANGED <<now, units, readings, ingest, reader, left>>
  PROVE  IngestTyped' /\ ReaderTyped' /\ Filed'
<1>1. IngestTyped' /\ Filed'
  BY Numbers, IngestKept, FiledKept, SameBound
<1>2. ReaderTyped'
  BY Numbers DEF Types, ReaderTyped, Kept
<1> QED
  BY <1>1, <1>2

\* An alert is opened where its kind has none open.
LEMMA OpenAlertSound ==
  ASSUME Types, Filed, NEW u \in DOMAIN units, NEW kind \in Kinds, OpenAlert(u, kind)
  PROVE  Types' /\ Filed' /\ Kept
<1> DEFINE new == [unit |-> u, kind |-> kind, at |-> now, open |-> TRUE]
<1>1. /\ \A i \in DOMAIN alerts : ~(alerts[i].open /\ alerts[i].unit = u /\ alerts[i].kind = kind)
      /\ alerts' = Append(alerts, new)
      /\ UNCHANGED <<now, units, readings, actions, ingest, reader, left>>
  BY DEF OpenAlert
<1>2. new \in AlertRow /\ new.unit = u /\ new.kind = kind /\ new.at = now
  BY Numbers DEF AlertRow, Types, TablesTyped
<1> HIDE DEF new
<1>3. alerts \in Seq(AlertRow) /\ Len(alerts) \in Nat /\ DOMAIN alerts = 1..Len(alerts)
  BY Numbers DEF Types, TablesTyped
<1>4. /\ alerts' \in Seq(AlertRow) /\ Len(alerts') = Len(alerts) + 1
      /\ \A i \in 1..Len(alerts) : alerts'[i] = alerts[i]
      /\ alerts'[Len(alerts) + 1] = new
  BY <1>1, <1>2, <1>3, AppendProperties
<1>5. DOMAIN alerts' = DOMAIN alerts \cup {Len(alerts) + 1}
  BY <1>3, <1>4, LenProperties
<1>6. TablesTyped'
  BY <1>1, <1>4 DEF Types, TablesTyped
<1>7. TablesSound'
  <2>1. \A i \in DOMAIN alerts' : alerts'[i].unit \in DOMAIN units /\ alerts'[i].at <= now
    BY <1>2, <1>3, <1>4, <1>5, Numbers DEF Types, TablesSound
  <2>2. ASSUME NEW i \in DOMAIN alerts', NEW j \in DOMAIN alerts', alerts'[i].open, alerts'[j].open,
               alerts'[i].unit = alerts'[j].unit, alerts'[i].kind = alerts'[j].kind
        PROVE  i = j
    <3>1. CASE i \in DOMAIN alerts /\ j \in DOMAIN alerts
      BY <1>3, <1>4, <2>2, <3>1 DEF Types, TablesSound
    <3>2. CASE i \in DOMAIN alerts /\ j = Len(alerts) + 1
      BY <1>1, <1>2, <1>3, <1>4, <2>2, <3>2
    <3>3. CASE i = Len(alerts) + 1 /\ j \in DOMAIN alerts
      BY <1>1, <1>2, <1>3, <1>4, <2>2, <3>3
    <3> QED
      BY <1>5, <3>1, <3>2, <3>3
  <2>3. \A a \in DOMAIN actions' : actions'[a] \in DOMAIN alerts'
    BY <1>1, <1>5 DEF Types, TablesSound
  <2> QED
    BY <1>1, <2>1, <2>2, <2>3 DEF Types, TablesSound
<1>8. Kept
  BY <1>1, <1>3, <1>4, <1>5, Numbers DEF Kept
<1> QED
  BY <1>1, <1>6, <1>7, <1>8, AlertsFrame DEF Types

\* An alert that is resolved keeps its unit, kind and time.
LEMMA ResolveAlertSound ==
  ASSUME Types, Filed, NEW i \in DOMAIN alerts, ResolveAlert(i)
  PROVE  Types' /\ Filed' /\ Kept
<1> DEFINE new == [alerts[i] EXCEPT !.open = FALSE]
<1>1. /\ alerts' = [alerts EXCEPT ![i] = new]
      /\ UNCHANGED <<now, units, readings, actions, ingest, reader, left>>
  BY DEF ResolveAlert
<1>2. alerts[i] \in AlertRow
  BY Numbers
<1>3. /\ new \in AlertRow /\ new.unit = alerts[i].unit /\ new.kind = alerts[i].kind
      /\ new.at = alerts[i].at /\ ~new.open
  BY <1>2 DEF AlertRow
<1> HIDE DEF new
<1>4. /\ alerts' \in Seq(AlertRow) /\ Len(alerts') = Len(alerts) /\ DOMAIN alerts' = DOMAIN alerts
      /\ alerts'[i] = new /\ \A j \in DOMAIN alerts : j # i => alerts'[j] = alerts[j]
  BY <1>1, <1>3, ExceptSeq, LenProperties DEF Types, TablesTyped
<1>5. TablesTyped'
  BY <1>1, <1>4 DEF Types, TablesTyped
<1>6. TablesSound'
  <2>1. \A j \in DOMAIN alerts : /\ alerts'[j].unit = alerts[j].unit
                                 /\ alerts'[j].kind = alerts[j].kind
                                 /\ alerts'[j].at = alerts[j].at
                                 /\ alerts'[j].open => alerts[j].open
    BY <1>3, <1>4
  <2> QED
    BY <1>1, <1>4, <2>1 DEF Types, TablesSound
<1>7. Kept
  BY <1>1, <1>3, <1>4, Numbers DEF Kept
<1> QED
  BY <1>1, <1>5, <1>6, <1>7, AlertsFrame DEF Types

\* An action is recorded for an alert there is.
LEMMA CreateCorrectiveActionSound ==
  ASSUME Types, Filed, NEW i \in DOMAIN alerts, CreateCorrectiveAction(i)
  PROVE  Types' /\ Filed' /\ Kept
<1>1. /\ actions' = Append(actions, i) /\ i \in Nat
      /\ UNCHANGED <<now, units, readings, alerts, ingest, reader, left>>
  BY Numbers DEF CreateCorrectiveAction
<1>2. actions \in Seq(Nat) /\ Len(actions) \in Nat /\ DOMAIN actions = 1..Len(actions)
  BY Numbers DEF Types, TablesTyped
<1>3. /\ actions' \in Seq(Nat) /\ Len(actions') = Len(actions) + 1
      /\ \A a \in 1..Len(actions) : actions'[a] = actions[a]
      /\ actions'[Len(actions) + 1] = i
  BY <1>1, <1>2, AppendProperties
<1>4. DOMAIN actions' = DOMAIN actions \cup {Len(actions) + 1}
  BY <1>2, <1>3, LenProperties
<1>5. TablesTyped'
  BY <1>1, <1>3 DEF Types, TablesTyped
<1>6. TablesSound'
  <2>1. \A a \in DOMAIN actions' : actions'[a] \in DOMAIN alerts
    BY <1>2, <1>3, <1>4 DEF Types, TablesSound
  <2> QED
    BY <1>1, <2>1 DEF Types, TablesSound
<1>7. Kept
  BY <1>1, <1>2, <1>3, <1>4, Numbers DEF Kept
<1> QED
  BY <1>1, <1>5, <1>6, <1>7, AlertsFrame DEF Types

-----------------------------------------------------------------------------
(* The readers.                                                            *)

\* Which statement a reader is at.
LEMMA Where ==
  ASSUME Types, NEW statement, At(statement)
  PROVE  \/ /\ reader.kind = "board"
            /\ \/ reader.pc = 1 /\ statement = "units"
               \/ reader.pc = 2 /\ statement = "latest"
               \/ reader.pc = 3 /\ statement = "clock"
         \/ /\ reader.kind = "report"
            /\ \/ reader.pc = 1 /\ statement = "units"
               \/ reader.pc = 2 /\ statement = "readings"
               \/ reader.pc = 3 /\ statement = "alerts"
               \/ reader.pc = 4 /\ statement = "actions"
               \/ reader.pc = 5 /\ statement = "verify"
         \/ /\ reader.kind = "analytics"
            /\ \/ reader.pc = 1 /\ statement = "rollup"
               \/ reader.pc = 2 /\ statement = "deviations"
               \/ reader.pc = 3 /\ statement = "trend"
  BY DEF Types, ReaderTyped, Asking, At, Statements
\* A statement adds its result to what the request has.
LEMMA ReadsDoes ==
  ASSUME Types, Filed, NEW statement, At(statement),
         NEW result, DOMAIN result \cap Given = {}, Reads(result)
  PROVE  /\ UNCHANGED <<tables, ingest, left>>
         /\ reader'.kind = reader.kind /\ reader'.from = reader.from /\ reader'.to = reader.to
         /\ reader'.since = reader.since /\ reader'.pc = reader.pc + 1
         /\ reader'.opened = reader.opened /\ reader'.acted = reader.acted
         /\ DOMAIN reader' = DOMAIN reader \cup DOMAIN result
         /\ \A f \in DOMAIN result : reader'[f] = result[f]
         /\ \A f \in DOMAIN reader : f # "pc" /\ f \notin DOMAIN result => reader'[f] = reader[f]
         /\ Types' /\ Filed'
<1>1. /\ DOMAIN reader' = DOMAIN reader \cup DOMAIN result
      /\ \A f \in DOMAIN reader \cup DOMAIN result :
            reader'[f] = IF f \in DOMAIN result THEN result[f]
                         ELSE IF f = "pc" THEN reader.pc + 1 ELSE reader[f]
      /\ UNCHANGED <<tables, ingest, left>>
  BY DEF Reads
<1>2. /\ Given \subseteq DOMAIN reader /\ reader.kind \in Asking
      /\ reader.pc \in 1..Len(Statements(reader.kind)) /\ reader.since \in 0..Len(readings)
      /\ reader.opened \in 0..Len(alerts) /\ reader.acted \in 0..Len(actions)
  <2>1. reader.kind \in Asking /\ reader.kind # "none"
    BY DEF At, Types, ReaderTyped, Asking
  <2>2. Len(Statements(reader.kind)) \in Nat
    BY <2>1 DEF Statements, Asking
  <2> QED
    BY <2>1, <2>2 DEF At, Types, ReaderTyped
<1>3. /\ reader'["kind"] = reader["kind"] /\ reader'["from"] = reader["from"]
      /\ reader'["to"] = reader["to"] /\ reader'["since"] = reader["since"]
      /\ reader'["opened"] = reader["opened"] /\ reader'["acted"] = reader["acted"]
      /\ reader'["pc"] = reader["pc"] + 1
  BY <1>1, <1>2 DEF Given
<1>4. ReaderTyped'
  <2>1. Len(Statements(reader.kind)) \in Nat
    BY <1>2 DEF Statements, Asking
  <2>2. reader.pc + 1 \in 1..Len(Statements(reader.kind)) + 1
    BY <1>2, <2>1
  <2> QED
    BY <1>1, <1>2, <1>3, <2>2 DEF ReaderTyped, Statements, Asking, tables
<1>5. TablesTyped' /\ TablesSound' /\ IngestTyped' /\ Filed'
  BY <1>1, TablesFrame DEF Types, IngestTyped, Filed, Bound, tables
<1> QED
  BY <1>1, <1>3, <1>4, <1>5 DEF Types

\* Of a list of units the report needs that it has those with readings.
LEMMA ListUnitsSound ==
  ASSUME Inv, ListUnits
  PROVE  Inv'
<1> DEFINE result == [units |-> DOMAIN units]
<1>1. At("units") /\ Reads(result) /\ DOMAIN result = {"units"} /\ result["units"] = DOMAIN units
  BY DEF ListUnits
<1>2. {"units"} \cap Given = {}
  BY DEF Given
<1> HIDE DEF result
<1>3. /\ UNCHANGED tables /\ reader'.kind = reader.kind /\ reader'.since = reader.since
      /\ reader'.pc = reader.pc + 1 /\ DOMAIN reader' = DOMAIN reader \cup {"units"}
      /\ reader'["units"] = DOMAIN units /\ Types' /\ Filed'
  BY <1>1, <1>2, ReadsDoes DEF Inv
<1>4. reader.pc = 1 /\ reader.kind # "analytics"
  BY <1>1, Where DEF Inv
<1>5. BoardRead'
  BY <1>3, <1>4 DEF BoardRead
<1>6. ReportRead'
  <2>1. reader.kind = "report" => \A i \in 1..reader.since : i \in DOMAIN readings
    BY Numbers DEF Inv, Types, ReaderTyped
  <2> QED
    BY <1>3, <1>4, <2>1 DEF ReportRead, Inv, Types, TablesSound, tables
<1>7. AnalyticsRead'
  BY <1>3, <1>4 DEF AnalyticsRead
<1> QED
  BY <1>3, <1>5, <1>6, <1>7 DEF Inv

\* The latest readings are as late as any that was there when the request came.
LEMMA LatestByLocationSound ==
  ASSUME Inv, LatestByLocation
  PROVE  Inv'
<1> PICK f \in [WithReading -> DOMAIN readings] :
            (\A u \in WithReading : f[u] \in Latest(u)) /\ Reads([latest |-> f])
  BY DEF LatestByLocation
<1> DEFINE result == [latest |-> f]
<1>1. At("latest") /\ Reads(result) /\ DOMAIN result = {"latest"} /\ result["latest"] = f
  BY DEF LatestByLocation
<1>2. {"latest"} \cap Given = {}
  BY DEF Given
<1> HIDE DEF result
<1>3. /\ UNCHANGED tables /\ reader'.kind = reader.kind /\ reader'.since = reader.since
      /\ reader'.pc = reader.pc + 1 /\ DOMAIN reader' = DOMAIN reader \cup {"latest"}
      /\ reader'["latest"] = f /\ Types' /\ Filed'
  BY <1>1, <1>2, ReadsDoes DEF Inv
<1>4. reader.kind = "board" /\ reader.pc = 2
  BY <1>1, Where DEF Inv
<1>5. \A i \in 1..reader.since : i \in DOMAIN readings
  BY <1>4, Numbers DEF Inv, Types, ReaderTyped
<1>6. DOMAIN f = WithReading /\ \A i \in 1..reader.since : readings[i].unit \in WithReading
  BY <1>5 DEF WithReading, Inv, Types, TablesSound
<1>7. \A u \in WithReading :
        /\ f[u] \in DOMAIN readings /\ readings[f[u]].unit = u
        /\ \A i \in 1..reader.since : readings[i].unit = u => readings[i].at <= readings[f[u]].at
  BY <1>5 DEF Latest
<1>8. BoardRead'
  BY <1>3, <1>4, <1>6, <1>7 DEF BoardRead, tables
<1>9. ReportRead'
  BY <1>3, <1>4 DEF ReportRead
<1>10. AnalyticsRead'
  BY <1>3, <1>4 DEF AnalyticsRead
<1> QED
  BY <1>3, <1>8, <1>9, <1>10 DEF Inv

\* The clock is read last: no reading listed is later.
LEMMA ReadClockSound ==
  ASSUME Inv, ReadClock
  PROVE  Inv'
<1> DEFINE result == [now |-> now]
<1>1. At("clock") /\ Reads(result) /\ DOMAIN result = {"now"} /\ result["now"] = now
  BY DEF ReadClock
<1>2. {"now"} \cap Given = {}
  BY DEF Given
<1> HIDE DEF result
<1>3. /\ UNCHANGED tables /\ reader'.kind = reader.kind /\ reader'.since = reader.since
      /\ reader'.pc = reader.pc + 1 /\ DOMAIN reader' = DOMAIN reader \cup {"now"}
      /\ reader'["now"] = now /\ Types' /\ Filed'
      /\ \A n \in DOMAIN reader : n # "pc" /\ n # "now" => reader'[n] = reader[n]
  BY <1>1, <1>2, ReadsDoes DEF Inv
<1>4. reader.kind = "board" /\ reader.pc = 3
  BY <1>1, Where DEF Inv
<1>5. "latest" \in DOMAIN reader
  BY <1>4 DEF Inv, BoardRead
<1>6. reader'["latest"] = reader["latest"]
  BY <1>3, <1>5
<1>7. \A u \in DOMAIN reader.latest : readings[reader.latest[u]].at <= now
  BY <1>4 DEF Inv, BoardRead, Types, TablesSound
<1>8. BoardRead'
  BY <1>3, <1>4, <1>6, <1>7, Numbers DEF Inv, BoardRead, tables
<1>9. ReportRead'
  BY <1>3, <1>4 DEF ReportRead
<1>10. AnalyticsRead'
  BY <1>3, <1>4 DEF AnalyticsRead
<1> QED
  BY <1>3, <1>8, <1>9, <1>10 DEF Inv

\* The report lists readings there are.
LEMMA ListReadingsSound ==
  ASSUME Inv, ListReadings
  PROVE  Inv'
<1> DEFINE result == [rows |-> WindowReadings]
<1>1. At("readings") /\ Reads(result) /\ DOMAIN result = {"rows"} /\ result["rows"] = WindowReadings
  BY DEF ListReadings
<1>2. {"rows"} \cap Given = {}
  BY DEF Given
<1> HIDE DEF result
<1>3. /\ UNCHANGED tables /\ reader'.kind = reader.kind /\ reader'.since = reader.since
      /\ reader'.pc = reader.pc + 1 /\ DOMAIN reader' = DOMAIN reader \cup {"rows"}
      /\ reader'["rows"] = WindowReadings /\ Types' /\ Filed'
      /\ \A n \in DOMAIN reader : n # "pc" /\ n # "rows" => reader'[n] = reader[n]
  BY <1>1, <1>2, ReadsDoes DEF Inv
<1>4. reader.kind = "report" /\ reader.pc = 2
  BY <1>1, Where DEF Inv
<1>5. "units" \in DOMAIN reader /\ \A i \in 1..reader.since : readings[i].unit \in reader.units
  BY <1>4 DEF Inv, ReportRead
<1>6. reader'["units"] = reader["units"]
  BY <1>3, <1>5
<1>7. BoardRead'
  BY <1>3, <1>4 DEF BoardRead
<1>8. ReportRead'
  BY <1>3, <1>4, <1>5, <1>6 DEF ReportRead, WindowReadings, tables
<1>9. AnalyticsRead'
  BY <1>3, <1>4 DEF AnalyticsRead
<1> QED
  BY <1>3, <1>7, <1>8, <1>9 DEF Inv

\* The report lists the alerts of its window, and which are documented by then.
LEMMA ListAlertsSound ==
  ASSUME Inv, ListAlerts
  PROVE  Inv'
<1> DEFINE result == [alerts |-> WindowAlerts, documented |-> Documented]
<1>1. /\ At("alerts") /\ Reads(result) /\ DOMAIN result = {"alerts", "documented"}
      /\ result["alerts"] = WindowAlerts /\ result["documented"] = Documented
  BY DEF ListAlerts
<1>2. {"alerts", "documented"} \cap Given = {}
  BY DEF Given
<1> HIDE DEF result
<1>3. /\ UNCHANGED tables /\ reader'.kind = reader.kind /\ reader'.since = reader.since
      /\ reader'.from = reader.from /\ reader'.to = reader.to
      /\ reader'.pc = reader.pc + 1 /\ DOMAIN reader' = DOMAIN reader \cup {"alerts", "documented"}
      /\ reader'["alerts"] = WindowAlerts /\ reader'["documented"] = Documented
      /\ Types' /\ Filed'
      /\ \A n \in DOMAIN reader :
            n # "pc" /\ n \notin {"alerts", "documented"} => reader'[n] = reader[n]
  BY <1>1, <1>2, ReadsDoes DEF Inv
<1>4. reader.kind = "report" /\ reader.pc = 3
  BY <1>1, Where DEF Inv
<1>5. /\ "units" \in DOMAIN reader /\ \A i \in 1..reader.since : readings[i].unit \in reader.units
      /\ "rows" \in DOMAIN reader /\ reader.rows \subseteq DOMAIN readings
  BY <1>4 DEF Inv, ReportRead
<1>6. reader'["units"] = reader["units"] /\ reader'["rows"] = reader["rows"]
  BY <1>3, <1>5
<1>7. BoardRead'
  BY <1>3, <1>4 DEF BoardRead
<1>8. WindowAlerts' = WindowAlerts /\ Documented' = Documented
  BY <1>3 DEF WindowAlerts, InWindow, Documented, tables
<1>9. ReportRead'
  BY <1>3, <1>4, <1>5, <1>6, <1>8 DEF ReportRead, tables
<1>10. AnalyticsRead'
  BY <1>3, <1>4 DEF AnalyticsRead
<1> QED
  BY <1>3, <1>7, <1>9, <1>10 DEF Inv

\* What was documented when the alerts were listed is when the actions are.
LEMMA ListActionsSound ==
  ASSUME Inv, ListActions
  PROVE  Inv'
<1> DEFINE result == [actions |-> WindowAlerts \cap Documented]
<1>1. /\ At("actions") /\ Reads(result) /\ DOMAIN result = {"actions"}
      /\ result["actions"] = WindowAlerts \cap Documented
  BY DEF ListActions
<1>2. {"actions"} \cap Given = {}
  BY DEF Given
<1> HIDE DEF result
<1>3. /\ UNCHANGED tables /\ reader'.kind = reader.kind /\ reader'.since = reader.since
      /\ reader'.from = reader.from /\ reader'.to = reader.to
      /\ reader'.pc = reader.pc + 1 /\ DOMAIN reader' = DOMAIN reader \cup {"actions"}
      /\ reader'["actions"] = WindowAlerts \cap Documented /\ Types' /\ Filed'
      /\ \A n \in DOMAIN reader : n # "pc" /\ n # "actions" => reader'[n] = reader[n]
  BY <1>1, <1>2, ReadsDoes DEF Inv
<1>4. reader.kind = "report" /\ reader.pc = 4
  BY <1>1, Where DEF Inv
<1>5. /\ "units" \in DOMAIN reader /\ \A i \in 1..reader.since : readings[i].unit \in reader.units
      /\ "rows" \in DOMAIN reader /\ reader.rows \subseteq DOMAIN readings
      /\ {"alerts", "documented"} \subseteq DOMAIN reader
      /\ reader.alerts \subseteq WindowAlerts /\ reader.documented \subseteq Documented
  BY <1>4 DEF Inv, ReportRead
<1>6. /\ reader'["units"] = reader["units"] /\ reader'["rows"] = reader["rows"]
      /\ reader'["alerts"] = reader["alerts"] /\ reader'["documented"] = reader["documented"]
  BY <1>3, <1>5
<1>7. BoardRead'
  BY <1>3, <1>4 DEF BoardRead
<1>8. WindowAlerts' = WindowAlerts /\ Documented' = Documented
  BY <1>3 DEF WindowAlerts, InWindow, Documented, tables
<1>9. ReportRead'
  BY <1>3, <1>4, <1>5, <1>6, <1>8 DEF ReportRead, tables
<1>10. AnalyticsRead'
  BY <1>3, <1>4 DEF AnalyticsRead
<1> QED
  BY <1>3, <1>7, <1>9, <1>10 DEF Inv

\* The chain is verified after the readings were listed, and counts them all.
LEMMA VerifyChainSound ==
  ASSUME Inv, VerifyChain
  PROVE  Inv'
<1> DEFINE result == [count |-> Len(readings)]
<1>1. /\ At("verify") /\ Reads(result) /\ DOMAIN result = {"count"}
      /\ result["count"] = Len(readings)
  BY DEF VerifyChain
<1>2. {"count"} \cap Given = {}
  BY DEF Given
<1> HIDE DEF result
<1>3. /\ UNCHANGED tables /\ reader'.kind = reader.kind /\ reader'.since = reader.since
      /\ reader'.from = reader.from /\ reader'.to = reader.to
      /\ reader'.pc = reader.pc + 1 /\ DOMAIN reader' = DOMAIN reader \cup {"count"}
      /\ reader'["count"] = Len(readings) /\ Types' /\ Filed'
      /\ \A n \in DOMAIN reader : n # "pc" /\ n # "count" => reader'[n] = reader[n]
  BY <1>1, <1>2, ReadsDoes DEF Inv
<1>4. reader.kind = "report" /\ reader.pc = 5
  BY <1>1, Where DEF Inv
<1>5. /\ "units" \in DOMAIN reader /\ \A i \in 1..reader.since : readings[i].unit \in reader.units
      /\ "rows" \in DOMAIN reader /\ reader.rows \subseteq DOMAIN readings
      /\ {"alerts", "documented"} \subseteq DOMAIN reader
      /\ reader.alerts \subseteq WindowAlerts /\ reader.documented \subseteq Documented
      /\ "actions" \in DOMAIN reader
      /\ reader.alerts \cap reader.documented \subseteq reader.actions
  BY <1>4 DEF Inv, ReportRead
<1>6. /\ reader'["units"] = reader["units"] /\ reader'["rows"] = reader["rows"]
      /\ reader'["alerts"] = reader["alerts"] /\ reader'["documented"] = reader["documented"]
      /\ reader'["actions"] = reader["actions"]
  BY <1>3, <1>5
<1>7. BoardRead'
  BY <1>3, <1>4 DEF BoardRead
<1>8. WindowAlerts' = WindowAlerts /\ Documented' = Documented
  BY <1>3 DEF WindowAlerts, InWindow, Documented, tables
<1>9. reader.rows \subseteq 1..Len(readings)
  BY <1>5, Numbers DEF Inv
<1>10. ReportRead'
  BY <1>3, <1>4, <1>5, <1>6, <1>8, <1>9 DEF ReportRead, tables
<1>11. AnalyticsRead'
  BY <1>3, <1>4 DEF AnalyticsRead
<1> QED
  BY <1>3, <1>7, <1>10, <1>11 DEF Inv

\* The analytics list units with their readings, and count the days' readings last.
LEMMA AnalyticsSound ==
  ASSUME Inv, Rollup \/ CountDeviations \/ CountDays
  PROVE  Inv'
<1>1. ASSUME NEW statement \in {"rollup", "deviations", "trend"}, At(statement),
             NEW result, DOMAIN result \cap Given = {}, Reads(result)
      PROVE  /\ UNCHANGED tables /\ WindowReadings' = WindowReadings
             /\ reader.kind = "analytics" /\ reader'.kind = reader.kind
             /\ reader'.from = reader.from /\ reader'.to = reader.to
             /\ reader'.since = reader.since /\ reader'.opened = reader.opened
             /\ reader'.acted = reader.acted
             /\ reader'.pc = reader.pc + 1 /\ DOMAIN reader' = DOMAIN reader \cup DOMAIN result
             /\ \A f \in DOMAIN result : reader'[f] = result[f]
             /\ \A f \in DOMAIN reader : f # "pc" /\ f \notin DOMAIN result => reader'[f] = reader[f]
             /\ reader.from \in Int /\ reader.to \in Int
             /\ Types' /\ Filed' /\ BoardRead' /\ ReportRead'
  <2>1. reader.kind = "analytics"
    BY <1>1, Where DEF Inv
  <2>2. /\ UNCHANGED tables
        /\ reader'.kind = reader.kind /\ reader'.from = reader.from /\ reader'.to = reader.to
        /\ reader'.since = reader.since /\ reader'.opened = reader.opened
        /\ reader'.acted = reader.acted
        /\ reader'.pc = reader.pc + 1 /\ DOMAIN reader' = DOMAIN reader \cup DOMAIN result
        /\ \A f \in DOMAIN result : reader'[f] = result[f]
        /\ \A f \in DOMAIN reader : f # "pc" /\ f \notin DOMAIN result => reader'[f] = reader[f]
        /\ Types' /\ Filed'
    BY <1>1, ReadsDoes DEF Inv
  <2>3. WindowReadings' = WindowReadings
    BY <2>2 DEF WindowReadings, InWindow, tables
  <2> QED
    BY <2>1, <2>2, <2>3 DEF Inv, BoardRead, ReportRead, AnalyticsRead
<1>2. CASE Rollup
  <2> DEFINE result == [units |-> DOMAIN units, rows |-> WindowReadings]
  <2>1. /\ At("rollup") /\ Reads(result) /\ DOMAIN result = {"units", "rows"}
        /\ result["units"] = DOMAIN units /\ result["rows"] = WindowReadings
    BY <1>2 DEF Rollup
  <2> HIDE DEF result
  <2>2. DOMAIN result \cap Given = {} /\ reader.pc = 1
    BY <2>1, Where DEF Given, Inv
  <2>3. /\ UNCHANGED tables /\ WindowReadings' = WindowReadings /\ reader.kind = "analytics"
        /\ reader'.from \in Int /\ reader'.to \in Int
        /\ reader'.from = reader.from /\ reader'.to = reader.to
        /\ reader'.since = reader.since /\ reader'.opened = reader.opened
        /\ reader'.pc = reader.pc + 1 /\ DOMAIN reader' = DOMAIN reader \cup DOMAIN result
        /\ reader'["units"] = DOMAIN units /\ reader'["rows"] = WindowReadings
        /\ Types' /\ Filed' /\ BoardRead' /\ ReportRead'
    BY <1>1, <2>1, <2>2
  <2>4. /\ \A i \in 1..reader.since : InWindow(readings[i].at) => i \in WindowReadings
        /\ \A i \in 1..reader.opened : alerts[i].unit \in DOMAIN units
    <3>1. reader.since \in 0..Len(readings) /\ reader.opened \in 0..Len(alerts)
      BY <2>3 DEF Inv, Types, ReaderTyped
    <3>2. 1..reader.since \subseteq DOMAIN readings /\ 1..reader.opened \subseteq DOMAIN alerts
      BY <3>1, Numbers DEF Inv
    <3> QED
      BY <3>2 DEF Inv, Types, TablesSound, WindowReadings
  <2>5. RollupRead'
    BY <2>1, <2>3, <2>4 DEF RollupRead, InWindow, tables
  <2>6. AnalyticsRead'
    BY <2>2, <2>3, <2>5 DEF AnalyticsRead
  <2> QED
    BY <2>3, <2>6 DEF Inv
<1>3. CASE CountDeviations
  <2> DEFINE D == WindowAlerts
             U == {i \in WindowUndocumented : alerts[i].kind = "out_of_range"}
             result == [deviations |-> D, undocumented |-> U]
  <2>1. /\ At("deviations") /\ Reads(result) /\ DOMAIN result = {"deviations", "undocumented"}
        /\ result["deviations"] = D /\ result["undocumented"] = U
    BY <1>3 DEF CountDeviations
  <2> HIDE DEF result, D, U
  <2>2. DOMAIN result \cap Given = {} /\ reader.pc = 2 /\ reader.kind = "analytics"
    BY <2>1, Where DEF Given, Inv
  <2>3. RollupRead
    BY <2>2 DEF Inv, AnalyticsRead
  <2>4. /\ UNCHANGED tables /\ WindowReadings' = WindowReadings
        /\ reader'.from \in Int /\ reader'.to \in Int
        /\ reader'.from = reader.from /\ reader'.to = reader.to
        /\ reader'.since = reader.since /\ reader'.opened = reader.opened
        /\ reader'.acted = reader.acted
        /\ reader'.pc = reader.pc + 1 /\ DOMAIN reader' = DOMAIN reader \cup DOMAIN result
        /\ reader'["units"] = reader["units"] /\ reader'["rows"] = reader["rows"]
        /\ reader'["deviations"] = D /\ reader'["undocumented"] = U
        /\ Types' /\ Filed' /\ BoardRead' /\ ReportRead'
    BY <1>1, <2>1, <2>2, <2>3 DEF RollupRead
  <2>5. 1..reader.opened \subseteq DOMAIN alerts /\ 1..reader.acted \subseteq DOMAIN actions
        /\ DOMAIN actions = 1..Len(actions)
    BY <2>2, Numbers DEF Inv, Types, ReaderTyped
  <2>6. /\ \A i \in 1..reader.opened : InWindow(alerts[i].at) => i \in D
        /\ Lacking(Len(actions)) \subseteq U /\ U \subseteq Lacking(reader.acted)
    BY <2>5 DEF D, U, Lacking, WindowUndocumented, WindowAlerts, Documented
  <2>7. DeviationsRead'
    <3>1. /\ WindowAlerts' = D /\ Lacking(Len(actions))' = Lacking(Len(actions))
          /\ Lacking(reader.acted)' = Lacking(reader.acted)
      BY <2>4 DEF D, Lacking, WindowAlerts, InWindow, tables
    <3>2. \A i \in 1..reader'.opened : InWindow(alerts[i].at)' => i \in D
      BY <2>4, <2>6 DEF InWindow, tables
    <3> QED
      BY <2>1, <2>4, <2>6, <3>1, <3>2 DEF DeviationsRead
  <2>8. RollupRead'
    BY <2>3, <2>4 DEF RollupRead, InWindow, tables
  <2>9. AnalyticsRead'
    BY <2>2, <2>4, <2>7, <2>8 DEF AnalyticsRead
  <2> QED
    BY <2>4, <2>9 DEF Inv
<1>4. CASE CountDays
  <2> DEFINE result == [trend |-> WindowReadings]
  <2>1. /\ At("trend") /\ Reads(result) /\ DOMAIN result = {"trend"}
        /\ result["trend"] = WindowReadings
    BY <1>4 DEF CountDays
  <2> HIDE DEF result
  <2>2. DOMAIN result \cap Given = {} /\ reader.pc = 3 /\ reader.kind = "analytics"
    BY <2>1, Where DEF Given, Inv
  <2>3. RollupRead /\ DeviationsRead
    BY <2>2 DEF Inv, AnalyticsRead
  <2>4. /\ UNCHANGED tables /\ WindowReadings' = WindowReadings
        /\ reader'.from \in Int /\ reader'.to \in Int
        /\ reader'.from = reader.from /\ reader'.to = reader.to
        /\ reader'.since = reader.since /\ reader'.opened = reader.opened
        /\ reader'.acted = reader.acted
        /\ reader'.pc = reader.pc + 1 /\ DOMAIN reader' = DOMAIN reader \cup DOMAIN result
        /\ reader'["units"] = reader["units"] /\ reader'["rows"] = reader["rows"]
        /\ reader'["deviations"] = reader["deviations"]
        /\ reader'["undocumented"] = reader["undocumented"]
        /\ reader'["trend"] = WindowReadings
        /\ Types' /\ Filed' /\ BoardRead' /\ ReportRead'
    BY <1>1, <2>1, <2>2, <2>3 DEF RollupRead, DeviationsRead
  <2>5. RollupRead'
    BY <2>3, <2>4 DEF RollupRead, InWindow, tables
  <2>6. DeviationsRead'
    <3>1. /\ WindowAlerts' = WindowAlerts /\ Lacking(Len(actions))' = Lacking(Len(actions))
          /\ Lacking(reader.acted)' = Lacking(reader.acted)
      BY <2>4 DEF Lacking, WindowAlerts, InWindow, tables
    <3>2. \A i \in 1..reader'.opened : InWindow(alerts[i].at)' => i \in reader.deviations
      BY <2>3, <2>4 DEF DeviationsRead, InWindow, tables
    <3> QED
      BY <2>3, <2>4, <3>1, <3>2 DEF DeviationsRead
  <2>7. AnalyticsRead'
    BY <2>1, <2>2, <2>3, <2>4, <2>5, <2>6 DEF AnalyticsRead, RollupRead
  <2> QED
    BY <2>4, <2>7 DEF Inv
<1> QED
  BY <1>2, <1>3, <1>4

\* A request that has just begun has read nothing.
LEMMA BeginSound ==
  ASSUME Inv, NEW kind \in Asking, NEW from \in Asked \cup {None}, NEW to \in Asked \cup {None},
         Begin(kind, from, to)
  PROVE  Inv'
<1>1. /\ UNCHANGED <<tables, ingest, left>>
      /\ reader'.kind = kind /\ reader'.pc = 1 /\ reader'.since = Len(readings)
      /\ reader'.opened = Len(alerts) /\ reader'.acted = Len(actions)
      /\ DOMAIN reader' = Given /\ reader'.from \in Int /\ reader'.to \in Int
  <2> DEFINE w == DateRange(from, to)
  <2>1. /\ UNCHANGED <<tables, ingest, left>>
        /\ reader' = [kind |-> kind, pc |-> 1, from |-> w[1], to |-> w[2],
                      since |-> Len(readings), opened |-> Len(alerts), acted |-> Len(actions)]
    BY DEF Begin
  <2>2. w[1] \in Int /\ w[2] \in Int
    <3>1. now \in Int /\ Day \in Int /\ Asked \subseteq Int
      BY Numbers, ConstantsOK DEF Inv
    <3> QED
      BY <3>1 DEF DateRange
  <2> HIDE DEF w
  <2> QED
    BY <2>1, <2>2 DEF Given
<1>2. TablesTyped' /\ TablesSound' /\ IngestTyped' /\ Filed'
  BY <1>1, TablesFrame DEF Inv, Types, IngestTyped, Filed, Bound, tables
<1>3. ReaderTyped'
  <2>1. Len(Statements(kind)) \in Nat
    BY DEF Statements, Asking
  <2>2. 1 \in 1..Len(Statements(kind)) + 1 /\ Len(readings) \in 0..Len(readings)
        /\ Len(alerts) \in 0..Len(alerts) /\ Len(actions) \in 0..Len(actions)
    BY <2>1, Numbers DEF Inv
  <2> QED
    BY <1>1, <2>2 DEF ReaderTyped, Statements, Asking, tables
<1>4. BoardRead' /\ ReportRead' /\ AnalyticsRead'
  BY <1>1 DEF BoardRead, ReportRead, AnalyticsRead
<1> QED
  BY <1>2, <1>3, <1>4 DEF Inv, Types

-----------------------------------------------------------------------------
(* The invariant and what follows from it.                                 *)

\* It holds of empty tables.
LEMMA InvInit == Init => Inv
<1> SUFFICES ASSUME Init PROVE Inv
  OBVIOUS
<1>1. /\ DOMAIN units = {} /\ DOMAIN readings = {} /\ DOMAIN alerts = {} /\ DOMAIN actions = {}
      /\ ingest.pc = "none" /\ reader.kind = "none"
  BY DEF Init, NoIngest, NoReader
<1>2. TablesTyped
  <2>1. now \in 0..MaxNow
    BY ConstantsOK DEF Init, ConstantsOK
  <2>2. readings \in Seq(Reading) /\ alerts \in Seq(AlertRow) /\ actions \in Seq(Nat)
    BY DEF Init
  <2>3. left \in [Units -> [Macs -> Int]]
    BY DEF Init
  <2>4. units \in [DOMAIN units -> Macs \cup {None}]
    <3>1. units = <<>>
      BY DEF Init
    <3>2. <<>> \in Seq(Macs \cup {None}) /\ Len(<<>>) = 0 /\ DOMAIN <<>> = {}
      OBVIOUS
    <3>3. <<>> \in [1..0 -> Macs \cup {None}]
      OBVIOUS
    <3>4. 1..0 = {}
      OBVIOUS
    <3> QED
      BY <3>1, <3>2, <3>3, <3>4, Zenon
  <2> QED
    BY <1>1, <2>1, <2>2, <2>3, <2>4 DEF TablesTyped
<1> QED
  BY <1>1, <1>2 DEF Inv, Types, TablesSound, IngestTyped, ReaderTyped, Filed, BoardRead, ReportRead,
     AnalyticsRead

\* It holds after every step: a page half read stays right while the tables grow, and
\* what a statement adds to it is right.
LEMMA InvNext == Inv /\ [Next]_vars => Inv'
<1> SUFFICES ASSUME Inv, [Next]_vars PROVE Inv'
  OBVIOUS
<1>1. ASSUME Types', Filed', Kept, reader' = reader PROVE Inv'
  BY <1>1, ReaderKept DEF Inv
<1>2. CASE Tick
  BY <1>1, <1>2, TickSound DEF Inv, Tick
<1>3. ASSUME NEW u \in Units, CreateUnit(u) PROVE Inv'
  BY <1>1, <1>3, CreateUnitSound DEF Inv, CreateUnit
<1>4. ASSUME NEW u \in DOMAIN units, NEW m \in Macs \cup {None}, SetUnitSensorMAC(u, m) PROVE Inv'
  BY <1>1, <1>4, SetUnitSensorMACSound DEF Inv, SetUnitSensorMAC
<1>5. ASSUME NEW u \in DOMAIN units, NEW temp \in Temps, CreateReading(u, temp) PROVE Inv'
  BY <1>1, <1>5, CreateReadingSound DEF Inv, CreateReading
<1>6. CASE \/ \E m \in Macs, temp \in Temps, t \in 0..(now + Skew) : IngestReading(m, temp, t)
           \/ IngestLookup \/ IngestStore
  <2>1. reader' = reader
    BY <1>6 DEF IngestReading, IngestLookup, IngestStore
  <2> QED
    BY <1>1, <1>6, <2>1, IngestSound DEF Inv
<1>7. ASSUME NEW u \in DOMAIN units, NEW kind \in Kinds, OpenAlert(u, kind) PROVE Inv'
  BY <1>1, <1>7, OpenAlertSound DEF Inv, OpenAlert
<1>8. ASSUME NEW i \in DOMAIN alerts, ResolveAlert(i) PROVE Inv'
  BY <1>1, <1>8, ResolveAlertSound DEF Inv, ResolveAlert
<1>9. ASSUME NEW i \in DOMAIN alerts, CreateCorrectiveAction(i) PROVE Inv'
  BY <1>1, <1>9, CreateCorrectiveActionSound DEF Inv, CreateCorrectiveAction
<1>10. CASE \/ Begin("board", None, None)
            \/ \E kind \in {"report", "analytics"}, from, to \in Asked \cup {None} :
                Begin(kind, from, to)
  BY <1>10, BeginSound DEF Asking
<1>11. CASE Read
  BY <1>11, ListUnitsSound, LatestByLocationSound, ReadClockSound, ListReadingsSound,
     ListAlertsSound, ListActionsSound, VerifyChainSound, AnalyticsSound DEF Read
<1>12. CASE UNCHANGED vars
  <2>1. Types' /\ Filed' /\ Kept
    BY <1>12, TablesFrame DEF Inv, vars, tables, Types, IngestTyped, ReaderTyped, Filed, Bound
  <2> QED
    BY <1>1, <1>12, <2>1 DEF vars
<1> QED
  BY <1>2, <1>3, <1>4, <1>5, <1>6, <1>7, <1>8, <1>9, <1>10, <1>11, <1>12 DEF Next

\* The invariant holds always.
LEMMA InvAlways == Spec => []Inv
  BY InvInit, InvNext, PTL DEF Spec

\* The tables hold what they should, one unit for a sensor and one open alert for a unit
\* and kind, and what a row refers to is there.
THEOREM RecordsTypeCorrect == Spec => []TypeOK
<1>1. Inv => TypeOK
  <2> SUFFICES ASSUME Inv PROVE TypeOK
    OBVIOUS
  <2>1. now \in 0..MaxNow /\ now \in Nat /\ MaxNow \in Nat /\ Skew \in Nat
    BY Numbers, ConstantsOK DEF Inv, ConstantsOK
  <2>2. \A u \in DOMAIN units : units[u] \in Macs \cup {None}
    BY DEF Inv, Types, TablesTyped
  <2>3. ASSUME NEW i \in DOMAIN readings
        PROVE  readings[i] \in [unit : DOMAIN units, temp : Temps, at : 0..(MaxNow + Skew),
                                mac : Macs \cup {None}]
    <3>1. readings[i].at \in 0..(MaxNow + Skew)
      BY <2>1, Numbers DEF Inv, Types, TablesSound
    <3>2. readings[i] \in Reading /\ readings[i].unit \in DOMAIN units
      BY Numbers DEF Inv, Types, TablesSound
    <3> QED
      BY <3>1, <3>2 DEF Reading
  <2>4. ASSUME NEW i \in DOMAIN alerts
        PROVE  alerts[i] \in [unit : DOMAIN units, kind : Kinds, at : 0..now, open : BOOLEAN]
    <3>1. alerts[i].at \in 0..now
      BY <2>1, Numbers DEF Inv, Types, TablesSound
    <3>2. alerts[i] \in AlertRow /\ alerts[i].unit \in DOMAIN units
      BY Numbers DEF Inv, Types, TablesSound
    <3> QED
      BY <3>1, <3>2 DEF AlertRow
  <2>5. reader.kind # "none" =>
            /\ reader.pc \in 1..6 /\ reader.since \in 0..Len(readings)
            /\ reader.opened \in 0..Len(alerts) /\ reader.acted \in 0..Len(actions)
    BY DEF Inv, Types, ReaderTyped, Asking, Statements
  <2> QED
    BY <2>1, <2>2, <2>3, <2>4, <2>5 DEF TypeOK, Inv, Types, TablesTyped, TablesSound, IngestTyped
<1> QED
  BY <1>1, InvAlways, PTL

\* A reading is never filed under a unit its sensor had left before it was measured.
THEOREM ReadingsFiledRight == Spec => []FiledUnderBoundUnit
<1>1. Inv => FiledUnderBoundUnit
  BY DEF Inv, Filed, FiledUnderBoundUnit, Bound
<1> QED
  BY <1>1, InvAlways, PTL

\* What the board says of a unit was so: its ok, its overdue and its no data.
THEOREM BoardTellsTruth == Spec => []BoardTruthful
<1>1. Inv => BoardTruthful
  <2> SUFFICES ASSUME Inv, Done("board"), NEW u \in reader.units
               PROVE  LET of(i) == readings[i].unit = u
                          fresh(i) == /\ 0 <= reader.now - readings[i].at
                                      /\ reader.now - readings[i].at <= Interval
                      IN  /\ Status(u) = "ok" =>
                              \E i \in DOMAIN readings :
                                 of(i) /\ fresh(i) /\ ~OutOfRange(readings[i].temp, SafeMin, SafeMax)
                          /\ Status(u) = "no_data" => \A i \in 1..reader.since : ~of(i)
                          /\ Status(u) = "overdue" => \A i \in 1..reader.since : ~(of(i) /\ fresh(i))
    BY DEF BoardTruthful
  <2>1. reader.kind = "board" /\ reader.pc >= 4 /\ reader.pc >= 3 /\ Interval \in Nat
    BY ConstantsOK DEF Done, Statements, Inv, Types, ReaderTyped, ConstantsOK
  <2>2. /\ \A v \in DOMAIN reader.latest :
            /\ reader.latest[v] \in DOMAIN readings /\ readings[reader.latest[v]].unit = v
            /\ \A i \in 1..reader.since :
                readings[i].unit = v => readings[i].at <= readings[reader.latest[v]].at
            /\ readings[reader.latest[v]].at <= reader.now
        /\ \A i \in 1..reader.since : readings[i].unit \in DOMAIN reader.latest
        /\ reader.now \in Nat
    BY <2>1 DEF Inv, BoardRead
  <2>3. \A i \in 1..reader.since : readings[i].at \in Nat
    BY <2>1, Numbers DEF Inv, Types, ReaderTyped
  <2>4. CASE u \notin DOMAIN reader.latest
    BY <2>2, <2>4 DEF Status
  <2>5. CASE u \in DOMAIN reader.latest
    <3> DEFINE l == reader.latest[u]
    <3>1. l \in DOMAIN readings /\ readings[l].at \in Nat /\ readings[l].unit = u
      BY <2>2, <2>5, Numbers DEF Inv
    <3>2. Status(u) = IF OutOfRange(readings[l].temp, SafeMin, SafeMax) THEN "out_of_range"
                      ELSE IF reader.now - readings[l].at > Interval THEN "overdue" ELSE "ok"
      BY <2>5 DEF Status
    <3>3. readings[l].at <= reader.now
      BY <2>2, <2>5
    <3>4. \A i \in 1..reader.since : readings[i].unit = u => readings[i].at <= readings[l].at
      BY <2>2, <2>5
    <3> HIDE DEF l
    <3>5. Status(u) # "no_data"
      BY <3>2
    <3>6. ASSUME Status(u) = "ok"
          PROVE  /\ ~OutOfRange(readings[l].temp, SafeMin, SafeMax)
                 /\ 0 <= reader.now - readings[l].at /\ reader.now - readings[l].at <= Interval
      BY <2>1, <2>2, <3>1, <3>2, <3>3, <3>6
    <3>7. ASSUME Status(u) = "overdue", NEW i \in 1..reader.since, readings[i].unit = u
          PROVE  ~(reader.now - readings[i].at <= Interval)
      <4>1. reader.now - readings[l].at > Interval
        BY <3>2, <3>7
      <4>2. readings[i].at <= readings[l].at /\ readings[i].at \in Nat
        BY <2>3, <3>4, <3>7
      <4> QED
        BY <2>1, <2>2, <3>1, <4>1, <4>2
    <3> QED
      BY <3>1, <3>5, <3>6, <3>7
  <2> QED
    BY <2>4, <2>5
<1> QED
  BY <1>1, InvAlways, PTL

\* What the report prints is so: its integrity line covers its rows, no documented
\* deviation is printed as undocumented, and old readings are judged by their range.
THEOREM ReportTellsTruth == Spec => []ReportTruthful
<1>1. Inv => ReportTruthful
  <2> SUFFICES ASSUME Inv, Done("report")
               PROVE  /\ reader.rows \subseteq 1..reader.count
                      /\ \A i \in PrintedUndocumented : i \notin reader.documented
                      /\ \A i \in reader.rows : i <= reader.since =>
                            RowOk(i) = ~OutOfRange(readings[i].temp, SafeMin, SafeMax)
    BY DEF ReportTruthful, IntegrityCoversRows, UndocumentedTrue, OldRowsRight
  <2>1. /\ reader.kind = "report" /\ reader.pc >= 6 /\ reader.pc >= 5 /\ reader.pc >= 3
        /\ reader.pc >= 2
    BY DEF Done, Statements, Inv, Types, ReaderTyped
  <2>2. reader.rows \subseteq 1..reader.count
    BY <2>1 DEF Inv, ReportRead
  <2>3. \A i \in PrintedUndocumented : i \notin reader.documented
    BY <2>1 DEF Inv, ReportRead, PrintedUndocumented
  <2>4. ASSUME NEW i \in reader.rows, i <= reader.since
        PROVE  RowOk(i) = ~OutOfRange(readings[i].temp, SafeMin, SafeMax)
    <3>1. i \in DOMAIN readings /\ i \in 1..reader.since
      BY <2>1, <2>4, Numbers DEF Inv, ReportRead, Types, ReaderTyped
    <3>2. readings[i].unit \in reader.units
      BY <2>1, <3>1 DEF Inv, ReportRead
    <3> QED
      BY <3>2 DEF RowOk
  <2> QED
    BY <2>2, <2>3, <2>4
<1> QED
  BY <1>1, InvAlways, PTL

-----------------------------------------------------------------------------
(* The analytics: sums over days and over units.                           *)

\* Finite sets, not none, have a smallest one among them.
LEMMA SmallestSet ==
  ASSUME NEW Sets, Sets # {}, \A s \in Sets : IsFiniteSet(s)
  PROVE  \E s \in Sets : \A t \in Sets : Cardinality(s) <= Cardinality(t)
<1> DEFINE N == {Cardinality(s) : s \in Sets}
           R == {p \in Nat \X Nat : p[1] < p[2]}
<1>1. N \subseteq Nat /\ N # {}
  BY FS_CardinalityType
<1>2. IsWellFoundedOn(R, Nat)
  BY NatLessThanWellFounded DEF OpToRel
<1>3. PICK n \in N : \A m \in N : ~(<<m, n>> \in R)
  BY <1>1, <1>2, WFMin
<1>4. \A m \in N : ~(m < n)
  <2> HIDE DEF N
  <2> QED
    BY <1>1, <1>3
<1>5. \A m \in N : n <= m
  <2> HIDE DEF N, R
  <2> QED
    BY <1>1, <1>4
<1> HIDE DEF R
<1> QED
  BY <1>5

\* A finite set counts as much as its parts.
LEMMA PartsCount ==
  ASSUME NEW S, IsFiniteSet(S), NEW T \in SUBSET S
  PROVE  /\ Cardinality(S) \in Nat /\ Cardinality(T) \in Nat /\ Cardinality(S \ T) \in Nat
         /\ Cardinality(S) = Cardinality(T) + Cardinality(S \ T)
         /\ IsFiniteSet(T) /\ IsFiniteSet(S \ T)
         /\ T # {} => Cardinality(T) > 0
<1>1. S \cap T = T
  OBVIOUS
<1>2. IsFiniteSet(T) /\ IsFiniteSet(S \ T)
  BY FS_Subset, FS_Difference
<1>3. /\ Cardinality(S) \in Nat /\ Cardinality(T) \in Nat /\ Cardinality(S \ T) \in Nat
  BY <1>2, FS_CardinalityType
<1>4. Cardinality(S \ T) = Cardinality(S) - Cardinality(T)
  BY <1>1, FS_Difference
<1>5. T # {} => Cardinality(T) # 0
  BY <1>2, FS_EmptySet
<1> QED
  BY <1>2, <1>3, <1>4, <1>5

\* The members of S whose key is one of s.
Keyed(S, key, s) == {i \in S : key[i] \in s}

\* Whoever has one of the keys of s has k, or one of the others.
LEMMA KeyApart ==
  ASSUME NEW S, IsFiniteSet(S), NEW key, NEW s, NEW k \in s
  PROVE  Cardinality(Keyed(S, key, s))
            = Cardinality(Keyed(S, key, {k})) + Cardinality(Keyed(S, key, s \ {k}))
<1> DEFINE A == Keyed(S, key, s)
           T == Keyed(S, key, {k})
           R == Keyed(S, key, s \ {k})
<1>1. T \subseteq A /\ A \ T = R /\ A \subseteq S
  BY DEF Keyed
<1>2. IsFiniteSet(A)
  BY <1>1, FS_Subset
<1> HIDE DEF A, T, R
<1>3. Cardinality(A) = Cardinality(T) + Cardinality(R)
  BY <1>1, <1>2, PartsCount
<1> QED
  BY <1>3 DEF A, T, R

\* The recursion of a sum over keys.
SumsUp(S, key, keys, sum) ==
  \A s \in SUBSET keys :
    sum[s] = IF s = {} THEN 0
             ELSE Cardinality(Keyed(S, key, {CHOOSE k \in s : TRUE}))
                    + sum[s \ {CHOOSE k \in s : TRUE}]

\* Whatever satisfies it counts who has them.
LEMMA SumCounts ==
  ASSUME NEW S, IsFiniteSet(S), NEW key, NEW keys, IsFiniteSet(keys), NEW sum,
         SumsUp(S, key, keys, sum)
  PROVE  sum[keys] = Cardinality(Keyed(S, key, keys))
<1> DEFINE Wrong == {s \in SUBSET keys : sum[s] # Cardinality(Keyed(S, key, s))}
<1> SUFFICES ASSUME Wrong # {} PROVE FALSE
  OBVIOUS
<1>1. \A s \in Wrong : IsFiniteSet(s) /\ s \subseteq keys
  BY FS_Subset
<1>2. PICK s \in Wrong : \A t \in Wrong : Cardinality(s) <= Cardinality(t)
  BY <1>1, SmallestSet
<1>3. s # {}
  <2>1. Keyed(S, key, {}) = {}
    BY DEF Keyed
  <2> QED
    BY <2>1, FS_EmptySet DEF SumsUp
<1>4. PICK k : k = (CHOOSE x \in s : TRUE)
  OBVIOUS
<1>5. k \in s /\ s \in SUBSET keys
  BY <1>1, <1>3, <1>4
<1>6. sum[s] = Cardinality(Keyed(S, key, {k})) + sum[s \ {k}]
  BY <1>3, <1>4, <1>5 DEF SumsUp
<1>7. Cardinality(s \ {k}) < Cardinality(s)
  <2>1. Cardinality(s \ {k}) = Cardinality(s) - 1 /\ Cardinality(s) \in Nat
    BY <1>1, <1>5, FS_RemoveElement, FS_CardinalityType
  <2> QED
    BY <2>1
<1>8. Cardinality(s) \in Nat /\ Cardinality(s \ {k}) \in Nat
  BY <1>1, FS_RemoveElement, FS_CardinalityType
<1>9. s \ {k} \notin Wrong
  BY <1>2, <1>7, <1>8
<1>10. sum[s \ {k}] = Cardinality(Keyed(S, key, s \ {k}))
  BY <1>5, <1>9
<1> QED
  BY <1>5, <1>6, <1>10, KeyApart

\* There is such a sum.
Counting(S, key, keys) == [s \in SUBSET keys |-> Cardinality(Keyed(S, key, s))]

LEMMA CountingSums ==
  ASSUME NEW S, IsFiniteSet(S), NEW key, NEW keys
  PROVE  SumsUp(S, key, keys, Counting(S, key, keys))
<1> DEFINE sum == Counting(S, key, keys)
<1>0. \A t \in SUBSET keys : sum[t] = Cardinality(Keyed(S, key, t))
  BY DEF Counting
<1> HIDE DEF sum
<1> SUFFICES ASSUME NEW s \in SUBSET keys
             PROVE  sum[s] = IF s = {} THEN 0
                             ELSE Cardinality(Keyed(S, key, {CHOOSE k \in s : TRUE}))
                                    + sum[s \ {CHOOSE k \in s : TRUE}]
  BY DEF SumsUp, sum
<1>1. CASE s = {}
  <2>1. Keyed(S, key, {}) = {}
    BY DEF Keyed
  <2> QED
    BY <1>0, <1>1, <2>1, FS_EmptySet
<1>2. CASE s # {}
  <2>1. PICK k : k = (CHOOSE x \in s : TRUE)
    OBVIOUS
  <2>2. k \in s
    BY <1>2, <2>1
  <2>3. sum[s] = Cardinality(Keyed(S, key, {k})) + sum[s \ {k}]
    BY <1>0, <2>2, KeyApart
  <2> QED
    BY <1>2, <2>1, <2>3
<1> QED
  BY <1>1, <1>2

\* What the sums of the page are computed by.
DaysStep(days, f) ==
  [s \in SUBSET days |-> IF s = {} THEN 0
                         ELSE OnDay(CHOOSE d \in s : TRUE) + f[s \ {CHOOSE d \in s : TRUE}]]

UnitsStep(us, f) ==
  [s \in SUBSET us |-> IF s = {} THEN 0
                       ELSE OfUnit(CHOOSE u \in s : TRUE) + f[s \ {CHOOSE u \in s : TRUE}]]

\* The days' sum counts the readings on the days it is given.
LEMMA DaysCount ==
  ASSUME NEW days, IsFiniteSet(days), IsFiniteSet(reader.trend)
  PROVE  MapThenSumSet(OnDay, days)
            = Cardinality({i \in reader.trend : readings[i].at \div Day \in days})
<1> DEFINE S == reader.trend
           key == [i \in S |-> readings[i].at \div Day]
           g == Counting(S, key, days)
           iter == CHOOSE f : f = DaysStep(days, f)
<1>1. MapThenSumSet(OnDay, days) = iter[days]
  BY DEF MapThenSumSet, MapThenFoldSet, DaysStep
<1>2. /\ \A d : OnDay(d) = Cardinality(Keyed(S, key, {d}))
      /\ Keyed(S, key, days) = {i \in S : readings[i].at \div Day \in days}
  <2>1. ASSUME NEW d PROVE OnDay(d) = Cardinality(Keyed(S, key, {d}))
    <3>1. Keyed(S, key, {d}) = {i \in S : readings[i].at \div Day = d}
      BY DEF Keyed
    <3> QED
      BY <3>1 DEF OnDay
  <2>2. Keyed(S, key, days) = {i \in S : readings[i].at \div Day \in days}
    BY DEF Keyed
  <2> QED
    BY <2>1, <2>2
<1> HIDE DEF key
<1>3. g = DaysStep(days, g)
  <2>1. SumsUp(S, key, days, g)
    BY CountingSums
  <2>2. g = [s \in SUBSET days |-> g[s]]
    BY DEF Counting
  <2> HIDE DEF g
  <2>3. \A s \in SUBSET days :
            g[s] = IF s = {} THEN 0
                   ELSE OnDay(CHOOSE d \in s : TRUE) + g[s \ {CHOOSE d \in s : TRUE}]
    BY <1>2, <2>1 DEF SumsUp
  <2> QED
    BY <2>2, <2>3 DEF DaysStep
<1>4. iter = DaysStep(days, iter)
  BY <1>3
<1> HIDE DEF iter, g
<1>5. SumsUp(S, key, days, iter)
  BY <1>2, <1>4 DEF DaysStep, SumsUp
<1>6. iter[days] = Cardinality(Keyed(S, key, days))
  BY <1>5, SumCounts
<1> QED
  BY <1>1, <1>2, <1>6

\* The units' sum counts the deviations of the units it is given.
LEMMA UnitsCount ==
  ASSUME NEW us, IsFiniteSet(us), IsFiniteSet(reader.deviations)
  PROVE  MapThenSumSet(OfUnit, us) = Cardinality({i \in reader.deviations : alerts[i].unit \in us})
<1> DEFINE S == reader.deviations
           key == [i \in S |-> alerts[i].unit]
           g == Counting(S, key, us)
           iter == CHOOSE f : f = UnitsStep(us, f)
<1>1. MapThenSumSet(OfUnit, us) = iter[us]
  BY DEF MapThenSumSet, MapThenFoldSet, UnitsStep
<1>2. /\ \A u : OfUnit(u) = Cardinality(Keyed(S, key, {u}))
      /\ Keyed(S, key, us) = {i \in S : alerts[i].unit \in us}
  <2>1. ASSUME NEW u PROVE OfUnit(u) = Cardinality(Keyed(S, key, {u}))
    <3>1. Keyed(S, key, {u}) = {i \in S : alerts[i].unit = u}
      BY DEF Keyed
    <3> QED
      BY <3>1 DEF OfUnit
  <2>2. Keyed(S, key, us) = {i \in S : alerts[i].unit \in us}
    BY DEF Keyed
  <2> QED
    BY <2>1, <2>2
<1> HIDE DEF key
<1>3. g = UnitsStep(us, g)
  <2>1. SumsUp(S, key, us, g)
    BY CountingSums
  <2>2. g = [s \in SUBSET us |-> g[s]]
    BY DEF Counting
  <2> HIDE DEF g
  <2>3. \A s \in SUBSET us :
            g[s] = IF s = {} THEN 0
                   ELSE OfUnit(CHOOSE u \in s : TRUE) + g[s \ {CHOOSE u \in s : TRUE}]
    BY <1>2, <2>1 DEF SumsUp
  <2> QED
    BY <2>2, <2>3 DEF UnitsStep
<1>4. iter = UnitsStep(us, iter)
  BY <1>3
<1> HIDE DEF iter, g
<1>5. SumsUp(S, key, us, iter)
  BY <1>2, <1>4 DEF UnitsStep, SumsUp
<1>6. iter[us] = Cardinality(Keyed(S, key, us))
  BY <1>5, SumCounts
<1> QED
  BY <1>1, <1>2, <1>6

\* Times of a window fall on its days.
LEMMA OnADay ==
  ASSUME NEW from \in Int, NEW to \in Int, NEW at \in Int, from <= at, at < to
  PROVE  at \div Day \in Buckets(from, to)
<1> DEFINE a == from \div Day
           q == at \div Day
           k == q - a
<1>0. Day \in Nat \ {0}
  BY ConstantsOK
<1>1. a \in Int /\ a * Day <= from /\ from < a * Day + Day
  BY <1>0, SMTT(30)
<1>2. q \in Int /\ q * Day <= at /\ at < q * Day + Day
  BY <1>0, SMTT(30)
<1> HIDE DEF a, q
<1>3. k \in Int /\ a * Day + k * Day = q * Day
  BY <1>0, <1>1, <1>2
<1>4. k >= 0
  <2>1. ~(q + 1 <= a)
    <3> SUFFICES ASSUME q + 1 <= a PROVE FALSE
      OBVIOUS
    <3>1. (q + 1) * Day <= a * Day
      BY <1>0, <1>1, <1>2
    <3>2. (q + 1) * Day = q * Day + Day
      BY <1>0, <1>2
    <3> QED
      BY <1>0, <1>1, <1>2, <3>1, <3>2
  <2> QED
    BY <1>1, <1>2, <2>1
<1> HIDE DEF k
<1>5. k <= k * Day
  BY <1>0, <1>3, <1>4
<1>6. a * Day \in Int /\ q * Day \in Int /\ k * Day \in Int
  BY <1>0, <1>1, <1>2, <1>3
<1>7. a * Day + k * Day < to
  BY <1>2, <1>3, <1>6
<1>8. k \in 0 .. (to - a * Day)
  BY <1>3, <1>4, <1>5, <1>6, <1>7
<1>9. (a * Day + k * Day) \div Day = q
  BY <1>0, <1>2, <1>3
<1>10. Truncated(from) = a * Day
  BY DEF Truncated, a
<1> QED
  BY <1>7, <1>8, <1>9, <1>10 DEF Buckets, q

\* A window has finitely many days.
LEMMA DaysFinite ==
  ASSUME NEW from \in Int, NEW to \in Int
  PROVE  IsFiniteSet(Buckets(from, to))
<1> DEFINE first == Truncated(from)
           K == {k \in 0 .. (to - first) : first + k * Day < to}
<1>1. first \in Int
  <2>1. Day \in Nat \ {0}
    BY ConstantsOK
  <2>2. from \div Day \in Int
    BY <2>1
  <2> QED
    BY <2>1, <2>2 DEF Truncated
<1>2. IsFiniteSet(K)
  <2>1. IsFiniteSet(0 .. (to - first))
    BY <1>1, FS_Interval
  <2> QED
    BY <2>1, FS_Subset
<1> HIDE DEF K, first
<1> DEFINE f == [k \in K |-> (first + k * Day) \div Day]
<1>3. f \in Surjection(K, {f[k] : k \in K})
  BY DEF Surjection
<1>4. IsFiniteSet({f[k] : k \in K})
  <2> HIDE DEF f
  <2> QED
    BY <1>2, <1>3, FS_Surjection
<1>5. {f[k] : k \in K} = Buckets(from, to)
  BY DEF Buckets, K, first
<1> QED
  BY <1>4, <1>5

\* There are never more than finitely many units.
LEMMA FiniteUnits == Spec => []IsFiniteSet(DOMAIN units)
<1>1. Init => IsFiniteSet(DOMAIN units)
  <2>1. Init => DOMAIN units = {}
    BY DEF Init
  <2> QED
    BY <2>1, FS_EmptySet
<1>2. Inv /\ IsFiniteSet(DOMAIN units) /\ [Next]_vars => IsFiniteSet(DOMAIN units)'
  <2> SUFFICES ASSUME Inv, IsFiniteSet(DOMAIN units), [Next]_vars
               PROVE  IsFiniteSet(DOMAIN units')
    OBVIOUS
  <2>1. ASSUME NEW u \in Units, CreateUnit(u) PROVE IsFiniteSet(DOMAIN units')
    <3>1. DOMAIN units' = DOMAIN units \cup {u}
      BY <2>1 DEF CreateUnit
    <3> QED
      BY <3>1, FS_AddElement
  <2>2. CASE \E u \in DOMAIN units, m \in Macs \cup {None} : SetUnitSensorMAC(u, m)
    BY <2>2 DEF SetUnitSensorMAC
  <2>3. CASE \/ \E u \in DOMAIN units, temp \in Temps : CreateReading(u, temp)
             \/ \E m \in Macs, temp \in Temps, t \in 0..(now + Skew) : IngestReading(m, temp, t)
             \/ IngestLookup \/ IngestStore
    BY <2>3 DEF CreateReading, IngestReading, IngestLookup, IngestStore, tables
  <2>4. CASE \/ \E u \in DOMAIN units, kind \in Kinds : OpenAlert(u, kind)
             \/ \E i \in DOMAIN alerts : ResolveAlert(i) \/ CreateCorrectiveAction(i)
    BY <2>4 DEF OpenAlert, ResolveAlert, CreateCorrectiveAction
  <2>5. CASE Tick \/ Begin("board", None, None) \/ UNCHANGED vars
             \/ \E kind \in {"report", "analytics"}, from, to \in Asked \cup {None} :
                 Begin(kind, from, to)
    BY <2>5 DEF Tick, Begin, vars, tables
  <2>6. CASE Read
    BY <2>6 DEF Read, ListUnits, LatestByLocation, ReadClock, ListReadings, ListAlerts, ListActions,
       VerifyChain, Rollup, CountDeviations, CountDays, Reads, tables
  <2> QED
    BY <2>1, <2>2, <2>3, <2>4, <2>5, <2>6 DEF Next
<1> QED
  BY <1>1, <1>2, InvAlways, PTL DEF Spec

\* What a page that is done is made of.
LEMMA AnalyticsPage ==
  ASSUME Inv, Done("analytics")
  PROVE  /\ RollupRead /\ DeviationsRead
         /\ reader.from \in Int /\ reader.to \in Int
         /\ reader.rows \subseteq reader.trend /\ reader.trend \subseteq WindowReadings
         /\ IsFiniteSet(reader.rows) /\ IsFiniteSet(reader.trend) /\ IsFiniteSet(reader.deviations)
<1>1. reader.kind = "analytics" /\ reader.pc >= 4 /\ reader.pc >= 3 /\ reader.pc >= 2
  BY DEF Done, Statements, Inv, Types, ReaderTyped
<1>2. /\ RollupRead /\ DeviationsRead
      /\ reader.from \in Int /\ reader.to \in Int
      /\ reader.rows \subseteq reader.trend /\ reader.trend \subseteq WindowReadings
  BY <1>1 DEF Inv, AnalyticsRead
<1>3. IsFiniteSet(DOMAIN readings) /\ IsFiniteSet(DOMAIN alerts)
  BY Numbers, FS_Interval DEF Inv
<1>4. /\ reader.trend \subseteq DOMAIN readings /\ reader.rows \subseteq DOMAIN readings
      /\ reader.deviations \subseteq DOMAIN alerts
  BY <1>2 DEF WindowReadings, WindowAlerts, DeviationsRead
<1> QED
  BY <1>2, <1>3, <1>4, FS_Subset

\* Whoever is not of a part is of the rest: it counts no less.
LEMMA RestCounts ==
  ASSUME NEW S, IsFiniteSet(S), NEW T \in SUBSET S, NEW R \in SUBSET S, S \ T \subseteq R
  PROVE  Cardinality(T) <= Cardinality(S) /\ Cardinality(S) <= Cardinality(T) + Cardinality(R)
<1>1. IsFiniteSet(R) /\ Cardinality(R) \in Nat
  BY PartsCount
<1>2. Cardinality(S \ T) <= Cardinality(R)
  BY <1>1, FS_Subset
<1> QED
  BY <1>1, <1>2, PartsCount

\* The days shown are all the days of the window, and add up.
LEMMA TrendAddsUp == Inv => TrendComplete
<1> SUFFICES ASSUME Inv, Done("analytics")
             PROVE  LET shown == MapThenSumSet(OnDay, Buckets(reader.from, reader.to))
                        total == Cardinality(reader.rows)
                        meanwhile == {i \in reader.trend : i > reader.since}
                    IN  total <= shown /\ shown <= total + Cardinality(meanwhile)
  BY DEF TrendComplete
<1> DEFINE days == Buckets(reader.from, reader.to)
           meanwhile == {i \in reader.trend : i > reader.since}
<1>1. MapThenSumSet(OnDay, days) = Cardinality({i \in reader.trend : readings[i].at \div Day \in days})
  BY AnalyticsPage, DaysFinite, DaysCount
<1>2. ASSUME NEW i \in reader.trend
      PROVE  readings[i].at \div Day \in days
  <2>1. i \in WindowReadings /\ reader.from \in Int /\ reader.to \in Int
    BY AnalyticsPage
  <2>2. readings[i].at \in Int /\ reader.from <= readings[i].at /\ readings[i].at < reader.to
    BY <2>1, Numbers DEF WindowReadings, InWindow, Inv
  <2> QED
    BY <2>1, <2>2, OnADay
<1>3. {i \in reader.trend : readings[i].at \div Day \in days} = reader.trend
  BY <1>2
<1>4. reader.trend \ reader.rows \subseteq meanwhile
  <2>1. ASSUME NEW i \in reader.trend, ~(i > reader.since) PROVE i \in reader.rows
    <3>1. i \in DOMAIN readings /\ InWindow(readings[i].at)
      BY AnalyticsPage DEF WindowReadings
    <3>2. i \in 1..reader.since
      BY <2>1, <3>1, Numbers DEF Inv, Types, ReaderTyped, Done
    <3> QED
      BY <3>1, <3>2, AnalyticsPage DEF RollupRead
  <2> QED
    BY <2>1
<1>5. reader.rows \in SUBSET reader.trend /\ IsFiniteSet(reader.trend)
  BY AnalyticsPage
<1>6. meanwhile \in SUBSET reader.trend
  OBVIOUS
<1> HIDE DEF days, meanwhile
<1>7. /\ Cardinality(reader.rows) <= Cardinality(reader.trend)
      /\ Cardinality(reader.trend) <= Cardinality(reader.rows) + Cardinality(meanwhile)
  BY <1>4, <1>5, <1>6, RestCounts
<1> QED
  BY <1>1, <1>3, <1>7 DEF days, meanwhile

\* The units that were listed have all deviations but those of newer units.
LEMMA UnitsAddUp == Inv /\ IsFiniteSet(DOMAIN units) => DeviationsAgree
<1> SUFFICES ASSUME Inv, IsFiniteSet(DOMAIN units), Done("analytics")
             PROVE  LET listed == MapThenSumSet(OfUnit, reader.units)
                        total == Cardinality(reader.deviations)
                        meanwhile == {i \in reader.deviations : i > reader.opened}
                    IN  /\ listed <= total /\ total <= listed + Cardinality(meanwhile)
                        /\ \A i \in 1..reader.opened :
                            InWindow(alerts[i].at) => i \in reader.deviations
  BY DEF DeviationsAgree
<1> DEFINE D == {i \in reader.deviations : alerts[i].unit \in reader.units}
           meanwhile == {i \in reader.deviations : i > reader.opened}
<1>1. IsFiniteSet(reader.units) /\ IsFiniteSet(reader.deviations)
  BY AnalyticsPage, FS_Subset DEF RollupRead
<1>2. MapThenSumSet(OfUnit, reader.units) = Cardinality(D)
  BY <1>1, UnitsCount
<1>3. reader.deviations \ D \subseteq meanwhile
  <2>1. ASSUME NEW i \in reader.deviations, ~(i > reader.opened) PROVE alerts[i].unit \in reader.units
    <3>1. i \in DOMAIN alerts
      BY AnalyticsPage DEF DeviationsRead, WindowAlerts
    <3>2. i \in 1..reader.opened
      BY <2>1, <3>1, Numbers DEF Inv, Types, ReaderTyped, Done
    <3> QED
      BY <3>2, AnalyticsPage DEF RollupRead
  <2> QED
    BY <2>1
<1>4. D \in SUBSET reader.deviations /\ meanwhile \in SUBSET reader.deviations
  OBVIOUS
<1> HIDE DEF D, meanwhile
<1>5. /\ Cardinality(D) <= Cardinality(reader.deviations)
      /\ Cardinality(reader.deviations) <= Cardinality(D) + Cardinality(meanwhile)
  BY <1>1, <1>3, <1>4, RestCounts
<1>6. \A i \in 1..reader.opened : InWindow(alerts[i].at) => i \in reader.deviations
  BY AnalyticsPage DEF DeviationsRead
<1> QED
  BY <1>2, <1>5, <1>6 DEF meanwhile

\* Whatever is stored, opened, documented or made while the analytics read, its three
\* statements disagree only about that: days, total and the units' deviations add up, no
\* older alert is left out, and none is called undocumented that was documented before.
THEOREM AnalyticsTellTruth == Spec => []AnalyticsTruthful
<1>1. Inv => UndocumentedCounted
  BY AnalyticsPage DEF UndocumentedCounted, DeviationsRead
<1>2. Inv /\ IsFiniteSet(DOMAIN units) => AnalyticsTruthful
  BY <1>1, TrendAddsUp, UnitsAddUp DEF AnalyticsTruthful
<1> QED
  BY <1>2, InvAlways, FiniteUnits, PTL
=============================================================================
